------------------------------- MODULE Objects -------------------------------
(***************************************************************************)
(* The kernel objects of src/src/object.c: one list of objects for each    *)
(* class, to which threads add objects and from which they take them, and  *)
(* the commands of finsh/cmd.c that list them.                             *)
(*                                                                         *)
(* A thread may be preempted between any two steps; a step is a section    *)
(* with interrupts masked or the scheduler locked, or what a thread does   *)
(* between two of them.                                                    *)
(***************************************************************************)
EXTENDS Integers, Sequences, SequencesExt, FiniteSets, FiniteSetsExt

CONSTANTS
    Threads,
    Objs,                \* storage for objects
    Classes,
    Class,               \* [Objs -> Classes], what is stored there
    Names,
    LIST_FIND_OBJ_NR,    \* how many objects a listing takes at a time
    Nobody,              \* RT_NULL
    Applications         \* what the threads do, see Devices

ASSUME ObjectsAssumption ==
    /\ LIST_FIND_OBJ_NR \in Nat \ {0}
    /\ {"Thread", "Semaphore", "Event", "Mutex", "MailBox", "MessageQueue",
        "MemHeap", "MemPool", "Timer", "Device"} \subseteq Classes
    /\ "none" \notin Classes
    /\ Class \in [Objs -> Classes]
    /\ Nobody \notin Objs

VARIABLES
    app,                 \* the application
    type,                \* [Objs -> class or "none"]: object->type
    static,              \* objects with RT_Object_Class_Static
    name,
    object_list,         \* [Classes -> sequence of objects], the head first
    pc,                  \* where a thread is, the object it is at, what then
    cursor,              \* listings: where list_get_next goes on,
    batch,               \*   the objects it returned
    shown,               \*   history: what was printed,
    there,               \*   what was in the list all the time,
    cut                  \*   whether the listing lost its place

containers == <<type, static, name, object_list>>
listings   == <<cursor, batch, shown, there, cut>>

ObjectsInit ==
    /\ type = [o \in Objs |-> "none"] /\ static = {}
    /\ name = [o \in Objs |-> CHOOSE n \in Names : TRUE]
    /\ object_list = [k \in Classes |-> <<>>]
    /\ pc = [t \in Threads |-> [at |-> "ready", obj |-> Nobody, then |-> "ready"]]
    /\ cursor = [t \in Threads |-> Nobody] /\ batch = [t \in Threads |-> <<>>]
    /\ shown = [t \in Threads |-> {}] /\ there = [t \in Threads |-> {}]
    /\ cut = {}

At(t, label) == pc[t].at = label
\* A thread that is ready is at no object.
Goto(t, label, o, then) ==
    pc' = [pc EXCEPT ![t] =
        [at |-> label, obj |-> IF label = "ready" THEN Nobody ELSE o, then |-> then]]
Ready(t)  == Goto(t, "ready", Nobody, "ready")
\* The call t is in comes to its end.
Return(t) == Goto(t, pc[t].then, pc[t].obj, "ready")

Linked(o)   == o \in Range(object_list[Class[o]])
\* Nobody adds o or takes it away.
Settled(o)  == \A t \in Threads : pc[t].obj = o => pc[t].at \notin {"insert", "remove", "free"}

-----------------------------------------------------------------------------
(* Objects come and go.                                                    *)

\* rt_object_init, on storage that is not in the list (its assertion): the
\* search, the type and the name; ...
InitObject(t, o, n, then) ==
    /\ type[o] = "none" /\ ~Linked(o) /\ Settled(o)
    /\ type' = [type EXCEPT ![o] = Class[o]]
    /\ static' = static \cup {o}
    /\ name' = [name EXCEPT ![o] = n]
    /\ Goto(t, "insert", o, then)
    /\ UNCHANGED <<app, object_list, listings>>

\* ... rt_object_allocate, with new storage, ...
AllocateObject(t, o, n) ==
    /\ At(t, "ready") /\ o \in app.creates[t]
    /\ type[o] = "none" /\ ~Linked(o) /\ Settled(o)
    /\ type' = [type EXCEPT ![o] = Class[o]]
    /\ static' = static \ {o}
    /\ name' = [name EXCEPT ![o] = n]
    /\ Goto(t, "insert", o, "ready")
    /\ UNCHANGED <<app, object_list, listings>>

\* ... and, masked, the insertion at the head.
Link(t) ==
    /\ At(t, "insert")
    /\ LET o == pc[t].obj
       IN object_list' = [object_list EXCEPT ![Class[o]] = <<o>> \o @]
    /\ Return(t)
    /\ UNCHANGED <<app, type, static, name, listings>>

\* rt_object_detach and rt_object_delete clear the type ...
EndObject(t, o, then) ==
    /\ type[o] # "none" /\ Linked(o) /\ Settled(o)
    /\ type' = [type EXCEPT ![o] = "none"]
    /\ there' = [u \in Threads |-> there[u] \ {o}]
    /\ Goto(t, "remove", o, then)
    /\ UNCHANGED <<app, static, name, object_list, cursor, batch, shown, cut>>

DetachObject(t, o) ==
    /\ At(t, "ready") /\ o \in app.inits[t] \cap static
    /\ EndObject(t, o, "ready")

DeleteObject(t, o) ==
    /\ At(t, "ready") /\ o \in app.creates[t] \ static
    /\ EndObject(t, o, "free")

\* Mutant: the object stays in the list.
UnlinkNot(t) ==
    /\ At(t, "remove")
    /\ Return(t)
    /\ UNCHANGED <<app, containers, listings>>

\* ... and remove the object, masked; ...
Unlink(t) ==
    /\ At(t, "remove")
    /\ LET o == pc[t].obj
       IN object_list' = [object_list EXCEPT ![Class[o]] = RemoveFirst(@, o)]
    /\ Return(t)
    /\ UNCHANGED <<app, type, static, name, listings>>

\* ... rt_object_delete frees the storage.
Free(t) ==
    /\ At(t, "free") /\ Ready(t)
    /\ UNCHANGED <<app, containers, listings>>

\* rt_object_find, with the scheduler locked: the first object of that name.
Found(k, n) ==
    LET named == {i \in DOMAIN object_list[k] : name[object_list[k][i]] = n}
    IN IF named = {} THEN Nobody ELSE object_list[k][Min(named)]

-----------------------------------------------------------------------------
(* The listing of a class by a thread of the shell.                        *)

\* list_find_init.
StartListing(t, k) ==
    /\ At(t, "ready") /\ k \in app.lists[t]
    /\ pc' = [pc EXCEPT ![t] = [at |-> "get", obj |-> Nobody, then |-> k]]
    /\ there' = [there EXCEPT ![t] = {o \in Range(object_list[k]) : type[o] = k}]
    /\ UNCHANGED <<app, containers, cursor, batch, shown, cut>>

\* Mutant: the object behind the last batch is passed over.
BatchSkipping(k, o) ==
    LET list == object_list[k]
        from == SelectInSeq(list, LAMBDA p : p = o) + (IF o = Nobody THEN 1 ELSE 2)
    IN SubSeq(list, from, Min({Len(list), from + LIST_FIND_OBJ_NR - 1}))

\* The objects behind o, at most LIST_FIND_OBJ_NR.  An object that is not in
\* the list yet, or no longer, is followed by itself.
Batch(k, o) ==
    LET list == object_list[k]
        from == SelectInSeq(list, LAMBDA p : p = o) + 1
    IN IF o # Nobody /\ ~Linked(o) THEN [i \in 1..LIST_FIND_OBJ_NR |-> o]
       ELSE SubSeq(list, from, Min({Len(list), from + LIST_FIND_OBJ_NR - 1}))

Listing(t) == pc[t].then

\* list_get_next, masked.  The object the last batch ended at may have gone:
\* without its type there is no way on.
GetNext(t) ==
    /\ At(t, "get")
    /\ cursor[t] # Nobody => /\ type[cursor[t]] = Listing(t)
                             /\ Linked(cursor[t]) \/ cursor[t] \in static
    /\ batch' = [batch EXCEPT ![t] = Batch(Listing(t), cursor[t])]
    /\ cursor' = [cursor EXCEPT ![t] =
           IF Len(batch'[t]) = LIST_FIND_OBJ_NR THEN Last(batch'[t]) ELSE Nobody]
    /\ Goto(t, "show", Nobody, Listing(t))
    /\ UNCHANGED <<app, containers, shown, there, cut>>

GetNextGone(t) ==
    /\ At(t, "get") /\ cursor[t] # Nobody
    /\ type[cursor[t]] # Listing(t)
    /\ cursor' = [cursor EXCEPT ![t] = Nobody]
    /\ cut' = cut \cup {t}
    /\ Goto(t, "show", Nobody, Listing(t))
    /\ UNCHANGED <<app, containers, batch, shown, there>>

\* Storage that was freed and allocated again is not linked yet: list_get_next
\* follows a null pointer.
GetNextNull(t) ==
    /\ At(t, "get") /\ cursor[t] # Nobody
    /\ type[cursor[t]] = Listing(t)
    /\ ~Linked(cursor[t]) /\ cursor[t] \notin static
    /\ Goto(t, "wild", Nobody, Listing(t))
    /\ UNCHANGED <<app, containers, listings>>

\* The type of the next object of the batch is tested, masked, ...
TestObject(t) ==
    /\ At(t, "show") /\ batch[t] # <<>>
    /\ batch' = [batch EXCEPT ![t] = Tail(@)]
    /\ IF type[Head(batch[t])] = Listing(t)
       THEN Goto(t, "print", Head(batch[t]), Listing(t))
       ELSE UNCHANGED pc
    /\ UNCHANGED <<app, containers, cursor, shown, there, cut>>

\* ... and, with interrupts open, it is printed, whatever it is by now.
PrintObject(t) ==
    /\ At(t, "print")
    /\ shown' = [shown EXCEPT ![t] = @ \cup {pc[t].obj}]
    /\ Goto(t, "show", Nobody, Listing(t))
    /\ UNCHANGED <<app, containers, cursor, batch, there, cut>>

\* The next batch, or the end.
ShowNext(t) ==
    /\ At(t, "show") /\ batch[t] = <<>>
    /\ Goto(t, IF cursor[t] = Nobody THEN "listed" ELSE "get", Nobody, Listing(t))
    /\ UNCHANGED <<app, containers, listings>>

EndListing(t) ==
    /\ At(t, "listed") /\ Ready(t)
    /\ shown' = [shown EXCEPT ![t] = {}] /\ there' = [there EXCEPT ![t] = {}]
    /\ cut' = cut \ {t}
    /\ UNCHANGED <<app, containers, cursor, batch>>

\* The commands, each for the objects of its class.
list_thread(t)   == StartListing(t, "Thread")
list_sem(t)      == StartListing(t, "Semaphore")
list_event(t)    == StartListing(t, "Event")
list_mutex(t)    == StartListing(t, "Mutex")
list_mailbox(t)  == StartListing(t, "MailBox")
list_msgqueue(t) == StartListing(t, "MessageQueue")
list_memheap(t)  == StartListing(t, "MemHeap")
list_mempool(t)  == StartListing(t, "MemPool")
list_timer(t)    == StartListing(t, "Timer")
list_device(t)   == StartListing(t, "Device")

Command(t) ==
    \/ list_thread(t) \/ list_sem(t) \/ list_event(t) \/ list_mutex(t)
    \/ list_mailbox(t) \/ list_msgqueue(t) \/ list_memheap(t) \/ list_mempool(t)
    \/ list_timer(t) \/ list_device(t)

ListingStep(t) ==
    \/ GetNext(t) \/ GetNextGone(t) \/ GetNextNull(t)
    \/ TestObject(t) \/ PrintObject(t) \/ ShowNext(t) \/ EndListing(t)

ObjectStep(t) ==
    \/ \E o \in Objs, n \in Names :
          \/ /\ At(t, "ready") /\ o \in app.inits[t]
             /\ InitObject(t, o, n, "ready")
          \/ AllocateObject(t, o, n)
    \/ \E o \in Objs : DetachObject(t, o) \/ DeleteObject(t, o)
    \/ Link(t) \/ Unlink(t) \/ Free(t)

-----------------------------------------------------------------------------
(* Properties.                                                             *)

\* Each object is once in the list of its class, from its insertion to its
\* removal: when nobody is at work on it, the type tells whether it is there.
ListsAreExact ==
    /\ \A k \in Classes : /\ IsInjective(object_list[k])
                          /\ \A o \in Range(object_list[k]) : Class[o] = k
    /\ \A o \in Objs : Settled(o) => (type[o] # "none" <=> Linked(o))

\* A listing that did not lose its place has shown every object that was in the
\* list from its start to its end, for all that others came and went between the
\* batches and some of them were the last of a batch.
ListingsAreComplete ==
    \A t \in Threads : At(t, "listed") /\ t \notin cut => there[t] \subseteq shown[t]
=============================================================================
