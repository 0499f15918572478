------------------------------ MODULE IpcLists ------------------------------
(***************************************************************************)
(* What the IPC objects of src/src/ipc.c have in common, on top of Kernel: *)
(* lists of waiting threads in the order of arrival or of priority, waits  *)
(* with and without a timeout, resumption of the first waiter or of all,   *)
(* deletion.                                                               *)
(*                                                                         *)
(* An object is named as its suspend list is, by a member of Lists.  The   *)
(* steps of IPC calls in pc are sequences of a label, an object and the    *)
(* local variables of the call.                                            *)
(***************************************************************************)
EXTENDS Kernel

CONSTANTS
    Objects,     \* the IPC objects; a mailbox has a second list
    ListsOf,     \* [Objects -> its lists, in the order they are resumed in]
    Fifo,        \* objects with RT_IPC_FLAG_FIFO, the others are PRIO
    Newest,      \* memory pools: the newest waiter comes first
    Uses,        \* [Apis -> the objects that application uses]
    Interrupting \* applications whose interrupt handlers use the objects too

ASSUME IpcAssumption ==
    /\ Objects \subseteq Lists /\ Lists \cap Threads = {}
    /\ Fifo \subseteq Lists /\ Newest \subseteq Lists
    /\ \A o \in Objects : \/ ListsOf[o] = <<o>>
                          \/ \E l \in Lists \ Objects : ListsOf[o] = <<o, l>>
    /\ \A o, p \in Objects : Range(ListsOf[o]) \cap Range(ListsOf[p]) # {} => o = p
    /\ Uses \in [Apis -> SUBSET Objects]

VARIABLES
    live,        \* objects set up and not yet detached or deleted
    static,      \* those of them that have RT_Object_Class_Static, which an
                 \* init function sets and a create function does not
    wild         \* a list head was taken for a thread: what it overwrites is
                 \* not modelled

ipcvars == <<live, static, wild>>

\* rt_ipc_object_init.
IpcInit == Init /\ live = Uses[api] /\ static = Uses[api] /\ wild = FALSE

\* A handler runs, with interrupts masked.
Handler == isr = "none" /\ rt_current_thread # NoThread /\ api \in Interrupting

-----------------------------------------------------------------------------
\* Mutant: every list is in the order of arrival.
EnqueuedInFifo(q, t, fifo) == Append(q, t)

\* rt_ipc_list_suspend: where t goes in the suspend list q.
EnqueuedIn(q, t, fifo) ==
    LET later == {i \in DOMAIN q : current_priority[t] < current_priority[q[i]]}
    IN IF fifo \/ later = {} THEN Append(q, t) ELSE InsertAt(q, Min(later), t)

\* The suspend list l with t in it.
Enqueued(l, t) == IF l \in Newest THEN <<t>> \o suspend_thread[l]
                  ELSE EnqueuedIn(suspend_thread[l], t, l \in Fifo)

\* rt_ipc_list_suspend called by the running thread, with the ready queue that
\* table and group describe: rt_thread_suspend fails when the thread is not
\* READY, and is not asked whether it did.
Suspended(c, l, table, group) ==
    LET rest == Unlinked(table, c)
    IN /\ IF stat[c] = "READY"
          THEN /\ stat' = [stat EXCEPT ![c] = "SUSPEND"]
               /\ rt_thread_priority_table' = rest
               /\ rt_thread_ready_priority_group' =
                      IF rest[current_priority[c]] = <<>>
                      THEN group \ {current_priority[c]} ELSE group
          ELSE /\ rt_thread_priority_table' = table
               /\ rt_thread_ready_priority_group' = group
               /\ UNCHANGED stat
       /\ suspend_thread' = [suspend_thread EXCEPT ![l] = Enqueued(l, c)]

\* What all calls that wait do before rt_schedule: the error is reset, the
\* thread suspended and, when it waits for a time only, its timer started.
WaitOn(c, l, timed, table, group) ==
    /\ error' = [error EXCEPT ![c] = "EOK"]
    /\ Suspended(c, l, table, group)
    /\ armed' = (IF stat[c] = "READY" THEN TimerStopped(c) ELSE armed)
                \cup (IF timed THEN {c} ELSE {})

Wait(c, l, timed) ==
    WaitOn(c, l, timed, rt_thread_priority_table, rt_thread_ready_priority_group)

\* rt_ipc_list_resume: rt_thread_resume, inside a masked section, of the head of
\* the suspend list.
HeadResumedOn(l, table, group) ==
    LET t == Head(suspend_thread[l]) IN
    IF stat[t] = "SUSPEND"
    THEN /\ suspend_thread' = [suspend_thread EXCEPT ![l] = Tail(@)]
         /\ armed' = TimerStopped(t)
         /\ stat' = [stat EXCEPT ![t] = "READY"]
         /\ rt_thread_priority_table' = Inserted(table, t)
         /\ rt_thread_ready_priority_group' = group \cup {current_priority[t]}
    ELSE /\ rt_thread_priority_table' = table
         /\ rt_thread_ready_priority_group' = group
         /\ UNCHANGED <<suspend_thread, armed, stat>>

HeadResumed(l) ==
    HeadResumedOn(l, rt_thread_priority_table, rt_thread_ready_priority_group)

NobodyResumed == UNCHANGED <<suspend_thread, armed, stat, queues>>

\* Mutant: the waiter stays where it is.
FirstResumedNot(l) == NobodyResumed

\* The first waiter, if there is one, is resumed, ...
FirstResumed(l) ==
    IF suspend_thread[l] # <<>> THEN HeadResumed(l) ELSE NobodyResumed

\* ... and then the caller calls rt_schedule.
AfterResume(c, l) ==
    IF suspend_thread[l] # <<>> THEN << <<"sched", c>> >> ELSE <<>>

-----------------------------------------------------------------------------
\* Mutant: the waiters are not told that they wait in vain.
FailedNot(ts) == error

\* rt_ipc_list_resume_all sets thread->error.
Failed(ts) == [t \in Threads |-> IF t \in ts THEN "ERROR" ELSE error[t]]

\* The threads of q that are in S, in their order.
Among(q, S) ==
    LET among[i \in 0..Len(q)] ==
            IF i = 0 THEN <<>>
            ELSE IF q[i] \in S THEN Append(among[i - 1], q[i]) ELSE among[i - 1]
    IN among[Len(q)]

\* rt_thread_resume of those threads of q that are in S, one after the other
\* inside a masked section.
SomeResumed(q, S) ==
    /\ stat' = [t \in Threads |-> IF t \in S THEN "READY" ELSE stat[t]]
    /\ armed' = armed \ S
    /\ rt_thread_priority_table' =
           [p \in Prios |-> rt_thread_priority_table[p]
                               \o Among(q, {t \in S : current_priority[t] = p})]
    /\ rt_thread_ready_priority_group' =
           rt_thread_ready_priority_group \cup {current_priority[t] : t \in S}

\* rt_ipc_list_resume_all in a masked section, as the RESET command calls it.
AllResumed(woken) ==
    /\ SomeResumed(woken, Range(woken))
    /\ error' = Failed(Range(woken))

Waiters(o) == IF Len(ListsOf[o]) = 1 THEN suspend_thread[o]
              ELSE suspend_thread[o] \o suspend_thread[ListsOf[o][2]]

\* The control functions up to the end of the masked section, and then
\* rt_schedule.
ResetObject(c, o) ==
    /\ Call(c, "reset") /\ o \in live
    /\ AllResumed(Waiters(o))
    /\ suspend_thread' = [l \in Lists |-> IF l \in Range(ListsOf[o])
                                         THEN <<>> ELSE suspend_thread[l]]
    /\ Goto(c, << <<"sched", c>> >>)
    /\ UNCHANGED <<current_priority, remaining_tick, rt_thread_defunct,
                   rt_current_thread, rt_scheduler_lock_nest, isr, ipcvars>>

\* No thread waits for o or is in a call on it.
Deserted(o) ==
    /\ \A l \in Range(ListsOf[o]) : suspend_thread[l] = <<>>
    /\ \A t \in Threads : \A i \in DOMAIN pc[t] :
          LET step == IF pc[t][i][1] = "woken" THEN pc[t][i][2] ELSE pc[t][i]
          IN step[2] \notin Range(ListsOf[o])

\* What the init and create functions have in common: rt_object_init or
\* rt_object_allocate, and rt_ipc_object_init.  The storage is not in use.
MakeObject(c, o) ==
    /\ Call(c, "makeipc") /\ o \in Uses[api] \ live /\ Deserted(o)
    /\ live' = live \cup {o}
    /\ UNCHANGED <<kvars, wild>>

InitObject(c, o)   == MakeObject(c, o) /\ static' = static \cup {o}
CreateObject(c, o) == MakeObject(c, o) /\ static' = static \ {o}

\* What the detach and delete functions have in common: rt_ipc_list_resume_all of
\* each list, whose loop test is made with interrupts open, and then the object
\* is gone.
EndObject(c, o) ==
    /\ Call(c, "deleteipc") /\ o \in live
    /\ Goto(c, [i \in DOMAIN ListsOf[o] |-> <<"resumeall", ListsOf[o][i]>>]
               \o << <<"gone", o>> >>)
    /\ UNCHANGED <<tcb, lists, rt_current_thread, rt_scheduler_lock_nest, isr, ipcvars>>

ResumeAllTest(c) ==
    /\ At(c, "resumeall")
    /\ IF suspend_thread[Target(c)] # <<>>
       THEN Proceed(c, << <<"resumeone", Target(c)>>, <<"resumeall", Target(c)>> >>)
       ELSE Return(c)
    /\ UNCHANGED <<tcb, lists, rt_current_thread, rt_scheduler_lock_nest, isr, ipcvars>>

\* The masked body of the loop takes the head of the list, whatever it is now.
ResumeOne(c) ==
    /\ At(c, "resumeone")
    /\ LET l == Target(c) IN
       IF suspend_thread[l] = <<>>
       THEN /\ wild' = TRUE
            /\ UNCHANGED <<tcb, lists>>
       ELSE /\ error' = Failed({Head(suspend_thread[l])})
            /\ HeadResumed(l)
            /\ UNCHANGED <<current_priority, remaining_tick, rt_thread_defunct, wild>>
    /\ Return(c)
    /\ UNCHANGED <<rt_current_thread, rt_scheduler_lock_nest, isr, live, static>>

\* The one asserts that the object is static, the other that it is not.
DetachObject(c, o) == o \in static /\ EndObject(c, o)
DeleteObject(c, o) == o \notin static /\ EndObject(c, o)

\* rt_object_delete or rt_object_detach.
ObjectGone(c) ==
    /\ At(c, "gone")
    /\ live' = live \ {Target(c)}
    /\ static' = static \ {Target(c)}
    /\ Return(c)
    /\ UNCHANGED <<tcb, lists, rt_current_thread, rt_scheduler_lock_nest, isr, wild>>

\* The memory pools resume their waiters with a count (module MemPool).
IpcStep(c) ==
    \/ ResumeAllTest(c) \/ ObjectGone(c)
    \/ ResumeOne(c) /\ Target(c) \notin Newest

-----------------------------------------------------------------------------
(* The loop in which senders and receivers of mails and messages wait.  Its *)
(* step is <<label, object, wait, ...>>: wait is "try" for a call that does *)
(* not wait, and "no" when the time of a "timed" one is used up.            *)

Locals(c) == Head(pc[c])

\* A turn that finds nothing.  err is thread->error when the time is used up.
LoopWaits(c, l, err) ==
    /\ IF Locals(c)[3] \in {"ever", "timed"}
       THEN /\ Wait(c, l, Locals(c)[3] = "timed")
            /\ Proceed(c, << <<"sched", c>>, <<"woken", Locals(c)>> >>)
       ELSE /\ error' = IF Locals(c)[3] = "try"
                        THEN error ELSE [error EXCEPT ![c] = err]
            /\ Return(c)
            /\ UNCHANGED <<stat, armed, queues, suspend_thread>>
    /\ UNCHANGED <<current_priority, remaining_tick, rt_thread_defunct,
                   rt_current_thread, rt_scheduler_lock_nest, isr, ipcvars>>

\* After rt_schedule: an error is returned, else the loop goes on, with what is
\* left of the time.
Woken(c) ==
    /\ At(c, "woken")
    /\ IF error[c] # "EOK"
       THEN Return(c)
       ELSE \E left \in (IF Target(c)[3] = "timed" THEN {"timed", "no"} ELSE {"ever"}) :
                Proceed(c, << [Target(c) EXCEPT ![3] = left] >>)
    /\ UNCHANGED <<tcb, lists, rt_current_thread, rt_scheduler_lock_nest, isr, ipcvars>>

\* Threads that were resumed out of such a wait with the given label and have
\* not yet looked again.
ToLookAgain(o, label) ==
    {t \in Threads :
        \E i \in DOMAIN pc[t] :
            LET e == pc[t][i]
            IN \/ e[1] = label /\ e[2] = o
               \/ /\ e[1] = "woken" /\ e[2][1] = label /\ e[2][2] = o
                  /\ error[t] = "EOK"
                  /\ \A l \in Range(ListsOf[o]) : t \notin Range(suspend_thread[l])}

-----------------------------------------------------------------------------
(* Properties.                                                             *)

\* A list with RT_IPC_FLAG_PRIO is in the order of the priorities, through
\* timeouts out of its middle and waits that begin again.
WaitersInOrder ==
    \A l \in Lists \ (Fifo \cup Newest) : \A i, j \in DOMAIN suspend_thread[l] :
        i < j => current_priority[suspend_thread[l][i]]
                     <= current_priority[suspend_thread[l][j]]

\* The threads of a suspend list are suspended and inside the call they wait in
\* ("the thread shall wait", the comments): none has returned or is scheduled.
WaitersWait ==
    \A l \in Lists : \A t \in Range(suspend_thread[l]) :
        stat[t] = "SUSPEND" /\ pc[t] # <<>>

\* The suspend lists hold who waits, in the order they are to be resumed in.
SuspendListsAreSound == WaitersWait /\ WaitersInOrder

=============================================================================
