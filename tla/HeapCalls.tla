----------------------------- MODULE HeapCalls -----------------------------
(* What the allocators of src/src have in common: threads in calls of       *)
(* rt_malloc, rt_realloc and rt_free, the semaphore that serializes them,   *)
(* and the areas the callers have.                                          *)
EXTENDS Integers, Sequences, FiniteSets, FiniteSetsExt, Functions

CONSTANTS
    Threads,
    Applications,      \* records of the sizes each thread asks for, the bound
                       \* on the areas they have, and what they run on
    RT_ALIGN_SIZE

ASSUME HeapCallsAssumption ==
    /\ \A f \in Applications : f.asks \in [Threads -> SUBSET (Nat \ {0})]
    /\ RT_ALIGN_SIZE \in Nat \ {0}

VARIABLES
    app,       \* the application that runs
    heap,      \* what the allocator keeps
    heap_sem,  \* the thread that has the token, and those that wait for it
    pc,        \* where each thread is in its call, or "ready"
    size,      \* its locals: the size asked for,
    ptr,       \*   the block it is at,
    old,       \*   the argument of rt_realloc while it is in rt_malloc
    given      \* the sizes of the areas callers have, by address

vars == <<app, heap, heap_sem, pc, size, ptr, old, given>>

NoBlock == -1

Up(n, step) == ((n + step - 1) \div step) * step
Aligned(n)  == Up(n, RT_ALIGN_SIZE)

CallsInit ==
    /\ app \in Applications
    /\ pc = [t \in Threads |-> "ready"]
    /\ size = [t \in Threads |-> 0]
    /\ ptr = [t \in Threads |-> NoBlock]
    /\ old = [t \in Threads |-> NoBlock]
    /\ given = [a \in {} |-> 0]

Goto(t, label) == pc' = [pc EXCEPT ![t] = label]

\* The call returns, and its locals with it.
Leave(t) ==
    /\ pc' = [pc EXCEPT ![t] = "ready"]
    /\ size' = [size EXCEPT ![t] = 0]
    /\ ptr' = [ptr EXCEPT ![t] = NoBlock]
    /\ old' = [old EXCEPT ![t] = NoBlock]

\* rt_sem_take: the token, or a place behind those who wait (RT_IPC_FLAG_FIFO;
\* module Semaphore).
TakeAt(t, labels) ==
    /\ pc[t] \in labels
    /\ t \notin Range(heap_sem)
    /\ heap_sem' = Append(heap_sem, t)
    /\ UNCHANGED <<heap, pc, size, ptr, old, given>>

Holds(t) == heap_sem # <<>> /\ Head(heap_sem) = t

\* rt_sem_release.
Release == heap_sem' = Tail(heap_sem)

\* A thread that asks for memory at all is in its own code.
Ready(t) == pc[t] = "ready" /\ app.asks[t] # {}

\* The bound on the areas allows one more.
MoreAreas == Cardinality(DOMAIN given) < app.areas

\* The areas no call is working on: what applications may pass to a call.
Idle == DOMAIN given \ Range(old)

\* The caller gets area a, or gives it up.
HandOver(a, n) == given' = [b \in DOMAIN given \cup {a} |->
                               IF b = a THEN n ELSE given[b]]

Surrender(a) == given' = [b \in DOMAIN given \ {a} |-> given[b]]
=============================================================================
