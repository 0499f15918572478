----------------------------- MODULE MCKernel -----------------------------
(* Instances of Kernel for TLC.  The main thread manages two workers: high, *)
(* which preempts it, and peer, with which it shares its priority and the   *)
(* time slices.                                                             *)
EXTENDS Kernel

CONSTANTS high, peer

\* Priorities: high above main and peer, the idle thread last.
Levels == [t \in Threads |-> IF t = high THEN 0 ELSE IF t = Idle THEN 2 ELSE 1]

Queue == [p \in Prios |-> IF p = 1 THEN <<Main>> ELSE IF p = 2 THEN <<Idle>> ELSE <<>>]

Given(mainCalls, workerCalls) == [t \in Threads |->
    IF t = Main THEN mainCalls ELSE IF t = Idle THEN {} ELSE workerCalls]

\* Threads are created, run, sleep and end.
Life == Given({"create", "startup", "sleep", "lock"}, {"yield", "sleep", "exit"})

\* Threads that never wait for a timeout are deleted from outside.
Deletion == Given({"create", "startup", "sleep", "delete"}, {"yield", "park", "exit"})

\* Suspension from outside, resumption, changes of priority.
Management ==
    Given({"create", "startup", "suspend", "resume", "priority", "schedule"},
          {"yield", "park"})

KernelUses == {Life, Deletion, Management}

\* Threads that do wait for a timeout are deleted from outside.
DeletionOfSleepers ==
    {Given({"create", "startup", "sleep", "delete"}, {"sleep"})}
=============================================================================
