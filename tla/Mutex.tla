------------------------------- MODULE Mutex -------------------------------
(***************************************************************************)
(* The mutexes of src/src/ipc.c: one owner, recursive takes, and the       *)
(* priority of the owner raised to that of the threads that wait.          *)
(*                                                                         *)
(* taken is a history variable: the successful takes of each thread less   *)
(* its releases, by what the calls returned.                               *)
(***************************************************************************)
EXTENDS IpcLists

CONSTANTS
    Mutexes,
    MaxHold      \* bound on recursive takes

ASSUME MutexAssumption == Mutexes \subseteq Objects /\ MaxHold \in Nat \ {0}

VARIABLES
    free,              \* mutex->value = 1
    owner,             \* mutex->owner, or NoThread
    hold,
    original_priority,
    taken

mvars == <<free, owner, hold, original_priority, taken>>

NoPriority == PrioMax   \* 0xff

MutexInit ==
    /\ free = Mutexes
    /\ owner = [m \in Mutexes |-> NoThread]
    /\ hold = [m \in Mutexes |-> 0]
    /\ original_priority = [m \in Mutexes |-> NoPriority]
    /\ taken = [m \in Mutexes |-> [t \in Threads |-> 0]]

Counted(m, t, n) == taken' = [taken EXCEPT ![m][t] = @ + n]

-----------------------------------------------------------------------------
\* rt_thread_control with RT_THREAD_CTRL_CHANGE_PRIORITY inside a masked section:
\* what it makes of the ready queue.
Moved(t, p) ==
    IF stat[t] # "READY"
    THEN [table |-> rt_thread_priority_table, group |-> rt_thread_ready_priority_group]
    ELSE LET rest == Unlinked(rt_thread_priority_table, t)
         IN [table |-> [rest EXCEPT ![p] = Append(@, t)],
             group |-> GroupAfterRemove(rest, t) \cup {p}]

\* rt_mutex_take of a free mutex, ...
MutexTake(c, m) ==
    /\ Call(c, "mutex") /\ m \in live
    /\ m \in free
    /\ free' = free \ {m}
    /\ owner' = [owner EXCEPT ![m] = c]
    /\ original_priority' = [original_priority EXCEPT ![m] = current_priority[c]]
    /\ hold' = [hold EXCEPT ![m] = @ + 1]
    /\ Counted(m, c, 1)
    /\ error' = [error EXCEPT ![c] = "EOK"]
    /\ UNCHANGED <<stat, current_priority, remaining_tick, armed, lists,
                   rt_current_thread, rt_scheduler_lock_nest, isr, pc, ipcvars>>

\* ... of one the thread has, ...
MutexAgain(c, m) ==
    /\ Call(c, "mutex") /\ m \in live
    /\ owner[m] = c /\ hold[m] < MaxHold
    /\ hold' = [hold EXCEPT ![m] = @ + 1]
    /\ Counted(m, c, 1)
    /\ error' = [error EXCEPT ![c] = "EOK"]
    /\ UNCHANGED <<stat, current_priority, remaining_tick, armed, lists,
                   rt_current_thread, rt_scheduler_lock_nest, isr, pc, ipcvars,
                   free, owner, original_priority>>

Raises(c, m) == current_priority[c] < current_priority[owner[m]]

\* ... of one another thread has, without a waiting time, ...
MutexTry(c, m) ==
    /\ Call(c, "trylock") /\ m \in live
    /\ m \notin free /\ owner[m] # c
    /\ error' = [error EXCEPT ![c] = "ETIMEOUT"]
    /\ UNCHANGED <<stat, current_priority, remaining_tick, armed, lists,
                   rt_current_thread, rt_scheduler_lock_nest, isr, pc, ipcvars, mvars>>

\* ... and with one.
MutexWait(c, m, timed) ==
    /\ Call(c, IF timed THEN "timedlock" ELSE "mutex") /\ m \in live
    /\ m \notin free /\ owner[m] # c
    /\ LET p == current_priority[c]
           q == Moved(owner[m], p)
       IN IF Raises(c, m)
          THEN /\ current_priority' = [current_priority EXCEPT ![owner[m]] = p]
               /\ WaitOn(c, m, timed, q.table, q.group)
          ELSE Wait(c, m, timed) /\ UNCHANGED current_priority
    /\ Goto(c, << <<"sched", c>>, <<"locked", m>> >>)
    /\ UNCHANGED <<remaining_tick, rt_thread_defunct, rt_current_thread,
                   rt_scheduler_lock_nest, isr, ipcvars, mvars>>

\* rt_mutex_take returns thread->error.
MutexReturn(c) ==
    /\ At(c, "locked")
    /\ IF error[c] = "EOK" THEN Counted(Target(c), c, 1) ELSE UNCHANGED taken
    /\ Return(c)
    /\ UNCHANGED <<tcb, lists, rt_current_thread, rt_scheduler_lock_nest, isr,
                   ipcvars, free, owner, hold, original_priority>>

\* rt_mutex_release by a thread that is not the owner.
MutexRefused(c, m) ==
    /\ Call(c, "unlock") /\ m \in live /\ owner[m] # c
    /\ error' = [error EXCEPT ![c] = "ERROR"]
    /\ UNCHANGED <<stat, current_priority, remaining_tick, armed, lists,
                   rt_current_thread, rt_scheduler_lock_nest, isr, pc, ipcvars, mvars>>

\* rt_mutex_release with takes left.
MutexLessOne(c, m) ==
    /\ Call(c, "unlock") /\ m \in live /\ owner[m] = c
    /\ hold[m] > 1
    /\ hold' = [hold EXCEPT ![m] = @ - 1]
    /\ Counted(m, c, -1)
    /\ UNCHANGED <<kvars, ipcvars, free, owner, original_priority>>

\* Mutant: the new owner is recorded with the priority of the old one.
PriorityToKeepOld(m, t) == original_priority[m]

\* The priority the new owner comes back to.
PriorityToKeep(m, t) == current_priority[t]

\* Mutant: the mutex is free although it has a new owner.
HandedOverFree(c, m) ==
    /\ free' = free \cup {m}
    /\ owner' = [owner EXCEPT ![m] = Head(suspend_thread[m])]
    /\ original_priority' = [original_priority EXCEPT
           ![m] = PriorityToKeep(m, Head(suspend_thread[m]))]
    /\ UNCHANGED hold

\* The first waiter is the owner from now on; hold goes down and up again.
HandedOver(c, m) ==
    /\ owner' = [owner EXCEPT ![m] = Head(suspend_thread[m])]
    /\ original_priority' = [original_priority EXCEPT
           ![m] = PriorityToKeep(m, Head(suspend_thread[m]))]
    /\ UNCHANGED <<free, hold>>

GivenUp(c, m) ==
    /\ free' = free \cup {m}
    /\ owner' = [owner EXCEPT ![m] = NoThread]
    /\ original_priority' = [original_priority EXCEPT ![m] = NoPriority]
    /\ hold' = [hold EXCEPT ![m] = 0]

\* rt_mutex_release of the last take: the thread has its own priority again, and
\* the mutex goes to the first waiter.
MutexRelease(c, m) ==
    /\ Call(c, "unlock") /\ m \in live /\ owner[m] = c
    /\ hold[m] = 1
    /\ Counted(m, c, -1)
    /\ current_priority' = [current_priority EXCEPT ![c] = original_priority[m]]
    /\ LET q == IF original_priority[m] # current_priority[c]
                THEN Moved(c, original_priority[m])
                ELSE [table |-> rt_thread_priority_table,
                      group |-> rt_thread_ready_priority_group]
       IN IF suspend_thread[m] # <<>>
          THEN HandedOver(c, m) /\ HeadResumedOn(m, q.table, q.group)
          ELSE /\ GivenUp(c, m)
               /\ rt_thread_priority_table' = q.table
               /\ rt_thread_ready_priority_group' = q.group
               /\ UNCHANGED <<suspend_thread, armed, stat>>
    /\ Goto(c, AfterResume(c, m))
    /\ UNCHANGED <<remaining_tick, error, rt_thread_defunct, rt_current_thread,
                   rt_scheduler_lock_nest, isr, ipcvars>>

\* rt_mutex_init and rt_mutex_create.
MutexSetUp(m) ==
    /\ free' = free \cup {m}
    /\ owner' = [owner EXCEPT ![m] = NoThread]
    /\ hold' = [hold EXCEPT ![m] = 0]
    /\ original_priority' = [original_priority EXCEPT ![m] = NoPriority]
    /\ taken' = [taken EXCEPT ![m] = [t \in Threads |-> 0]]

MutexInitialise(c, m) == InitObject(c, m) /\ MutexSetUp(m)
MutexCreate(c, m)     == CreateObject(c, m) /\ MutexSetUp(m)

\* rt_mutex_detach and rt_mutex_delete: of a mutex that is taken, too, whose owner
\* keeps the priority it was raised to.
MutexDetach(c, m) == DetachObject(c, m) /\ UNCHANGED mvars
MutexDelete(c, m) == DeleteObject(c, m) /\ UNCHANGED mvars

MutexStep(c) ==
    \/ MutexReturn(c)
    \/ \E m \in Mutexes :
          \/ MutexInitialise(c, m) \/ MutexCreate(c, m)
          \/ MutexDetach(c, m) \/ MutexDelete(c, m)
          \/ MutexTake(c, m) \/ MutexAgain(c, m) \/ MutexTry(c, m) \/ MutexRefused(c, m)
          \/ MutexLessOne(c, m) \/ MutexRelease(c, m)
          \/ \E timed \in BOOLEAN : MutexWait(c, m, timed)

-----------------------------------------------------------------------------
(* Properties.                                                             *)

\* t was resumed to own m and has not returned from rt_mutex_take.
Receiving(t, m) ==
    /\ \E i \in DOMAIN pc[t] : pc[t][i] = <<"locked", m>>
    /\ error[t] = "EOK" /\ t \notin Range(suspend_thread[m])

\* However takes, timeouts, releases and deletion interleave, the owner is the
\* one thread whose takes succeeded, it has it as often as hold says, and a
\* free mutex has neither an owner nor waiters.
MutexIsOwned ==
    \A m \in Mutexes :
        LET due(t) == taken[m][t] + (IF Receiving(t, m) THEN 1 ELSE 0)
        IN /\ m \in free <=> owner[m] = NoThread
           /\ m \in free => hold[m] = 0 /\ suspend_thread[m] = <<>>
           /\ m \notin free => hold[m] = due(owner[m]) /\ hold[m] > 0
           /\ \A t \in Threads \ {owner[m]} : due(t) = 0

\* No waiter has a higher priority than the owner it waits for, and a thread that
\* owns nothing has the priority it began with, if no thread is given another by
\* rt_thread_control (when threads have one mutex at a time, with
\* RT_IPC_FLAG_PRIO).
OwnerInherits ==
    /\ \A m \in Mutexes : \A t \in Range(suspend_thread[m]) :
          current_priority[owner[m]] <= current_priority[t]
    /\ (\A t \in Threads : "priority" \notin api[t]) =>
          \A t \in Threads : (\A m \in Mutexes : owner[m] # t) =>
              current_priority[t] = InitPrio[t]

=============================================================================
