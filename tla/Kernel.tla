------------------------------- MODULE Kernel -------------------------------
(***************************************************************************)
(* The RT-Thread kernel of src/src: the ready queue (scheduler.c), the     *)
(* life cycle of threads (thread.c), the tick interrupt (clock.c, irq.c)   *)
(* and the reaping of dead threads by the idle thread (idle.c), on one     *)
(* hart.                                                                   *)
(*                                                                         *)
(* One step is one section of code that runs with interrupts masked, or    *)
(* one unmasked read or write of shared state.  Between two steps an       *)
(* interrupt may come and, if it wakes a thread, another thread may run.   *)
(* pc[t] lists the steps that thread t has still to make of the calls it   *)
(* is in; t is in its own code when it is empty.                           *)
(*                                                                         *)
(* The thread timers are kept as the set of armed timers: any of them may  *)
(* expire at any tick (module Timer has the list and the arithmetic).      *)
(***************************************************************************)
EXTENDS Integers, Sequences, FiniteSets, SequencesExt

CONSTANTS
    Threads,     \* struct rt_thread objects
    Idle,        \* the idle thread
    Main,        \* the main thread
    NoThread,    \* what is not a thread: a list head taken for one
    Static,      \* threads set up by rt_thread_init, not rt_thread_create
    PrioMax,     \* RT_THREAD_PRIORITY_MAX
    InitPrio,    \* [Threads -> priority]
    InitTick,    \* the time slice
    MaxNest,     \* bound on rt_scheduler_lock_nest
    Lists,       \* suspend lists of the IPC objects
    StartQueue,  \* the ready lists when rtthread_startup starts the scheduler
    Apis         \* what applications do: [Threads -> the calls it makes, by name]

Prios == 0..PrioMax-1

ASSUME KernelAssumption ==
    /\ Idle \in Threads /\ Main \in Threads \ {Idle}
    /\ NoThread \notin Threads /\ IsFiniteSet(Threads)
    /\ Static \subseteq Threads
    /\ PrioMax \in Nat \ {0}
    /\ InitPrio \in [Threads -> Prios]
    /\ StartQueue \in [Prios -> Seq(Threads)]
    /\ \A p \in Prios : /\ \A i, j \in DOMAIN StartQueue[p] :
                              StartQueue[p][i] = StartQueue[p][j] => i = j
                        /\ \A i \in DOMAIN StartQueue[p] :
                              InitPrio[StartQueue[p][i]] = p
    /\ \A t \in {Main, Idle} : t \in Range(StartQueue[InitPrio[t]])
    /\ InitTick \in Nat \ {0} /\ MaxNest \in Nat
    /\ \A f \in Apis : f \in [Threads -> SUBSET STRING] /\ f[Idle] = {}

VARIABLES
    stat,                           \* thread->stat
    current_priority,               \* thread->current_priority
    remaining_tick,                 \* thread->remaining_tick
    error,                          \* thread->error
    armed,                          \* threads whose thread_timer is running
    rt_thread_priority_table,       \* the ready lists
    rt_thread_ready_priority_group, \* priorities whose bit is set
    rt_thread_defunct,              \* dead threads the idle thread frees
    suspend_thread,                 \* the suspend list of each IPC object
    rt_current_thread,
    rt_scheduler_lock_nest,
    isr,                            \* the interrupt being handled, or "none"
    pc,                             \* [Threads -> steps still to make]
    api                             \* the calls of this application

queues == <<rt_thread_priority_table, rt_thread_ready_priority_group>>
lists  == <<queues, rt_thread_defunct, suspend_thread>>
tcb    == <<stat, current_priority, remaining_tick, error, armed>>
kvars  == <<tcb, lists, rt_current_thread, rt_scheduler_lock_nest, isr, pc>>

Stats  == {"NONE", "INIT", "READY", "SUSPEND", "CLOSE"}
Errors == {"EOK", "ETIMEOUT", "ERROR"}

\* The steps of the kernel's calls; each is about a thread.
Labels == {"sched", "resume", "unlink", "insert", "suspend", "remove", "awake",
           "dremove", "dtimer", "dclose", "ddefunct", "free"}

-----------------------------------------------------------------------------
(* The ready queue.  Each operator describes the next value of the state   *)
(* it names, so that a masked section is the conjunction of what it calls. *)

\* rt_list_remove of t->tlist, whatever list it is on.
Unlinked(table, t) == [l \in DOMAIN table |-> RemoveFirst(table[l], t)]

\* rt_schedule_insert_thread: at the tail of its ready list.
Inserted(table, t) ==
    [table EXCEPT ![current_priority[t]] = Append(@, t)]

\* rt_schedule_remove_thread clears the bit of t's priority when the ready
\* list of that priority is empty, wherever t was linked.
GroupAfterRemove(table, t) ==
    IF table[current_priority[t]] = <<>>
    THEN rt_thread_ready_priority_group \ {current_priority[t]}
    ELSE rt_thread_ready_priority_group

\* The head of the ready list of the highest priority whose bit is set.  An
\* empty group, or a bit over an empty list, yields no thread: the code then
\* reads outside the table, or takes the list head for a thread.
HighestReady(table, group) ==
    IF group = {} THEN NoThread
    ELSE LET p == CHOOSE q \in group : \A r \in group : q <= r
         IN IF table[p] = <<>> THEN NoThread ELSE Head(table[p])

\* Mutant: only a thread that gives the hart up loses it.
ScheduledLazily(table, group) ==
    IF stat[rt_current_thread] = "READY" /\ rt_scheduler_lock_nest = 0
    THEN rt_current_thread ELSE HighestReady(table, group)

\* rt_schedule, run on the ready queue that table and group describe.
Scheduled(table, group) ==
    IF rt_scheduler_lock_nest = 0
    THEN HighestReady(table, group) ELSE rt_current_thread

Schedule == rt_current_thread' =
    Scheduled(rt_thread_priority_table', rt_thread_ready_priority_group')

\* Mutant: the timer goes on running.
TimerStoppedNot(t) == armed

\* rt_timer_stop, and what rt_timer_check does to an expired timer.
TimerStopped(t) == armed \ {t}

\* rt_list_remove alone: the group keeps its bits.
Unlink(t) ==
    /\ rt_thread_priority_table' = Unlinked(rt_thread_priority_table, t)
    /\ rt_thread_defunct' = RemoveFirst(rt_thread_defunct, t)
    /\ suspend_thread' = Unlinked(suspend_thread, t)

RemoveThread(t) ==
    /\ Unlink(t)
    /\ rt_thread_ready_priority_group' =
           GroupAfterRemove(rt_thread_priority_table', t)

\* Mutant: the bit is not set.
InsertThreadBitless(t) ==
    /\ stat' = [stat EXCEPT ![t] = "READY"]
    /\ rt_thread_priority_table' = Inserted(rt_thread_priority_table, t)
    /\ UNCHANGED rt_thread_ready_priority_group

InsertThread(t) ==
    /\ stat' = [stat EXCEPT ![t] = "READY"]
    /\ rt_thread_priority_table' = Inserted(rt_thread_priority_table, t)
    /\ rt_thread_ready_priority_group' =
           rt_thread_ready_priority_group \cup {current_priority[t]}

-----------------------------------------------------------------------------
Init ==
    /\ stat = [t \in Threads |-> IF t \in Range(StartQueue[InitPrio[t]])
                                THEN "READY" ELSE "NONE"]
    /\ current_priority = InitPrio
    /\ remaining_tick = [t \in Threads |-> InitTick]
    /\ error = [t \in Threads |-> "EOK"]
    /\ armed = {}
    /\ rt_thread_priority_table = StartQueue
    /\ rt_thread_ready_priority_group = {p \in Prios : StartQueue[p] # <<>>}
    /\ rt_thread_defunct = <<>>
    /\ suspend_thread = [l \in Lists |-> <<>>]
    /\ rt_current_thread = HighestReady(rt_thread_priority_table,
                                        rt_thread_ready_priority_group)
    /\ rt_scheduler_lock_nest = 0
    /\ isr = "none"
    /\ pc = [t \in Threads |-> <<>>]
    /\ api \in Apis

-----------------------------------------------------------------------------
(* Steps of a thread.  c is the running thread.                            *)

Running(c) == isr = "none" /\ rt_current_thread = c

\* c, in its own code, makes a call the application lets it make.
Call(c, call) == Running(c) /\ pc[c] = <<>> /\ call \in api[c]

At(c, label) == Running(c) /\ pc[c] # <<>> /\ Head(pc[c])[1] = label

Target(c) == Head(pc[c])[2]

Goto(c, steps) == pc' = [pc EXCEPT ![c] = steps]
Proceed(c, steps) == pc' = [pc EXCEPT ![c] = steps \o Tail(@)]
Return(c) == Proceed(c, <<>>)

Others(c) == Threads \ {c, Idle, Main}

\* rt_schedule called by a thread.
Sched(c) ==
    /\ At(c, "sched")
    /\ Return(c)
    /\ UNCHANGED <<tcb, lists, rt_scheduler_lock_nest, isr>>
    /\ Schedule

\* rt_thread_create and rt_thread_init, of an object that is not in use.
Create(c, t) ==
    /\ Call(c, "create") /\ stat[t] = "NONE"
    /\ stat' = [stat EXCEPT ![t] = "INIT"]
    /\ current_priority' = [current_priority EXCEPT ![t] = InitPrio[t]]
    /\ remaining_tick' = [remaining_tick EXCEPT ![t] = InitTick]
    /\ error' = [error EXCEPT ![t] = "EOK"]
    /\ pc' = [pc EXCEPT ![t] = <<>>]
    /\ UNCHANGED <<armed, lists, rt_current_thread, rt_scheduler_lock_nest, isr>>

\* Mutant: a thread that has ended may be started again.
StartableAgain(t) == stat[t] # "NONE"

\* The assertion of rt_thread_startup.
Startable(t) == stat[t] = "INIT"

\* rt_thread_startup up to the call of rt_thread_resume.
Startup(c, t) ==
    /\ Call(c, "startup") /\ Startable(t)
    /\ current_priority' = [current_priority EXCEPT ![t] = InitPrio[t]]
    /\ stat' = [stat EXCEPT ![t] = "SUSPEND"]
    /\ Goto(c, << <<"resume", t>>, <<"sched", c>> >>)
    /\ UNCHANGED <<remaining_tick, error, armed, lists, rt_current_thread,
                   rt_scheduler_lock_nest, isr>>

\* rt_thread_resume called by the application, and its own use of rt_schedule.
ResumeCall(c, t) ==
    /\ Call(c, "resume") /\ stat[t] # "NONE"
    /\ Goto(c, << <<"resume", t>> >>)
    /\ UNCHANGED <<tcb, lists, rt_current_thread, rt_scheduler_lock_nest, isr>>

ScheduleCall(c) ==
    /\ Call(c, "schedule")
    /\ Goto(c, << <<"sched", c>> >>)
    /\ UNCHANGED <<tcb, lists, rt_current_thread, rt_scheduler_lock_nest, isr>>

\* rt_thread_resume reads stat with interrupts open, ...
ResumeCheck(c) ==
    /\ At(c, "resume")
    /\ IF stat[Target(c)] = "SUSPEND"
       THEN Proceed(c, << <<"unlink", Target(c)>>, <<"insert", Target(c)>> >>)
       ELSE Return(c)
    /\ UNCHANGED <<tcb, lists, rt_current_thread, rt_scheduler_lock_nest, isr>>

\* ... unlinks the thread and stops its timer in one masked section, ...
ResumeUnlink(c) ==
    /\ At(c, "unlink")
    /\ Unlink(Target(c))
    /\ armed' = TimerStopped(Target(c))
    /\ Return(c)
    /\ UNCHANGED <<stat, current_priority, remaining_tick, error,
                   rt_thread_ready_priority_group, rt_current_thread,
                   rt_scheduler_lock_nest, isr>>

\* ... and inserts it in the ready queue in another.
ResumeInsert(c) ==
    /\ At(c, "insert")
    /\ InsertThread(Target(c))
    /\ Return(c)
    /\ UNCHANGED <<current_priority, remaining_tick, error, armed,
                   rt_thread_defunct, suspend_thread, rt_current_thread,
                   rt_scheduler_lock_nest, isr>>

\* rt_thread_suspend of any thread.  The caller must schedule when it has
\* suspended itself (the @note of the function).
SuspendCall(c, t) ==
    /\ Call(c, IF t = c THEN "park" ELSE "suspend") /\ stat[t] # "NONE"
    /\ Goto(c, << <<"suspend", t>> >>
               \o (IF t = c THEN << <<"sched", c>> >> ELSE <<>>))
    /\ UNCHANGED <<tcb, lists, rt_current_thread, rt_scheduler_lock_nest, isr>>

\* It, too, reads stat with interrupts open, ...
SuspendCheck(c) ==
    /\ At(c, "suspend")
    /\ IF stat[Target(c)] = "READY"
       THEN Proceed(c, << <<"remove", Target(c)>> >>)
       ELSE Return(c)
    /\ UNCHANGED <<tcb, lists, rt_current_thread, rt_scheduler_lock_nest, isr>>

\* ... and changes the state in a masked section.
SuspendRemove(c) ==
    /\ At(c, "remove")
    /\ stat' = [stat EXCEPT ![Target(c)] = "SUSPEND"]
    /\ RemoveThread(Target(c))
    /\ armed' = TimerStopped(Target(c))
    /\ Return(c)
    /\ UNCHANGED <<current_priority, remaining_tick, error, rt_current_thread,
                   rt_scheduler_lock_nest, isr>>

\* Mutants: the thread is not put back; it is not taken off first.
RotatedOut(t) == Unlinked(rt_thread_priority_table, t)
RotatedTwice(t) ==
    [rt_thread_priority_table EXCEPT ![current_priority[t]] = Append(@, t)]

\* rt_thread_yield moves a READY thread to the tail of its ready list when it
\* is not alone there.
Rotates(t) ==
    /\ stat[t] = "READY"
    /\ Len(rt_thread_priority_table[current_priority[t]]) > 1

Rotated(t) ==
    [Unlinked(rt_thread_priority_table, t) EXCEPT
        ![current_priority[t]] = Append(@, t)]

Yield(c) ==
    /\ Call(c, "yield") /\ Rotates(c)
    /\ rt_thread_priority_table' = Rotated(c)
    /\ Goto(c, << <<"sched", c>> >>)
    /\ UNCHANGED <<tcb, rt_thread_ready_priority_group, rt_thread_defunct,
                   suspend_thread, rt_current_thread, rt_scheduler_lock_nest, isr>>

\* rt_thread_sleep: suspends the thread (unless it is not READY: it has slept
\* with the scheduler locked) and starts its timer in one masked section.
Sleep(c) ==
    /\ Call(c, "sleep")
    /\ IF stat[c] = "READY"
       THEN stat' = [stat EXCEPT ![c] = "SUSPEND"] /\ RemoveThread(c)
       ELSE UNCHANGED <<stat, lists>>
    /\ armed' = armed \cup {c}
    /\ Goto(c, << <<"sched", c>>, <<"awake", c>> >>)
    /\ UNCHANGED <<current_priority, remaining_tick, error, rt_current_thread,
                   rt_scheduler_lock_nest, isr>>

SleepReturn(c) ==
    /\ At(c, "awake")
    /\ error' = [error EXCEPT ![c] = IF @ = "ETIMEOUT" THEN "EOK" ELSE @]
    /\ Return(c)
    /\ UNCHANGED <<stat, current_priority, remaining_tick, armed, lists,
                   rt_current_thread, rt_scheduler_lock_nest, isr>>

\* rt_thread_exit, run when the entry function of a thread returns.
Exit(c) ==
    /\ Call(c, "exit")
    /\ stat' = [stat EXCEPT ![c] = "CLOSE"]
    /\ armed' = TimerStopped(c)
    /\ rt_thread_priority_table' = Unlinked(rt_thread_priority_table, c)
    /\ rt_thread_ready_priority_group' =
           GroupAfterRemove(rt_thread_priority_table', c)
    /\ rt_thread_defunct' =
           IF c \in Static THEN rt_thread_defunct ELSE <<c>> \o rt_thread_defunct
    /\ Goto(c, << <<"sched", c>> >>)
    /\ UNCHANGED <<current_priority, remaining_tick, error, suspend_thread,
                   rt_current_thread, rt_scheduler_lock_nest, isr>>

\* rt_thread_delete and, of a static thread, rt_thread_detach: the masked
\* sections of rt_schedule_remove_thread, rt_timer_detach and the insertion in
\* the defunct list, with the unmasked write of stat before the last.
Delete(c, t) ==
    /\ Call(c, "delete") /\ stat[t] \in {"INIT", "READY", "SUSPEND"}
    /\ Goto(c, (IF stat[t] = "INIT" THEN <<>> ELSE << <<"dremove", t>> >>)
               \o << <<"dtimer", t>>, <<"dclose", t>> >>
               \o (IF t \in Static THEN <<>> ELSE << <<"ddefunct", t>> >>))
    /\ UNCHANGED <<tcb, lists, rt_current_thread, rt_scheduler_lock_nest, isr>>

\* Mutant: the thread stays on its list.
DeleteRemoveNot(c) ==
    /\ At(c, "dremove")
    /\ Return(c)
    /\ UNCHANGED <<tcb, lists, rt_current_thread, rt_scheduler_lock_nest, isr>>

DeleteRemove(c) ==
    /\ At(c, "dremove")
    /\ RemoveThread(Target(c))
    /\ Return(c)
    /\ UNCHANGED <<tcb, rt_current_thread, rt_scheduler_lock_nest, isr>>

DeleteTimer(c) ==
    /\ At(c, "dtimer")
    /\ armed' = TimerStopped(Target(c))
    /\ Return(c)
    /\ UNCHANGED <<stat, current_priority, remaining_tick, error, lists,
                   rt_current_thread, rt_scheduler_lock_nest, isr>>

DeleteClose(c) ==
    /\ At(c, "dclose")
    /\ stat' = [stat EXCEPT ![Target(c)] = "CLOSE"]
    /\ Return(c)
    /\ UNCHANGED <<current_priority, remaining_tick, error, armed, lists,
                   rt_current_thread, rt_scheduler_lock_nest, isr>>

DeleteDefunct(c) ==
    /\ At(c, "ddefunct")
    /\ rt_thread_defunct' = <<Target(c)>> \o rt_thread_defunct
    /\ Return(c)
    /\ UNCHANGED <<tcb, queues, suspend_thread, rt_current_thread,
                   rt_scheduler_lock_nest, isr>>

\* rt_thread_control with RT_THREAD_CTRL_CHANGE_PRIORITY: one masked section,
\* and no rt_schedule.
ChangePriority(c, t, p) ==
    /\ Call(c, "priority") /\ stat[t] \in {"INIT", "READY", "SUSPEND"}
    /\ current_priority' = [current_priority EXCEPT ![t] = p]
    /\ IF stat[t] = "READY"
       THEN LET rest == Unlinked(rt_thread_priority_table, t)
            IN /\ rt_thread_priority_table' =
                      [rest EXCEPT ![p] = Append(@, t)]
               /\ rt_thread_ready_priority_group' =
                      GroupAfterRemove(rest, t) \cup {p}
       ELSE UNCHANGED queues
    /\ UNCHANGED <<stat, remaining_tick, error, armed, rt_thread_defunct,
                   suspend_thread, rt_current_thread, rt_scheduler_lock_nest,
                   isr, pc>>

\* rt_enter_critical and rt_exit_critical.
EnterCritical(c) ==
    /\ Call(c, "lock") /\ rt_scheduler_lock_nest < MaxNest
    /\ rt_scheduler_lock_nest' = rt_scheduler_lock_nest + 1
    /\ UNCHANGED <<tcb, lists, rt_current_thread, isr, pc>>

ExitCritical(c) ==
    /\ Call(c, "lock") /\ rt_scheduler_lock_nest > 0
    /\ rt_scheduler_lock_nest' = rt_scheduler_lock_nest - 1
    /\ IF rt_scheduler_lock_nest = 1
       THEN Goto(c, << <<"sched", c>> >>) ELSE UNCHANGED pc
    /\ UNCHANGED <<tcb, lists, rt_current_thread, isr>>

-----------------------------------------------------------------------------
(* The idle thread.                                                        *)

\* One turn of the loop of rt_thread_idle_excute up to rt_exit_critical, whose
\* rt_schedule runs before interrupts are unmasked.  The emptiness test before
\* the section decides nothing, it is made again inside.
Reap ==
    /\ Running(Idle) /\ pc[Idle] = <<>>
    /\ rt_thread_defunct # <<>>
    /\ LET t == Head(rt_thread_defunct)
       IN /\ rt_thread_defunct' = Tail(rt_thread_defunct)
          /\ Goto(Idle, << <<"free", t>> >>)
    /\ UNCHANGED <<queues, suspend_thread>>
    /\ Schedule
    /\ UNCHANGED <<tcb, rt_scheduler_lock_nest, isr>>

\* The stack and the thread object go back to the heap.
Free ==
    /\ At(Idle, "free")
    /\ stat' = [stat EXCEPT ![Target(Idle)] = "NONE"]
    /\ Return(Idle)
    /\ UNCHANGED <<current_priority, remaining_tick, error, armed, lists,
                   rt_current_thread, rt_scheduler_lock_nest, isr>>

-----------------------------------------------------------------------------
(* The tick interrupt.  It runs with interrupts masked: no thread moves     *)
(* between TickEnter and TickExit.                                          *)

\* Mutant: the slice is not renewed.
SliceAfterTickRunsOut(n) == n - 1

\* rt_tick_increase: a slice that is used up is renewed.
SliceAfterTick(n) == IF n = 1 THEN InitTick ELSE n - 1

\* rt_interrupt_enter and rt_tick_increase up to rt_timer_check.
TickEnter ==
    /\ isr = "none" /\ rt_current_thread # NoThread
    /\ isr' = "tick"
    /\ LET t == rt_current_thread IN
       /\ remaining_tick' = [remaining_tick EXCEPT
              ![t] = SliceAfterTick(@)]
       /\ IF remaining_tick[t] = 1 /\ Rotates(t)
          THEN /\ rt_thread_priority_table' = Rotated(t)
               /\ UNCHANGED rt_thread_ready_priority_group
               /\ Schedule
          ELSE UNCHANGED <<queues, rt_current_thread>>
    /\ UNCHANGED <<stat, current_priority, error, armed, rt_thread_defunct,
                   suspend_thread, rt_scheduler_lock_nest, pc>>

\* rt_timer_check takes an expired thread timer off the timer list and runs
\* rt_thread_timeout for its thread.
ThreadTimeout(t) ==
    /\ isr = "tick" /\ t \in armed
    /\ armed' = TimerStopped(t)
    /\ error' = [error EXCEPT ![t] = "ETIMEOUT"]
    /\ stat' = [stat EXCEPT ![t] = "READY"]
    /\ LET rest == Unlinked(rt_thread_priority_table, t)
       IN rt_thread_priority_table' = Inserted(rest, t)
    /\ rt_thread_ready_priority_group' =
           rt_thread_ready_priority_group \cup {current_priority[t]}
    /\ rt_thread_defunct' = RemoveFirst(rt_thread_defunct, t)
    /\ suspend_thread' = Unlinked(suspend_thread, t)
    /\ Schedule
    /\ UNCHANGED <<current_priority, remaining_tick, rt_scheduler_lock_nest, isr,
                   pc>>

\* rt_timer_check finds no more expired timer; rt_interrupt_leave, and the
\* return into the thread that rt_current_thread names (module ContextSwitch).
TickExit ==
    /\ isr = "tick"
    /\ isr' = "none"
    /\ UNCHANGED <<tcb, lists, rt_current_thread, rt_scheduler_lock_nest, pc>>

-----------------------------------------------------------------------------
\* What the running thread does next of the calls it is in.
ThreadStep(c) ==
    \/ Sched(c) \/ ResumeCheck(c) \/ ResumeUnlink(c) \/ ResumeInsert(c)
    \/ SuspendCheck(c) \/ SuspendRemove(c) \/ SleepReturn(c)
    \/ DeleteRemove(c) \/ DeleteTimer(c) \/ DeleteClose(c) \/ DeleteDefunct(c)

IdleStep == Reap \/ Free

\* The calls a thread may make.
ThreadCall(c) ==
    \/ Yield(c) \/ Sleep(c) \/ Exit(c) \/ ScheduleCall(c)
    \/ EnterCritical(c) \/ ExitCritical(c)
    \/ \E t \in Others(c) :
          \/ Create(c, t) \/ Startup(c, t) \/ Delete(c, t) \/ ResumeCall(c, t)
          \/ \E p \in Prios : ChangePriority(c, t, p)
    \/ \E t \in Others(c) \cup {c} : SuspendCall(c, t)

TickStep == TickEnter \/ (\E t \in Threads : ThreadTimeout(t)) \/ TickExit

Next ==
    /\ \/ \E c \in Threads : ThreadStep(c) \/ ThreadCall(c)
       \/ IdleStep
       \/ TickStep
    /\ UNCHANGED api

Spec == Init /\ [][Next]_<<kvars, api>>

-----------------------------------------------------------------------------
(* Properties.                                                             *)

DataTypeOK ==
    /\ stat \in [Threads -> Stats]
    /\ current_priority \in [Threads -> Prios]
    /\ remaining_tick \in [Threads -> 1..InitTick]
    /\ error \in [Threads -> Errors]
    /\ armed \subseteq Threads
    /\ rt_thread_priority_table \in [Prios -> Seq(Threads)]
    /\ rt_thread_ready_priority_group \subseteq Prios
    /\ rt_thread_defunct \in Seq(Threads)
    /\ suspend_thread \in [Lists -> Seq(Threads)]
    /\ rt_current_thread \in Threads \cup {NoThread}
    /\ rt_scheduler_lock_nest \in 0..MaxNest
    /\ isr \in {"none", "tick"}

TypeOK == DataTypeOK /\ pc \in [Threads -> Seq(Labels \X Threads)]

\* The kernel's lists by name, and the nodes of them that are t's.
ListNames == ({"ready"} \X Prios) \cup ({"wait"} \X Lists) \cup {<<"defunct", 0>>}

ListNamed(k) == CASE k[1] = "ready"   -> rt_thread_priority_table[k[2]]
                  [] k[1] = "wait"    -> suspend_thread[k[2]]
                  [] k[1] = "defunct" -> rt_thread_defunct

Links(t) == UNION {{<<k, i>> : i \in {j \in DOMAIN ListNamed(k) :
                                        ListNamed(k)[j] = t}} : k \in ListNames}

Listed(t) == Links(t) # {}
Queued(t) == t \in Range(rt_thread_priority_table[current_priority[t]])

\* t has a step of the given kinds still to make in some call.
Pending(labels, t) ==
    \E c \in Threads : \E i \in DOMAIN pc[c] :
        pc[c][i][1] \in labels /\ pc[c][i][2] = t

\* A thread has one list node: whatever calls and timeouts interleave it is on
\* at most one of the ready lists, the suspend lists and the defunct list, once
\* (linking it again would cut the list it is on).
ListedOnce == \A t \in Threads : Cardinality(Links(t)) <= 1

\* A thread on a ready list is READY and on the list of its priority: an exited,
\* deleted or sleeping thread is never scheduled.
QueuedIsReady ==
    \A p \in Prios : \A t \in Range(rt_thread_priority_table[p]) :
        stat[t] = "READY" /\ current_priority[t] = p

\* A READY thread is in the ready queue, unless it is being deleted: no
\* interleaving loses a thread, which would then never run again.
ReadyIsQueued ==
    \A t \in Threads : stat[t] = "READY" =>
        Queued(t) \/ Pending({"dclose"}, t)

\* The bit of a non-empty ready list is set, whatever calls and timeouts
\* interleave: rt_schedule overlooks no thread of the ready queue.
ListsHaveBits ==
    \A p \in Prios : rt_thread_priority_table[p] # <<>>
                        => p \in rt_thread_ready_priority_group

\* A set bit stands for a non-empty ready list: rt_schedule does not take a
\* list head for a thread.
BitsHaveLists ==
    \A p \in rt_thread_ready_priority_group : rt_thread_priority_table[p] # <<>>

\* The ready queue is what the states of the threads and the group say it is.
ReadyQueueIsExact == QueuedIsReady /\ ReadyIsQueued /\ BitsHaveLists

\* The calls that make a thread ready, or change its place in the ready queue,
\* and leave it to the caller to call rt_schedule.
Unscheduled == {"resume", "priority", "deleteipc", "timedlock"}

\* While the scheduler is not locked a thread in its own code is the one
\* rt_schedule would choose: no wake-up waits for the next tick (in an
\* application without the calls that do not schedule).
HighestRuns ==
    /\ isr = "none" /\ rt_scheduler_lock_nest = 0 /\ pc[rt_current_thread] = <<>>
    /\ \A t \in Threads : api[t] \cap Unscheduled = {}
    => rt_current_thread = HighestReady(rt_thread_priority_table,
                                        rt_thread_ready_priority_group)

\* A running thread timer belongs to a suspended thread (the assertion of
\* rt_thread_timeout, thread.c).
TimedIsSuspended == \A t \in armed : stat[t] = "SUSPEND"

\* A closed thread runs no more than the end of rt_thread_exit, and a freed one
\* is on no list, has no timer and is not running: its storage may be reused.
FreedIsUnreferenced ==
    /\ \A t \in Threads : stat[t] = "NONE" =>
           ~Listed(t) /\ t \notin armed /\ t # rt_current_thread
    /\ stat[rt_current_thread] = "CLOSE" => pc[rt_current_thread] # <<>>

\* A closed thread never comes back to life: only the idle thread touches it.
ClosedStaysClosed ==
    [][\A t \in Threads : stat[t] = "CLOSE" => stat'[t] \in {"CLOSE", "NONE"}]_kvars

\* rt_thread_delete removes the thread from the thread queue (its comment): a
\* closed thread is not in a ready list.
ClosedIsUnqueued ==
    \A p \in Prios : \A t \in Range(rt_thread_priority_table[p]) : stat[t] # "CLOSE"

=============================================================================
