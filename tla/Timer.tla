-------------------------------- MODULE Timer --------------------------------
(***************************************************************************)
(* The timers of src/src/timer.c: one list in the order of the timeouts,   *)
(* with RT_TIMER_SKIP_LIST_LEVEL 1, ticks that wrap, and threads that      *)
(* start, stop and set timers between the ticks that check them.           *)
(*                                                                         *)
(* rt_timer_start and rt_timer_stop are two masked sections or one, with   *)
(* accesses to the timer between them; a tick interrupt, and every         *)
(* function rt_timer_check calls, run masked.  left is a history variable. *)
(***************************************************************************)
EXTENDS Integers, Sequences, SequencesExt

CONSTANTS
    Timers,
    Callers,     \* threads that use timers
    Uses,        \* [Callers -> SUBSET Timers]
    Restarts,    \* [Timers -> the timers its timeout function may start]
    Periodic,    \* timers initialized with RT_TIMER_FLAG_PERIODIC
    Times,       \* the times timers are set to, 0 as well (see Endless)
    TickMod,     \* RT_TICK_MAX + 1
    MaxLate      \* bound on the ticks a preempted start is late

Half == (TickMod - 1) \div 2    \* RT_TICK_MAX / 2

TimerAssumption ==
    /\ TickMod \in Nat \ {0} /\ MaxLate \in Nat
    /\ Times \subseteq 0..Half-1    \* the assertion of rt_timer_start
    /\ Times # {}
    /\ \A n \in Times : n + MaxLate < Half
    /\ Uses \in [Callers -> SUBSET Timers]
    /\ Restarts \in [Timers -> SUBSET Timers]
    /\ Periodic \subseteq Timers

VARIABLES
    rt_tick,
    rt_timer_list,
    live,                        \* timers that exist
    timeout_tick, init_tick,     \* of each timer
    activated, periodic,         \* timers with the flag
    pc,                          \* [Callers -> <<step, timer>>]
    isr,                         \* <<step, timer>> of the tick interrupt
    left                         \* ticks until a started timer must be called

vars == <<rt_tick, rt_timer_list, live, timeout_tick, init_tick, activated,
          periodic, pc, isr, left>>

\* No timer is meant.
Nothing == <<>>

Init ==
    /\ rt_tick = 0
    /\ rt_timer_list = <<>>
    /\ live = Timers
    /\ timeout_tick = [t \in Timers |-> 0]
    /\ init_tick \in [Timers -> Times]
    /\ activated = {} /\ periodic = Periodic
    /\ pc = [c \in Callers |-> Nothing]
    /\ isr = Nothing
    /\ left = [t \in Timers |-> 0]

-----------------------------------------------------------------------------
\* Unsigned subtraction of ticks.
Minus(m, n) == (m - n) % TickMod

\* Mutant: a timer goes to the head of the list.
InsertedFirst(list, t, stamp) == <<t>> \o list

\* The insertion of rt_timer_start: before the first timer with a later timeout.
Inserted(list, t, stamp) ==
    LET later == {i \in DOMAIN list :
                    Minus(stamp[list[i]], stamp[t]) \in 1..Half-1}
    IN IF later = {} THEN Append(list, t)
       ELSE InsertAt(list, CHOOSE i \in later : \A j \in later : i <= j, t)


Stamp(t) == (rt_tick + init_tick[t]) % TickMod

\* rt_timer_start in a masked section.
StartMasked(t) ==
    /\ timeout_tick' = [timeout_tick EXCEPT ![t] = Stamp(t)]
    /\ rt_timer_list' = Inserted(RemoveFirst(rt_timer_list, t), t, timeout_tick')
    /\ activated' = activated \cup {t}
    /\ left' = [left EXCEPT ![t] = init_tick[t]]

\* _rt_timer_remove.
TimerRemove(t) ==
    /\ rt_timer_list' = RemoveFirst(rt_timer_list, t)
    /\ left' = [left EXCEPT ![t] = 0]

-----------------------------------------------------------------------------
(* The steps of the threads.                                               *)

Idle(c) == isr = Nothing /\ pc[c] = Nothing
At(c, step, t) == isr = Nothing /\ pc[c] = <<step, t>>
Goto(c, where) == pc' = [pc EXCEPT ![c] = where]

\* rt_timer_start: the timer is taken off the list, ...
Start(c, t) ==
    /\ Idle(c) /\ t \in Uses[c] \cap live
    /\ TimerRemove(t)
    /\ activated' = activated \ {t}
    /\ Goto(c, <<"stamp", t>>)
    /\ UNCHANGED <<live, rt_tick, timeout_tick, init_tick, periodic, isr>>

\* ... its timeout is computed with interrupts open ...
StartStamp(c, t) ==
    /\ At(c, "stamp", t)
    /\ timeout_tick' = [timeout_tick EXCEPT ![t] = Stamp(t)]
    /\ left' = [left EXCEPT ![t] = init_tick[t]]
    /\ Goto(c, <<"insert", t>>)
    /\ UNCHANGED <<live, rt_tick, rt_timer_list, init_tick, activated, periodic, isr>>

\* ... and it is inserted, perhaps after its timeout: it is due at the next tick.
StartInsert(c, t) ==
    /\ At(c, "insert", t)
    /\ rt_timer_list' = Inserted(rt_timer_list, t, timeout_tick)
    /\ activated' = activated \cup {t}
    /\ left' = [left EXCEPT ![t] = IF @ > 0 THEN @ ELSE 1]
    /\ Goto(c, Nothing)
    /\ UNCHANGED <<live, rt_tick, timeout_tick, init_tick, periodic, isr>>

\* rt_timer_stop tests the flag with interrupts open, ...
Stop(c, t) ==
    /\ Idle(c) /\ t \in Uses[c] \cap live /\ t \in activated
    /\ Goto(c, <<"remove", t>>)
    /\ UNCHANGED <<live, rt_tick, rt_timer_list, timeout_tick, init_tick, activated,
                   periodic, isr, left>>

\* ... removes the timer ...
StopRemove(c, t) ==
    /\ At(c, "remove", t)
    /\ TimerRemove(t)
    /\ Goto(c, <<"clear", t>>)
    /\ UNCHANGED <<live, rt_tick, timeout_tick, init_tick, activated, periodic, isr>>

\* ... and clears the flag, with interrupts open again.
StopClear(c, t) ==
    /\ At(c, "clear", t)
    /\ activated' = activated \ {t}
    /\ Goto(c, Nothing)
    /\ UNCHANGED <<live, rt_tick, rt_timer_list, timeout_tick, init_tick, periodic,
                   isr, left>>

\* rt_timer_control.
SetTime(c, t, n) ==
    /\ Idle(c) /\ t \in Uses[c] \cap live
    /\ init_tick' = [init_tick EXCEPT ![t] = n]
    /\ UNCHANGED <<live, rt_tick, rt_timer_list, timeout_tick, activated, periodic,
                   pc, isr, left>>

SetPeriodic(c, t, on) ==
    /\ Idle(c) /\ t \in Uses[c] \cap live
    /\ periodic' = IF on THEN periodic \cup {t} ELSE periodic \ {t}
    /\ UNCHANGED <<live, rt_tick, rt_timer_list, timeout_tick, init_tick, activated,
                   pc, isr, left>>

\* _rt_timer_init.
TimerInit(t, n, on) ==
    /\ timeout_tick' = [timeout_tick EXCEPT ![t] = 0]
    /\ init_tick' = [init_tick EXCEPT ![t] = n]
    /\ activated' = activated \ {t}
    /\ periodic' = IF on THEN periodic \cup {t} ELSE periodic \ {t}

\* rt_timer_create (and rt_timer_init).
Create(c, t, n, on) ==
    /\ Idle(c) /\ t \in Uses[c] \ live
    /\ live' = live \cup {t}
    /\ TimerInit(t, n, on)
    /\ UNCHANGED <<rt_tick, rt_timer_list, pc, isr, left>>

\* Mutant: a timer is deleted where it is.
DeleteNot(c, t) ==
    /\ Idle(c) /\ t \in Uses[c] \cap live
    /\ Goto(c, <<"delete", t>>)
    /\ UNCHANGED <<live, rt_tick, rt_timer_list, left, timeout_tick, init_tick,
                   activated, periodic, isr>>

\* rt_timer_delete (and rt_timer_detach) removes the timer ...
Delete(c, t) ==
    /\ Idle(c) /\ t \in Uses[c] \cap live
    /\ TimerRemove(t)
    /\ Goto(c, <<"delete", t>>)
    /\ UNCHANGED <<live, rt_tick, timeout_tick, init_tick, activated, periodic, isr>>

\* ... and, with interrupts open again, the object; the flag is as it was.
DeleteObject(c, t) ==
    /\ At(c, "delete", t)
    /\ live' = live \ {t}
    /\ Goto(c, Nothing)
    /\ UNCHANGED <<rt_tick, rt_timer_list, timeout_tick, init_tick, activated,
                   periodic, isr, left>>

-----------------------------------------------------------------------------
(* The tick interrupt.                                                     *)

\* Timers whose timeout is set and that are not in the list yet.
Stamped == {t \in Timers : \E c \in Callers : pc[c] = <<"insert", t>>}

\* rt_tick_increase, up to rt_timer_check.
Tick ==
    /\ isr = Nothing
    /\ \A t \in Stamped : left[t] > -MaxLate
    /\ rt_tick' = (rt_tick + 1) % TickMod
    /\ left' = [t \in Timers |-> 
                 IF t \in Stamped \cup Range(rt_timer_list)
                 THEN left[t] - 1 ELSE left[t]]
    /\ isr' = <<"check">>
    /\ UNCHANGED <<live, rt_timer_list, timeout_tick, init_tick, activated, periodic, pc>>

\* Mutant: a timer is due one tick after its timeout.
DueLate(t) == Minus(rt_tick, timeout_tick[t]) \in 1..Half-1

\* The timeout of t has come.
Due(t) == Minus(rt_tick, timeout_tick[t]) < Half

\* rt_timer_check takes the first timer off the list and calls its function, ...
Expire(t) ==
    /\ isr = <<"check">> /\ rt_timer_list # <<>>
    /\ t = Head(rt_timer_list) /\ Due(t)
    /\ TimerRemove(t)
    /\ isr' = <<"called", t>>
    /\ UNCHANGED <<live, rt_tick, timeout_tick, init_tick, activated, periodic, pc>>

\* ... which may start timers, ...
Callback(t, u) ==
    /\ isr = <<"called", t>> /\ u \in Restarts[t] \cap live
    /\ StartMasked(u)
    /\ isr' = <<"returned", t>>
    /\ UNCHANGED <<live, rt_tick, init_tick, periodic, pc>>

\* ... and starts a periodic timer again.
Restart(t) ==
    /\ isr \in {<<"called", t>>, <<"returned", t>>}
    /\ IF t \in periodic /\ t \in activated
       THEN StartMasked(t)
       ELSE /\ activated' = activated \ {t}
            /\ UNCHANGED <<rt_timer_list, timeout_tick, left>>
    /\ isr' = <<"check">>
    /\ UNCHANGED <<live, rt_tick, init_tick, periodic, pc>>

CheckDone ==
    /\ isr = <<"check">>
    /\ rt_timer_list # <<>> => ~Due(Head(rt_timer_list))
    /\ isr' = Nothing
    /\ UNCHANGED <<live, rt_tick, rt_timer_list, timeout_tick, init_tick, activated,
                   periodic, pc, left>>

-----------------------------------------------------------------------------
Check == \/ CheckDone
         \/ \E t \in Timers : \/ Expire(t) \/ Restart(t)
                              \/ \E u \in Timers : Callback(t, u)

CallerStep(c) == \E t \in Timers :
    \/ Start(c, t) \/ StartStamp(c, t) \/ StartInsert(c, t)
    \/ Stop(c, t) \/ StopRemove(c, t) \/ StopClear(c, t)
    \/ Delete(c, t) \/ DeleteObject(c, t)
    \/ \E n \in Times : SetTime(c, t, n)
    \/ \E on \in BOOLEAN : SetPeriodic(c, t, on)
    \/ \E n \in Times, on \in BOOLEAN : Create(c, t, n, on)

Next == Tick \/ Check \/ \E c \in Callers : CallerStep(c)

\* The interrupt handler runs on.
Spec == Init /\ [][Next]_vars /\ WF_vars(Check)

-----------------------------------------------------------------------------
(* Properties.                                                             *)

\* The list is in the order in which the timers are due, also across the wrap of
\* the tick and after starts that were preempted.
InOrderOfTimeout == \A i, j \in DOMAIN rt_timer_list :
    i < j => left[rt_timer_list[i]] <= left[rt_timer_list[j]]

\* rt_timer_check calls a timer in the tick it is due in, not before and not
\* later: what is left in the list when it ends is not due.
OnTime ==
    [][/\ \A t \in Timers : Expire(t) => left[t] = 0
       /\ CheckDone => \A t \in Range(rt_timer_list) : left[t] > 0]_vars

\* When nobody is at work on a timer its flag tells whether it is in the list,
\* once: rt_timer_stop stops it, a periodic timer goes on, and a timer that is
\* deleted is in no list, where rt_timer_check would call what was freed.
ListIsExact ==
    /\ IsInjective(rt_timer_list)
    /\ Range(rt_timer_list) \subseteq live
    /\ \A t \in live :
        isr = Nothing /\ (\A c \in Callers : pc[c] = Nothing \/ pc[c][2] # t)
        => (t \in activated <=> t \in Range(rt_timer_list))

\* A periodic timer of 0 ticks, which rt_timer_start and rt_timer_control allow: it
\* is due as soon as rt_timer_check starts it again, masked, in the same loop.
Endless == {t \in periodic : init_tick[t] = 0}


\* A timer without the flag ACTIVATED "is deactive" (rtdef.h): it is not in the
\* list when nobody is at work on it.
DeactivatedIsUnlisted ==
    \A t \in live :
        isr = Nothing /\ (\A c \in Callers : pc[c] = Nothing \/ pc[c][2] # t)
        => t \in activated \/ t \notin Range(rt_timer_list)

=============================================================================
