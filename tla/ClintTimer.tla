----------------------------- MODULE ClintTimer -----------------------------
(***************************************************************************)
(* The tick of libcpu/interrupt.c: the 64-bit timer of the CLINT, which a  *)
(* 32-bit hart reads and writes in halves while it runs on.                *)
(* rt_hw_interrupt_init sets the first comparison, rt_hw_timer_isr the     *)
(* following ones; both do it in the same five accesses.                   *)
(***************************************************************************)
EXTENDS Integers

CONSTANTS
    Word,          \* 2^32
    TICK_CYCLES,
    StartTimes,    \* mtime when the hart comes to rt_hw_interrupt_init
    MaxTime,       \* bound on mtime
    Untorn         \* TRUE: mtime_lo does not roll over between the two reads

ClintAssumption ==
    /\ Word \in Nat \ {0} /\ TICK_CYCLES \in 1..Word-1
    /\ StartTimes \subseteq Nat /\ MaxTime \in Nat
    /\ Untorn \in BOOLEAN

VARIABLES
    mtime,
    cmp_lo, cmp_hi,    \* mtimecmp
    lo, hi,            \* the variables of the code
    pc,                \* the next access, or "run" between two interrupts
    start,             \* history: mtime at the first read
    ticks              \* calls of rt_tick_increase

vars == <<mtime, cmp_lo, cmp_hi, lo, hi, pc, start, ticks>>

mtimecmp == cmp_hi * Word + cmp_lo

\* The comparison register and the locals hold anything at first.
Init ==
    /\ mtime \in StartTimes
    /\ cmp_lo \in {0, Word - 1} /\ cmp_hi \in {0, Word - 1}
    /\ lo = 0 /\ hi = 0
    /\ pc = "lo"
    /\ start = mtime /\ ticks = 0

\* The hardware counts.
Advance ==
    /\ mtime < MaxTime
    /\ Untorn /\ pc = "hi" => (mtime + 1) % Word # 0
    /\ mtime' = mtime + 1
    /\ start' = IF ticks = 0 /\ pc = "lo" THEN mtime' ELSE start
    /\ UNCHANGED <<cmp_lo, cmp_hi, lo, hi, pc, ticks>>

ReadLo ==
    /\ pc = "lo" /\ pc' = "hi"
    /\ lo' = mtime % Word
    /\ UNCHANGED <<mtime, cmp_lo, cmp_hi, hi, start, ticks>>

next_lo == (lo + TICK_CYCLES) % Word

\* Mutant: the carry is lost.
CarryLost(h) == h

\* The low word overflowed: hi++.
Carry(h) == IF next_lo < lo THEN (h + 1) % Word ELSE h

ReadHi ==
    /\ pc = "hi" /\ pc' = "ones"
    /\ hi' = Carry(mtime \div Word)
    /\ UNCHANGED <<mtime, cmp_lo, cmp_hi, lo, start, ticks>>

WriteOnes ==
    /\ pc = "ones" /\ pc' = "writehi"
    /\ cmp_lo' = Word - 1
    /\ UNCHANGED <<mtime, cmp_hi, lo, hi, start, ticks>>

WriteHi ==
    /\ pc = "writehi" /\ pc' = "writelo"
    /\ cmp_hi' = hi
    /\ UNCHANGED <<mtime, cmp_lo, lo, hi, start, ticks>>

WriteLo ==
    /\ pc = "writelo" /\ pc' = "run"
    /\ cmp_lo' = next_lo
    /\ UNCHANGED <<mtime, cmp_hi, lo, hi, start, ticks>>

\* The interrupt is taken, at once or when interrupts are unmasked.
\* rt_tick_increase at the end of the handler is counted here.
TimerIsr ==
    /\ pc = "run" /\ mtime >= mtimecmp
    /\ pc' = "lo"
    /\ ticks' = ticks + 1
    /\ UNCHANGED <<mtime, cmp_lo, cmp_hi, lo, hi, start>>

Next == \/ Advance \/ ReadLo \/ ReadHi \/ WriteOnes \/ WriteHi \/ WriteLo
        \/ TimerIsr

Spec == Init /\ [][Next]_vars

-----------------------------------------------------------------------------
(* Properties.                                                             *)

\* The tick never runs ahead of the time: no comparison value that is half old
\* and half new, and no lost carry, makes an interrupt come early.
NeverAhead == start + ticks * TICK_CYCLES <= mtime

\* The next interrupt is never more than TICK_CYCLES away ("the increment of
\* mtime for each tick", the comment of TICK_CYCLES).
NextTickIsNear == pc = "run" => mtimecmp <= mtime + TICK_CYCLES
=============================================================================
