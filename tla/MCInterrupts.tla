---------------------------- MODULE MCInterrupts ----------------------------
(* An instance of Interrupts for TLC: one driver for each source; a timer   *)
(* that the thread user uses, and a second one that only the function of    *)
(* the first starts (a watchdog of something periodic).                     *)
EXTENDS Interrupts

CONSTANTS user, first, second

Own == [d \in Drivers |-> d]

Owner == [x \in Callers |-> {first}]

Chain == [t \in Timers |-> IF t = first THEN {second} ELSE {}]
=============================================================================
