------------------------------ MODULE MCTimer ------------------------------
(* An instance of Timer for TLC: timer a, which the thread c uses and which *)
(* its timeout function starts again.                                       *)
EXTENDS Timer

CONSTANTS c, a

Owner == [x \in Callers |-> {a}]

\* a starts itself.
Itself == [t \in Timers |-> {t}]
=============================================================================
