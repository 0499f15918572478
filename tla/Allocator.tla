----------------------------- MODULE Allocator -----------------------------
(* What a memory allocator promises: the areas it has given out are inside  *)
(* its memory and no two of them overlap.                                   *)
EXTENDS Integers

CONSTANTS Memory, Sizes   \* the addresses, and the sizes an area may have

VARIABLE given            \* the size of each area, by its first address

Fits(a, n, held) ==
    /\ a \in Memory /\ a + n - 1 \in Memory /\ n \in Sizes
    /\ \A b \in DOMAIN held \ {a} : a + n <= b \/ b + held[b] <= a

Init == given = [a \in {} |-> 0]

Give(a, n) ==
    /\ a \notin DOMAIN given /\ Fits(a, n, given)
    /\ given' = [b \in DOMAIN given \cup {a} |-> IF b = a THEN n ELSE given[b]]

TakeBack(a) ==
    /\ a \in DOMAIN given
    /\ given' = [b \in DOMAIN given \ {a} |-> given[b]]

Resize(a, n) ==
    /\ a \in DOMAIN given /\ Fits(a, n, given)
    /\ given' = [given EXCEPT ![a] = n]

Next ==
    \/ \E a \in DOMAIN given : TakeBack(a)
    \/ \E a \in DOMAIN given' : Give(a, given'[a]) \/ Resize(a, given'[a])

Spec == Init /\ [][Next]_given
=============================================================================
