---------------------------- MODULE Timer_proofs ----------------------------
(***************************************************************************)
(* The list of timers for any timers, threads, times and length of the     *)
(* tick.                                                                   *)
(*                                                                         *)
(* LInv is about who is at work on what: a timer that a thread has taken   *)
(* off the list, or whose function runs, is not in it, and of the others   *)
(* the flag tells.  OInv is about order: the distance of a timeout from    *)
(* now, offs, falls by one in every tick, wherever the tick wraps; the     *)
(* list is sorted by it, and left is the distance, or what is left until   *)
(* the next check when the timeout has passed.                             *)
(***************************************************************************)
EXTENDS Timer, TLAPS, SequenceTheorems, WellFoundedInduction

-----------------------------------------------------------------------------
(* Taking an element out of a list and putting one in, by positions.       *)

\* r is s without its k-th element.
Without(r, s, k) ==
    /\ k \in 1..Len(s) /\ Len(r) = Len(s) - 1
    /\ \A i \in 1..Len(r) : r[i] = IF i < k THEN s[i] ELSE s[i + 1]

\* r is s with e at position k.
With(r, s, k, e) ==
    /\ k \in 1..Len(s) + 1 /\ Len(r) = Len(s) + 1
    /\ \A i \in 1..Len(r) : r[i] = IF i < k THEN s[i] ELSE IF i = k THEN e ELSE s[i - 1]

LEMMA SmallestIndex ==
    ASSUME NEW I \in SUBSET Nat, I # {}
    PROVE  \E x \in I : \A y \in I : x <= y
<1>1. PICK x \in I : \A y \in I : ~ (<<y, x>> \in OpToRel(<, Nat))
  BY NatLessThanWellFounded, WFMin
<1>2. \A y \in I : ~ (y < x)
  BY <1>1 DEF OpToRel
<1> QED BY <1>2

LEMMA RemoveFirstIsWithout ==
    ASSUME NEW S, NEW s \in Seq(S), NEW e, \E i \in 1..Len(s) : s[i] = e
    PROVE  /\ RemoveFirst(s, e) \in Seq(S)
           /\ \E k \in 1..Len(s) : s[k] = e /\ Without(RemoveFirst(s, e), s, k)
<1> DEFINE I == {i \in 1..Len(s) : s[i] = e}
           k == CHOOSE x \in I : \A y \in I : x <= y
           a == SubSeq(s, 1, k - 1)
           b == SubSeq(s, k + 1, Len(s))
<1>1. k \in 1..Len(s) /\ s[k] = e
  <2>1. I \in SUBSET Nat /\ I # {} /\ \A x \in I : x \in 1..Len(s) /\ s[x] = e
    BY LenProperties
  <2> HIDE DEF I
  <2>2. \E x \in I : \A y \in I : x <= y
    BY <2>1, SmallestIndex
  <2>3. k \in I
    BY <2>2
  <2> QED BY <2>1, <2>3
<1>2. RemoveFirst(s, e) = a \o b
  BY DEF RemoveFirst, RemoveAt, SelectInSeq, Min
<1> HIDE DEF k
<1>3. Len(s) \in Nat /\ \A i \in 1..Len(s) : s[i] \in S
  BY ElementOfSeq, LenProperties
<1>4. /\ a \in Seq(S) /\ Len(a) = k - 1
      /\ \A i \in 1..k - 1 : a[i] = s[i]
  BY <1>1, <1>3, SubSeqProperties
<1>5. /\ b \in Seq(S) /\ Len(b) = Len(s) - k
      /\ \A i \in 1..Len(s) - k : b[i] = s[k + i]
  BY <1>1, <1>3, SubSeqProperties
<1> HIDE DEF a, b
<1>6. /\ a \o b \in Seq(S) /\ Len(a \o b) = Len(s) - 1
      /\ \A i \in 1..Len(s) - 1 : (a \o b)[i] = IF i < k THEN s[i] ELSE s[i + 1]
  <2>1. /\ a \o b \in Seq(S) /\ Len(a \o b) = Len(a) + Len(b)
        /\ \A i \in 1..Len(a) + Len(b) :
              (a \o b)[i] = IF i <= Len(a) THEN a[i] ELSE b[i - Len(a)]
    BY <1>4, <1>5, ConcatProperties
  <2>2. Len(a) + Len(b) = Len(s) - 1
    BY <1>1, <1>3, <1>4, <1>5
  <2>3. ASSUME NEW i \in 1..Len(s) - 1
        PROVE  (a \o b)[i] = IF i < k THEN s[i] ELSE s[i + 1]
    <3>1. CASE i < k
      BY <1>1, <1>3, <1>4, <2>1, <2>2, <3>1
    <3>2. CASE ~ (i < k)
      <4>1. /\ i - (k - 1) \in 1..Len(s) - k /\ k + (i - (k - 1)) = i + 1
            /\ i - Len(a) = i - (k - 1) /\ ~ (i <= Len(a))
        BY <1>1, <1>3, <1>4, <3>2
      <4>2. b[i - (k - 1)] = s[k + (i - (k - 1))]
        BY <1>5, <4>1
      <4> QED BY <2>1, <2>2, <3>2, <4>1, <4>2
    <3> QED BY <3>1, <3>2
  <2> QED BY <2>1, <2>2, <2>3
<1> QED BY <1>1, <1>2, <1>6 DEF Without

LEMMA InsertAtIsWith ==
    ASSUME NEW S, NEW s \in Seq(S), NEW e \in S, NEW k \in 1..Len(s)
    PROVE  InsertAt(s, k, e) \in Seq(S) /\ With(InsertAt(s, k, e), s, k, e)
<1> DEFINE a == SubSeq(s, 1, k - 1)
           b == SubSeq(s, k, Len(s))
<1>1. Len(s) \in Nat /\ \A i \in 1..Len(s) : s[i] \in S
  BY ElementOfSeq, LenProperties
<1>2. /\ a \in Seq(S) /\ Len(a) = k - 1
      /\ \A i \in 1..k - 1 : a[i] = s[i]
  BY <1>1, SubSeqProperties
<1>3. /\ b \in Seq(S) /\ Len(b) = Len(s) - k + 1
      /\ \A i \in 1..Len(s) - k + 1 : b[i] = s[k + i - 1]
  BY <1>1, SubSeqProperties
<1>4. InsertAt(s, k, e) = a \o <<e>> \o b
  BY DEF InsertAt
<1> HIDE DEF a, b
<1>5. /\ a \o <<e>> \in Seq(S) /\ Len(a \o <<e>>) = k
      /\ \A i \in 1..k : (a \o <<e>>)[i] = IF i < k THEN s[i] ELSE e
  <2>1. <<e>> \in Seq(S) /\ Len(<<e>>) = 1 /\ <<e>>[1] = e
    OBVIOUS
  <2>2. /\ a \o <<e>> \in Seq(S) /\ Len(a \o <<e>>) = Len(a) + Len(<<e>>)
        /\ \A i \in 1..Len(a) + Len(<<e>>) :
              (a \o <<e>>)[i] = IF i <= Len(a) THEN a[i] ELSE <<e>>[i - Len(a)]
    BY <1>2, <2>1, ConcatProperties
  <2>3. Len(a) + Len(<<e>>) = k
    BY <1>1, <1>2, <2>1
  <2>4. ASSUME NEW i \in 1..k
        PROVE  (a \o <<e>>)[i] = IF i < k THEN s[i] ELSE e
    <3>1. CASE i < k
      BY <1>2, <2>2, <2>3, <3>1
    <3>2. CASE ~ (i < k)
      <4>1. i = k /\ i - Len(a) = 1 /\ ~ (i <= Len(a))
        BY <1>2, <3>2
      <4> QED BY <2>1, <2>2, <2>3, <3>2, <4>1
    <3> QED BY <3>1, <3>2
  <2> QED BY <2>2, <2>3, <2>4
<1> DEFINE c == a \o <<e>>
<1> HIDE DEF c
<1>6. /\ c \o b \in Seq(S) /\ Len(c \o b) = Len(s) + 1
      /\ \A i \in 1..Len(s) + 1 :
            (c \o b)[i] = IF i < k THEN s[i] ELSE IF i = k THEN e ELSE s[i - 1]
  <2>1. /\ c \in Seq(S) /\ Len(c) = k
        /\ \A i \in 1..k : c[i] = IF i < k THEN s[i] ELSE e
    BY <1>5 DEF c
  <2>2. /\ c \o b \in Seq(S) /\ Len(c \o b) = Len(c) + Len(b)
        /\ \A i \in 1..Len(c) + Len(b) :
              (c \o b)[i] = IF i <= Len(c) THEN c[i] ELSE b[i - Len(c)]
    BY <1>3, <2>1, ConcatProperties
  <2>3. Len(c) + Len(b) = Len(s) + 1
    BY <1>1, <1>3, <2>1
  <2>4. ASSUME NEW i \in 1..Len(s) + 1
        PROVE  (c \o b)[i] = IF i < k THEN s[i] ELSE IF i = k THEN e ELSE s[i - 1]
    <3>1. CASE i <= k
      BY <1>1, <2>1, <2>2, <2>3, <3>1
    <3>2. CASE ~ (i <= k)
      <4>1. i - k \in 1..Len(s) - k + 1 /\ k + (i - k) - 1 = i - 1 /\ ~ (i < k) /\ i # k
        BY <1>1, <3>2
      <4>2. b[i - k] = s[k + (i - k) - 1]
        BY <1>3, <4>1
      <4> QED BY <2>1, <2>2, <2>3, <3>2, <4>1, <4>2
    <3> QED BY <3>1, <3>2
  <2> QED BY <2>2, <2>3, <2>4
<1> QED BY <1>1, <1>4, <1>6 DEF With, c

\* Two elements of r stand in s in the same order.
InOrderOf(r, s) == \A i, j \in 1..Len(r) :
    i < j => \E k, l \in 1..Len(s) : k < l /\ s[k] = r[i] /\ s[l] = r[j]

LEMMA RemovedFrom ==
    ASSUME NEW S, NEW s \in Seq(S), NEW e, IsInjective(s)
    PROVE  /\ RemoveFirst(s, e) \in Seq(S) /\ IsInjective(RemoveFirst(s, e))
           /\ Range(RemoveFirst(s, e)) = Range(s) \ {e}
           /\ InOrderOf(RemoveFirst(s, e), s)
<1>1. DOMAIN s = 1..Len(s) /\ Len(s) \in Nat
  BY LenProperties
<1>2. CASE ~ \E i \in 1..Len(s) : s[i] = e
  <2>1. RemoveFirst(s, e) = s
    BY <1>2 DEF RemoveFirst
  <2>2. e \notin Range(s)
    BY <1>1, <1>2 DEF Range
  <2>3. InOrderOf(s, s)
    BY DEF InOrderOf
  <2> QED BY <2>1, <2>2, <2>3
<1>3. CASE \E i \in 1..Len(s) : s[i] = e
  <2> DEFINE r == RemoveFirst(s, e)
  <2>1. PICK k \in 1..Len(s) : r \in Seq(S) /\ s[k] = e /\ Without(r, s, k)
    BY <1>3, RemoveFirstIsWithout
  <2> HIDE DEF r
  <2>2. DOMAIN r = 1..Len(r) /\ Len(r) = Len(s) - 1
    BY <2>1, LenProperties DEF Without
  <2> DEFINE at(i) == IF i < k THEN i ELSE i + 1
  <2>3. \A i \in 1..Len(r) : at(i) \in 1..Len(s) /\ at(i) # k /\ r[i] = s[at(i)]
    BY <1>1, <2>1, <2>2 DEF Without
  <2>4. \A i, j \in 1..Len(r) : i < j => at(i) < at(j)
    BY <1>1, <2>1, <2>2
  <2>5. \A l \in 1..Len(s) : l # k => \E i \in 1..Len(r) : at(i) = l
    <3>1. TAKE l \in 1..Len(s)
    <3>2. HAVE l # k
    <3>3. CASE l < k
      BY <1>1, <2>1, <2>2, <3>3
    <3>4. CASE l > k
      <4>1. l - 1 \in 1..Len(r) /\ at(l - 1) = l
        BY <1>1, <2>1, <2>2, <3>4
      <4> QED BY <4>1
    <3> QED BY <1>1, <2>1, <3>2, <3>3, <3>4
  <2>6. \A i, j \in 1..Len(r) : at(i) = at(j) => i = j
    BY <1>1, <2>1, <2>2
  <2> HIDE DEF at
  <2>7. IsInjective(r)
    BY <1>1, <2>2, <2>3, <2>6 DEF IsInjective
  <2>8. Range(r) = Range(s) \ {e}
    <3>1. \A x : x \in Range(r) => x \in Range(s) \ {e}
      <4>1. TAKE x
      <4>2. HAVE x \in Range(r)
      <4>3. PICK i \in 1..Len(r) : r[i] = x
        BY <2>2, <4>2 DEF Range
      <4>4. at(i) \in DOMAIN s /\ at(i) # k /\ s[at(i)] = x /\ k \in DOMAIN s
        BY <1>1, <2>1, <2>3, <4>3
      <4>5. x # e
        BY <2>1, <4>4 DEF IsInjective
      <4> QED BY <4>4, <4>5 DEF Range
    <3>2. \A x : x \in Range(s) \ {e} => x \in Range(r)
      <4>1. TAKE x
      <4>2. HAVE x \in Range(s) \ {e}
      <4>3. PICK l \in 1..Len(s) : s[l] = x /\ l # k
        BY <1>1, <2>1, <4>2 DEF Range
      <4>4. PICK i \in 1..Len(r) : at(i) = l
        BY <2>5, <4>3
      <4>5. r[i] = x /\ i \in DOMAIN r
        BY <2>2, <2>3, <4>3, <4>4
      <4> QED BY <4>5 DEF Range
    <3> QED BY <3>1, <3>2
  <2>9. InOrderOf(r, s)
    BY <2>3, <2>4 DEF InOrderOf
  <2> QED BY <2>1, <2>7, <2>8, <2>9 DEF r
<1> QED BY <1>2, <1>3

\* The timer i of the list has a later timeout than t.
Later(list, t, stamp, i) == Minus(stamp[list[i]], stamp[t]) \in 1..Half-1

\* A timer goes before the first with a later timeout.
LEMMA InsertedIsWith ==
    ASSUME NEW S, NEW list \in Seq(S), NEW t \in S, NEW stamp
    PROVE  /\ Inserted(list, t, stamp) \in Seq(S)
           /\ \E k \in 1..Len(list) + 1 :
                 /\ With(Inserted(list, t, stamp), list, k, t)
                 /\ \A i \in 1..Len(list) : i < k => ~ Later(list, t, stamp, i)
                 /\ k <= Len(list) => Later(list, t, stamp, k)
<1> DEFINE later == {i \in DOMAIN list : Minus(stamp[list[i]], stamp[t]) \in 1..Half-1}
<1>1. DOMAIN list = 1..Len(list) /\ Len(list) \in Nat /\ later \in SUBSET Nat
  BY LenProperties
<1>2. \A i : i \in later <=> i \in 1..Len(list) /\ Later(list, t, stamp, i)
  BY <1>1 DEF Later
<1>3. Inserted(list, t, stamp) =
        IF later = {} THEN Append(list, t)
        ELSE InsertAt(list, CHOOSE i \in later : \A j \in later : i <= j, t)
  BY DEF Inserted
<1> HIDE DEF later
<1>4. CASE later = {}
  <2>1. /\ Append(list, t) \in Seq(S) /\ Len(Append(list, t)) = Len(list) + 1
        /\ \A i \in 1..Len(list) : Append(list, t)[i] = list[i]
        /\ Append(list, t)[Len(list) + 1] = t
    BY AppendProperties
  <2>2. With(Append(list, t), list, Len(list) + 1, t)
    BY <1>1, <2>1 DEF With
  <2>3. Inserted(list, t, stamp) = Append(list, t)
    BY <1>3, <1>4
  <2>4. Len(list) + 1 \in 1..Len(list) + 1 /\ ~ (Len(list) + 1 <= Len(list))
    BY <1>1
  <2> QED BY <1>2, <1>4, <2>1, <2>2, <2>3, <2>4
<1>5. CASE later # {}
  <2> DEFINE k == CHOOSE i \in later : \A j \in later : i <= j
  <2>1. k \in later /\ \A j \in later : k <= j
    BY <1>1, <1>5, SmallestIndex
  <2>2. Inserted(list, t, stamp) = InsertAt(list, k, t)
    BY <1>3, <1>5
  <2> HIDE DEF k
  <2>3. k \in 1..Len(list) /\ Later(list, t, stamp, k)
    BY <1>2, <2>1
  <2>4. InsertAt(list, k, t) \in Seq(S) /\ With(InsertAt(list, k, t), list, k, t)
    BY <2>3, InsertAtIsWith
  <2>5. \A i \in 1..Len(list) : i < k => ~ Later(list, t, stamp, i)
    BY <1>1, <1>2, <2>1, <2>3
  <2>6. k \in 1..Len(list) + 1
    BY <1>1, <2>3
  <2> QED BY <2>2, <2>3, <2>4, <2>5, <2>6
<1> QED BY <1>4, <1>5

LEMMA InsertedInto ==
    ASSUME NEW S, NEW list \in Seq(S), NEW t \in S, NEW stamp,
           IsInjective(list), t \notin Range(list)
    PROVE  /\ Inserted(list, t, stamp) \in Seq(S)
           /\ IsInjective(Inserted(list, t, stamp))
           /\ Range(Inserted(list, t, stamp)) = Range(list) \cup {t}
<1> DEFINE r == Inserted(list, t, stamp)
<1>1. PICK k \in 1..Len(list) + 1 : r \in Seq(S) /\ With(r, list, k, t)
  BY InsertedIsWith
<1> HIDE DEF r
<1>2. /\ DOMAIN list = 1..Len(list) /\ Len(list) \in Nat
      /\ DOMAIN r = 1..Len(r) /\ Len(r) = Len(list) + 1
  BY <1>1, LenProperties DEF With
<1> DEFINE at(i) == IF i < k THEN i ELSE i - 1
<1>3. /\ k \in 1..Len(r) /\ r[k] = t
      /\ \A i \in 1..Len(r) : i # k => at(i) \in 1..Len(list) /\ r[i] = list[at(i)]
  BY <1>1, <1>2 DEF With
<1>4. \A i, j \in 1..Len(r) : i # k /\ j # k /\ at(i) = at(j) => i = j
  BY <1>1, <1>2
<1>5. \A l \in 1..Len(list) : \E i \in 1..Len(r) : i # k /\ at(i) = l
  <2>1. TAKE l \in 1..Len(list)
  <2>2. CASE l < k
    BY <1>1, <1>2, <2>2
  <2>3. CASE ~ (l < k)
    <3>1. l + 1 \in 1..Len(r) /\ l + 1 # k /\ at(l + 1) = l
      BY <1>1, <1>2, <2>3
    <3> QED BY <3>1
  <2> QED BY <2>2, <2>3
<1> HIDE DEF at
<1>6. IsInjective(r)
  BY <1>2, <1>3, <1>4 DEF IsInjective, Range
<1>7. Range(r) = Range(list) \cup {t}
  <2>1. \A x : x \in Range(r) => x \in Range(list) \cup {t}
    BY <1>2, <1>3 DEF Range
  <2>2. \A x : x \in Range(list) \cup {t} => x \in Range(r)
    BY <1>2, <1>3, <1>5 DEF Range
  <2> QED BY <2>1, <2>2
<1> QED BY <1>1, <1>6, <1>7 DEF r

-----------------------------------------------------------------------------
(* Every timer is used by one thread, or only by timeout functions.        *)

Alone ==
    /\ \A c, d \in Callers : c # d => Uses[c] \cap Uses[d] = {}
    /\ \A c \in Callers, t \in Timers : Restarts[t] \cap Uses[c] = {}
    /\ \A t \in Timers : t \notin Restarts[t]

Steps == {"stamp", "insert", "remove", "clear", "delete"}
Calls == {"called", "returned"}

TypeOK ==
    /\ rt_tick \in 0..TickMod-1
    /\ rt_timer_list \in Seq(Timers)
    /\ live \subseteq Timers /\ activated \subseteq Timers /\ periodic \subseteq Timers
    /\ timeout_tick \in [Timers -> 0..TickMod-1]
    /\ init_tick \in [Timers -> Times]
    /\ left \in [Timers -> Int]
    /\ pc \in [Callers -> {Nothing} \cup (Steps \X Timers)]
    /\ isr \in {Nothing, <<"check">>} \cup (Calls \X Timers)

\* A thread is at work on t and has taken it off the list.
Held(t) == \E c \in Callers, step \in Steps \ {"remove"} : pc[c] = <<step, t>>

\* rt_timer_check has taken t off the list.
Called(t) == \E call \in Calls : isr = <<call, t>>

Listed == Range(rt_timer_list)

\* Nobody is at work on a timer but its thread and rt_timer_check.
OnesOwn ==
    /\ \A c \in Callers : pc[c] # Nothing => pc[c][2] \in Uses[c] \cap live
    /\ \A t \in Timers : Called(t) => t \in live \ Listed /\ ~ Held(t)
    /\ \A t \in Timers : Held(t) => t \notin Listed

ListInv ==
    /\ IsInjective(rt_timer_list) /\ Listed \subseteq live
    /\ \A t \in live : ~ Held(t) /\ ~ Called(t) => (t \in activated <=> t \in Listed)

LInv == TypeOK /\ OnesOwn /\ ListInv

LEMMA LInit == ASSUME TimerAssumption, Init PROVE LInv
<1>1. Times # {} /\ Times \subseteq Nat
  BY DEF TimerAssumption
<1>2. rt_timer_list = <<>> /\ Listed = {} /\ IsInjective(rt_timer_list)
  BY DEF Init, Listed, Range, IsInjective
<1>3. TypeOK
  BY DEF Init, TypeOK, TimerAssumption, Nothing
<1>4. \A t : ~ Held(t) /\ ~ Called(t)
  BY DEF Init, Held, Called, Nothing
<1> QED BY <1>1, <1>2, <1>3, <1>4 DEF Init, LInv, OnesOwn, ListInv, Nothing

\* Ticks are ticks.
LEMMA StampIsATick ==
    ASSUME TimerAssumption, TypeOK, NEW t \in Timers PROVE Stamp(t) \in 0..TickMod-1
<1>1. rt_tick + init_tick[t] \in Nat /\ TickMod \in Nat \ {0}
  <2>1. init_tick[t] \in 0..Half-1 /\ rt_tick \in 0..TickMod-1
    BY DEF TypeOK, TimerAssumption
  <2> QED BY <2>1 DEF TimerAssumption
<1>2. (rt_tick + init_tick[t]) % TickMod \in 0..TickMod-1
  BY <1>1
<1> QED BY <1>2 DEF Stamp

\* A thread goes on: only its own timer is in other hands than before.
LEMMA Moves ==
    ASSUME TimerAssumption, Alone, TypeOK, OnesOwn, NEW c \in Callers, NEW t \in Uses[c],
           isr = Nothing, isr' = isr, pc[c] = Nothing \/ pc[c][2] = t,
           NEW where \in {Nothing} \cup (Steps \X {t}), Goto(c, where)
    PROVE  /\ \A u \in Timers : ~ Called(u) /\ ~ Called(u)'
           /\ \A u \in Timers \ {t} : Held(u)' <=> Held(u)
           /\ Held(t)' <=> where \notin {Nothing, <<"remove", t>>}
           /\ pc[c] = Nothing => ~ Held(t)
           /\ \A d \in Callers : pc'[d] = IF d = c THEN where ELSE pc[d]
           /\ \A d \in Callers \ {c} : pc[d] # Nothing => pc[d][2] # t
           /\ t \in Timers /\ pc' \in [Callers -> {Nothing} \cup (Steps \X Timers)]
<1>1. t \in Timers
  BY DEF TimerAssumption
<1>2. /\ \A d \in Callers : pc'[d] = IF d = c THEN where ELSE pc[d]
      /\ pc' \in [Callers -> {Nothing} \cup (Steps \X Timers)]
  BY <1>1 DEF Goto, TypeOK
<1>3. \A u \in Timers : ~ Called(u) /\ ~ Called(u)'
  BY DEF Called, Nothing
<1>4. \A d \in Callers \ {c} : pc[d] # Nothing => pc[d][2] # t
  BY DEF Alone, OnesOwn
<1>5. \A d \in Callers \ {c}, step \in Steps : pc[d] # <<step, t>>
  BY <1>4 DEF Nothing
<1>6. ASSUME NEW step \in Steps, NEW u \in Timers \ {t}
      PROVE  pc[c] # <<step, u>> /\ where # <<step, u>>
  <2>1. <<step, u>> # Nothing /\ <<step, u>>[2] = u
    BY DEF Nothing
  <2>2. where # Nothing => where[2] = t
    OBVIOUS
  <2> QED BY <2>1, <2>2
<1>7. \A u \in Timers \ {t} : Held(u)' <=> Held(u)
  BY <1>2, <1>6 DEF Held
<1>8. Held(t)' <=> where \notin {Nothing, <<"remove", t>>}
  <2>1. Held(t)' <=> \E step \in Steps \ {"remove"} : where = <<step, t>>
    BY <1>2, <1>5 DEF Held
  <2>2. CASE where = Nothing
    <3>1. \A step : where # <<step, t>>
      BY <2>2 DEF Nothing
    <3> QED BY <2>1, <2>2, <3>1
  <2>3. CASE where # Nothing
    <3>1. PICK step \in Steps : where = <<step, t>>
      BY <2>3
    <3>2. where = <<"remove", t>> <=> step = "remove"
      BY <3>1
    <3>3. \A other : where = <<other, t>> => other = step
      BY <3>1
    <3> QED BY <2>1, <2>3, <3>1, <3>2, <3>3
  <2> QED BY <2>2, <2>3
<1>9. pc[c] = Nothing => ~ Held(t)
  BY <1>5 DEF Held, Nothing
<1> QED BY <1>1, <1>2, <1>3, <1>4, <1>7, <1>8, <1>9

\* What a thread does with a timer that it starts, stops or deletes.
LEMMA TakesKeep ==
    ASSUME TimerAssumption, Alone, LInv, NEW c \in Callers, NEW t \in Timers,
           Start(c, t) \/ StopRemove(c, t) \/ Delete(c, t)
    PROVE  LInv'
<1>1. /\ t \in Uses[c] \cap live /\ isr = Nothing /\ isr' = isr
      /\ pc[c] = Nothing \/ pc[c][2] = t
  BY DEF Start, StopRemove, Delete, Idle, At, LInv, OnesOwn, Nothing
<1>2. PICK where \in Steps \X {t} : Goto(c, where) /\ where # <<"remove", t>>
  BY DEF Start, StopRemove, Delete, Steps
<1>3. where # Nothing
  BY DEF Nothing
<1>4. /\ \A u \in Timers : ~ Called(u) /\ ~ Called(u)'
      /\ \A u \in Timers \ {t} : Held(u)' <=> Held(u)
      /\ Held(t)'
      /\ \A d \in Callers : pc'[d] = IF d = c THEN where ELSE pc[d]
      /\ pc' \in [Callers -> {Nothing} \cup (Steps \X Timers)]
  BY <1>1, <1>2, <1>3, Moves DEF LInv
<1>5. rt_timer_list' = RemoveFirst(rt_timer_list, t) /\ left' = [left EXCEPT ![t] = 0]
  BY DEF Start, StopRemove, Delete, TimerRemove
<1>6. /\ rt_timer_list' \in Seq(Timers) /\ IsInjective(rt_timer_list')
      /\ Listed' = Listed \ {t}
  BY <1>5, RemovedFrom DEF LInv, TypeOK, ListInv, Listed
<1>7. /\ activated' \subseteq activated /\ activated \subseteq activated' \cup {t}
      /\ UNCHANGED <<live, rt_tick, timeout_tick, init_tick, periodic, isr>>
  BY DEF Start, StopRemove, Delete
<1>8. TypeOK'
  BY <1>4, <1>5, <1>6, <1>7 DEF LInv, TypeOK
<1>9. OnesOwn'
  BY <1>1, <1>2, <1>4, <1>6, <1>7 DEF LInv, OnesOwn
<1>10. ListInv'
  BY <1>4, <1>6, <1>7 DEF LInv, ListInv, TypeOK
<1> QED BY <1>8, <1>9, <1>10 DEF LInv

\* The end of a start.
LEMMA StartInsertKeeps ==
    ASSUME TimerAssumption, Alone, LInv, NEW c \in Callers, NEW t \in Timers,
           StartInsert(c, t)
    PROVE  LInv'
<1>1. /\ t \in Uses[c] \cap live /\ isr = Nothing /\ isr' = isr /\ pc[c][2] = t
      /\ Held(t) /\ Goto(c, Nothing)
  BY DEF StartInsert, At, LInv, OnesOwn, Nothing, Held, Steps
<1>2. /\ \A u \in Timers : ~ Called(u) /\ ~ Called(u)'
      /\ \A u \in Timers \ {t} : Held(u)' <=> Held(u)
      /\ ~ Held(t)'
      /\ \A d \in Callers : pc'[d] = IF d = c THEN Nothing ELSE pc[d]
      /\ pc' \in [Callers -> {Nothing} \cup (Steps \X Timers)]
  BY <1>1, Moves DEF LInv
<1>3. t \notin Listed
  BY <1>1 DEF LInv, OnesOwn
<1>4. rt_timer_list' = Inserted(rt_timer_list, t, timeout_tick)
  BY DEF StartInsert
<1>5. /\ rt_timer_list' \in Seq(Timers) /\ IsInjective(rt_timer_list')
      /\ Listed' = Listed \cup {t}
  BY <1>3, <1>4, InsertedInto DEF LInv, TypeOK, ListInv, Listed
<1>6. /\ activated' = activated \cup {t} /\ left' = [left EXCEPT ![t] = IF @ > 0 THEN @ ELSE 1]
      /\ UNCHANGED <<live, rt_tick, timeout_tick, init_tick, periodic, isr>>
  BY DEF StartInsert
<1>7. left' \in [Timers -> Int]
  BY <1>6 DEF LInv, TypeOK
<1>8. TypeOK'
  BY <1>2, <1>5, <1>6, <1>7 DEF LInv, TypeOK
<1>9. OnesOwn'
  BY <1>1, <1>2, <1>5, <1>6 DEF LInv, OnesOwn
<1>10. ListInv'
  BY <1>1, <1>2, <1>5, <1>6 DEF LInv, ListInv, TypeOK
<1> QED BY <1>8, <1>9, <1>10 DEF LInv

\* Steps that leave the list as it is.
LEMMA StampsKeep ==
    ASSUME TimerAssumption, Alone, LInv, NEW c \in Callers, NEW t \in Timers,
           StartStamp(c, t) \/ Stop(c, t) \/ StopClear(c, t)
    PROVE  LInv'
<1>1. /\ t \in Uses[c] \cap live /\ isr = Nothing /\ isr' = isr
      /\ pc[c] = Nothing \/ pc[c][2] = t
  BY DEF StartStamp, Stop, StopClear, Idle, At, LInv, OnesOwn, Nothing
<1>2. PICK where \in {Nothing} \cup (Steps \X {t}) : Goto(c, where)
  BY DEF StartStamp, Stop, StopClear, Steps
<1>3. /\ \A u \in Timers : ~ Called(u) /\ ~ Called(u)'
      /\ \A u \in Timers \ {t} : Held(u)' <=> Held(u)
      /\ Held(t)' <=> where \notin {Nothing, <<"remove", t>>}
      /\ pc[c] = Nothing => ~ Held(t)
      /\ \A d \in Callers : pc'[d] = IF d = c THEN where ELSE pc[d]
      /\ pc' \in [Callers -> {Nothing} \cup (Steps \X Timers)]
  BY <1>1, <1>2, Moves DEF LInv
<1>4. /\ rt_timer_list' = rt_timer_list /\ Listed' = Listed
      /\ UNCHANGED <<live, rt_tick, init_tick, periodic, isr>>
  BY DEF StartStamp, Stop, StopClear, Listed
<1>5. pc'[c] = where
  BY <1>3
<1>6. CASE StartStamp(c, t)
  <2>1. /\ timeout_tick' = [timeout_tick EXCEPT ![t] = Stamp(t)]
        /\ left' = [left EXCEPT ![t] = init_tick[t]] /\ activated' = activated
        /\ Held(t) /\ pc'[c] = <<"insert", t>>
    BY <1>6 DEF StartStamp, At, Held, Steps, Goto, LInv, TypeOK
  <2>2. Held(t)'
    BY <1>3, <1>5, <2>1 DEF Nothing
  <2>3. Stamp(t) \in 0..TickMod-1 /\ init_tick[t] \in Times /\ Times \subseteq Int
    <3>1. TypeOK
      BY DEF LInv
    <3> QED BY <3>1, StampIsATick DEF TypeOK, TimerAssumption
  <2>4. TypeOK'
    BY <1>3, <1>4, <2>1, <2>3 DEF LInv, TypeOK
  <2>5. OnesOwn'
    BY <1>1, <1>3, <1>4, <1>5, <2>1, <2>2 DEF LInv, OnesOwn
  <2>6. ListInv'
    BY <1>1, <1>3, <1>4, <2>1, <2>2 DEF LInv, ListInv, TypeOK
  <2> QED BY <2>4, <2>5, <2>6 DEF LInv
<1>7. CASE Stop(c, t)
  <2>1. /\ UNCHANGED <<timeout_tick, activated, left>>
        /\ pc[c] = Nothing /\ pc'[c] = <<"remove", t>>
    BY <1>7 DEF Stop, Idle, Goto, LInv, TypeOK
  <2>2. ~ Held(t)' /\ ~ Held(t)
    BY <1>3, <1>5, <2>1
  <2>3. TypeOK'
    BY <1>3, <1>4, <2>1 DEF LInv, TypeOK
  <2>4. OnesOwn'
    BY <1>1, <1>3, <1>4, <1>5, <2>1, <2>2 DEF LInv, OnesOwn
  <2>5. ListInv'
    BY <1>1, <1>3, <1>4, <2>1, <2>2 DEF LInv, ListInv, TypeOK
  <2> QED BY <2>3, <2>4, <2>5 DEF LInv
<1>8. CASE StopClear(c, t)
  <2>1. /\ UNCHANGED <<timeout_tick, left>> /\ activated' = activated \ {t}
        /\ Held(t) /\ pc'[c] = Nothing
    BY <1>8 DEF StopClear, At, Held, Steps, Goto, LInv, TypeOK
  <2>2. ~ Held(t)' /\ t \notin Listed
    BY <1>3, <1>5, <2>1 DEF LInv, OnesOwn
  <2>3. TypeOK'
    BY <1>3, <1>4, <2>1 DEF LInv, TypeOK
  <2>4. OnesOwn'
    BY <1>1, <1>3, <1>4, <1>5, <2>1, <2>2 DEF LInv, OnesOwn
  <2>5. ListInv'
    BY <1>1, <1>3, <1>4, <2>1, <2>2 DEF LInv, ListInv, TypeOK
  <2> QED BY <2>3, <2>4, <2>5 DEF LInv
<1> QED BY <1>6, <1>7, <1>8

\* rt_timer_control, and a timer that comes or goes.
LEMMA SettingsKeep ==
    ASSUME TimerAssumption, LInv, NEW c \in Callers, NEW t \in Timers,
           \/ \E n \in Times : SetTime(c, t, n)
           \/ \E on \in BOOLEAN : SetPeriodic(c, t, on)
    PROVE  LInv'
<1>1. /\ UNCHANGED <<live, rt_tick, rt_timer_list, timeout_tick, activated, pc, isr, left>>
      /\ init_tick' \in [Timers -> Times] /\ periodic' \subseteq Timers
  <2>1. init_tick \in [Timers -> Times] /\ periodic \subseteq Timers
    BY DEF LInv, TypeOK
  <2>2. CASE \E n \in Times : SetTime(c, t, n)
    BY <2>1, <2>2 DEF SetTime
  <2>3. CASE \E on \in BOOLEAN : SetPeriodic(c, t, on)
    BY <2>1, <2>3 DEF SetPeriodic
  <2> QED BY <2>2, <2>3
<1>2. TypeOK'
  BY <1>1 DEF LInv, TypeOK
<1>3. OnesOwn' /\ ListInv'
  BY <1>1 DEF LInv, OnesOwn, ListInv, Held, Called, Listed
<1> QED BY <1>2, <1>3 DEF LInv

LEMMA CreateKeeps ==
    ASSUME TimerAssumption, Alone, LInv, NEW c \in Callers, NEW t \in Timers,
           NEW n \in Times, NEW on \in BOOLEAN, Create(c, t, n, on)
    PROVE  LInv'
<1>1. /\ UNCHANGED <<rt_tick, rt_timer_list, pc, isr, left>> /\ live' = live \cup {t}
      /\ timeout_tick' = [timeout_tick EXCEPT ![t] = 0] /\ activated' = activated \ {t}
      /\ init_tick' \in [Timers -> Times] /\ periodic' \subseteq Timers /\ t \notin live
  BY DEF Create, TimerInit, LInv, TypeOK
<1>2. TypeOK'
  <2>1. 0 \in 0..TickMod-1 /\ live' \subseteq Timers
    BY <1>1 DEF LInv, TypeOK, TimerAssumption
  <2>2. timeout_tick' \in [Timers -> 0..TickMod-1] /\ activated' \subseteq Timers
    BY <1>1, <2>1 DEF LInv, TypeOK
  <2> QED BY <1>1, <2>1, <2>2 DEF LInv, TypeOK
<1>3. Listed' = Listed /\ \A u : (Held(u)' <=> Held(u)) /\ (Called(u)' <=> Called(u))
  BY <1>1 DEF Listed, Held, Called
<1>4. OnesOwn'
  BY <1>1, <1>3 DEF LInv, OnesOwn
<1>5. IsInjective(rt_timer_list')
  BY <1>1 DEF LInv, ListInv
<1>6. ListInv'
  BY <1>1, <1>3, <1>5 DEF LInv, ListInv
<1> QED BY <1>2, <1>4, <1>6 DEF LInv

LEMMA DeleteObjectKeeps ==
    ASSUME TimerAssumption, Alone, LInv, NEW c \in Callers, NEW t \in Timers,
           DeleteObject(c, t)
    PROVE  LInv'
<1>1. /\ t \in Uses[c] \cap live /\ isr = Nothing /\ isr' = isr /\ pc[c][2] = t
      /\ Held(t) /\ Goto(c, Nothing)
  BY DEF DeleteObject, At, LInv, OnesOwn, Nothing, Held, Steps
<1>2. /\ \A u \in Timers : ~ Called(u) /\ ~ Called(u)'
      /\ \A u \in Timers \ {t} : Held(u)' <=> Held(u)
      /\ ~ Held(t)'
      /\ \A d \in Callers : pc'[d] = IF d = c THEN Nothing ELSE pc[d]
      /\ \A d \in Callers \ {c} : pc[d] # Nothing => pc[d][2] # t
      /\ pc' \in [Callers -> {Nothing} \cup (Steps \X Timers)]
  BY <1>1, Moves DEF LInv
<1>3. /\ live' = live \ {t} /\ t \notin Listed /\ Listed' = Listed
      /\ UNCHANGED <<rt_tick, rt_timer_list, timeout_tick, init_tick, activated, periodic,
                     isr, left>>
      /\ IsInjective(rt_timer_list')
  BY <1>1 DEF DeleteObject, LInv, OnesOwn, ListInv, Listed
<1>4. TypeOK'
  BY <1>2, <1>3 DEF LInv, TypeOK
<1>5. OnesOwn'
  BY <1>1, <1>2, <1>3 DEF LInv, OnesOwn
<1>6. ListInv'
  BY <1>1, <1>2, <1>3 DEF LInv, ListInv, TypeOK
<1> QED BY <1>4, <1>5, <1>6 DEF LInv

\* The tick interrupt begins and ends.
LEMMA TickKeeps ==
    ASSUME TimerAssumption, LInv, Tick \/ CheckDone PROVE LInv'
<1>1. /\ UNCHANGED <<live, rt_timer_list, timeout_tick, init_tick, activated, periodic, pc>>
      /\ isr \in {Nothing, <<"check">>} /\ isr' \in {Nothing, <<"check">>}
  BY DEF Tick, CheckDone
<1>2. rt_tick' \in 0..TickMod-1 /\ left' \in [Timers -> Int]
  <2>1. CASE Tick
    <3>1. rt_tick + 1 \in Nat /\ TickMod \in Nat \ {0}
      BY DEF LInv, TypeOK, TimerAssumption
    <3>2. (rt_tick + 1) % TickMod \in 0..TickMod-1
      BY <3>1
    <3>3. \A t \in Timers : left[t] \in Int /\ left[t] - 1 \in Int
      BY DEF LInv, TypeOK
    <3> QED BY <2>1, <3>2, <3>3 DEF Tick
  <2>2. CASE CheckDone
    BY <2>2 DEF CheckDone, LInv, TypeOK
  <2> QED BY <2>1, <2>2
<1>3. TypeOK'
  BY <1>1, <1>2 DEF LInv, TypeOK
<1>4. /\ Listed' = Listed /\ IsInjective(rt_timer_list')
      /\ \A u : (Held(u)' <=> Held(u)) /\ ~ Called(u) /\ ~ Called(u)'
  <2>1. \A call \in Calls : \A u : <<call, u>> # Nothing /\ <<call, u>> # <<"check">>
    BY DEF Nothing
  <2> QED BY <1>1, <2>1 DEF Listed, Held, Called, LInv, ListInv
<1>5. OnesOwn' /\ ListInv'
  BY <1>1, <1>4 DEF LInv, OnesOwn, ListInv
<1> QED BY <1>3, <1>5 DEF LInv

\* rt_timer_check takes a timer ...
LEMMA ExpireKeeps ==
    ASSUME TimerAssumption, LInv, NEW t \in Timers, Expire(t) PROVE LInv'
<1>1. /\ UNCHANGED <<live, rt_tick, timeout_tick, init_tick, activated, periodic, pc>>
      /\ isr = <<"check">> /\ isr' = <<"called", t>>
      /\ rt_timer_list' = RemoveFirst(rt_timer_list, t) /\ left' = [left EXCEPT ![t] = 0]
  BY DEF Expire, TimerRemove
<1>2. t \in Listed
  <2>1. rt_timer_list # <<>> /\ t = Head(rt_timer_list) /\ rt_timer_list \in Seq(Timers)
    BY DEF Expire, LInv, TypeOK
  <2>2. 1 \in DOMAIN rt_timer_list /\ t = rt_timer_list[1]
    BY <2>1
  <2> QED BY <2>2 DEF Listed, Range
<1>3. /\ rt_timer_list' \in Seq(Timers) /\ IsInjective(rt_timer_list')
      /\ Listed' = Listed \ {t}
  BY <1>1, RemovedFrom DEF LInv, TypeOK, ListInv, Listed
<1>4. \A u : (Held(u)' <=> Held(u)) /\ ~ Called(u) /\ (Called(u)' <=> u = t)
  <2>1. \A call \in Calls : \A u : /\ <<call, u>> # <<"check">>
                               /\ <<call, u>> = <<"called", t>> <=> call = "called" /\ u = t
    OBVIOUS
  <2> QED BY <1>1, <2>1 DEF Held, Called, Calls
<1>5. t \in live /\ ~ Held(t)
  BY <1>2 DEF LInv, ListInv, OnesOwn
<1>6. TypeOK'
  BY <1>1, <1>3 DEF LInv, TypeOK, Calls
<1>7. OnesOwn'
  BY <1>1, <1>3, <1>4, <1>5 DEF LInv, OnesOwn
<1>8. ListInv'
  BY <1>1, <1>3, <1>4, <1>5 DEF LInv, ListInv
<1> QED BY <1>6, <1>7, <1>8 DEF LInv

\* A start in the interrupt.
LEMMA StartMaskedGives ==
    ASSUME TimerAssumption, LInv, NEW t \in live, StartMasked(t), init_tick' = init_tick
    PROVE  /\ rt_timer_list' \in Seq(Timers) /\ IsInjective(rt_timer_list')
           /\ Listed' = Listed \cup {t}
           /\ timeout_tick' \in [Timers -> 0..TickMod-1]
           /\ activated' = activated \cup {t} /\ t \in Timers
           /\ left' \in [Timers -> Int]
<1> DEFINE r == RemoveFirst(rt_timer_list, t)
<1>1. t \in Timers /\ TypeOK
  BY DEF LInv, TypeOK
<1>2. r \in Seq(Timers) /\ IsInjective(r) /\ Range(r) = Listed \ {t}
  BY RemovedFrom DEF LInv, TypeOK, ListInv, Listed
<1>3. rt_timer_list' = Inserted(r, t, timeout_tick')
  BY DEF StartMasked
<1> HIDE DEF r
<1>4. /\ rt_timer_list' \in Seq(Timers) /\ IsInjective(rt_timer_list')
      /\ Range(rt_timer_list') = Range(r) \cup {t}
  BY <1>1, <1>2, <1>3, InsertedInto
<1>5. Listed' = Listed \cup {t}
  BY <1>2, <1>4 DEF Listed
<1>6. Stamp(t) \in 0..TickMod-1 /\ init_tick[t] \in Times /\ Times \subseteq Int
  BY <1>1, StampIsATick DEF TypeOK, TimerAssumption
<1> QED BY <1>1, <1>4, <1>5, <1>6 DEF StartMasked, TypeOK

\* ... whose function may start others ...
LEMMA CallbackKeeps ==
    ASSUME TimerAssumption, Alone, LInv, NEW t \in Timers, NEW u \in Timers, Callback(t, u)
    PROVE  LInv'
<1>1. /\ UNCHANGED <<live, rt_tick, init_tick, periodic, pc>>
      /\ isr = <<"called", t>> /\ isr' = <<"returned", t>>
      /\ u \in live /\ u \in Restarts[t] /\ StartMasked(u)
  BY DEF Callback
<1>2. u # t /\ \A c \in Callers : u \notin Uses[c]
  BY <1>1 DEF Alone
<1>3. \A x : /\ Held(x)' <=> Held(x)
             /\ Called(x) <=> x = t
             /\ Called(x)' <=> x = t
  <2>1. \A call \in Calls : \A x : /\ <<call, x>> = <<"called", t>> <=> call = "called" /\ x = t
                               /\ <<call, x>> = <<"returned", t>> <=> call = "returned" /\ x = t
    OBVIOUS
  <2> QED BY <1>1, <2>1 DEF Held, Called, Calls
<1>4. ~ Held(u)
  BY <1>2 DEF Held, LInv, OnesOwn, Nothing
<1>5. /\ rt_timer_list' \in Seq(Timers) /\ IsInjective(rt_timer_list')
      /\ Listed' = Listed \cup {u} /\ timeout_tick' \in [Timers -> 0..TickMod-1]
      /\ activated' = activated \cup {u} /\ left' \in [Timers -> Int]
  BY <1>1, StartMaskedGives
<1>6. TypeOK'
  BY <1>1, <1>5 DEF LInv, TypeOK, Calls
<1>7. OnesOwn'
  BY <1>1, <1>2, <1>3, <1>4, <1>5 DEF LInv, OnesOwn
<1>8. ListInv'
  BY <1>1, <1>3, <1>4, <1>5 DEF LInv, ListInv
<1> QED BY <1>6, <1>7, <1>8 DEF LInv

\* ... and puts a periodic one back.
LEMMA RestartKeeps ==
    ASSUME TimerAssumption, LInv, NEW t \in Timers, Restart(t) PROVE LInv'
<1>1. /\ UNCHANGED <<live, rt_tick, init_tick, periodic, pc>>
      /\ isr \in {<<"called", t>>, <<"returned", t>>} /\ isr' = <<"check">>
  BY DEF Restart
<1>2. \A x : (Held(x)' <=> Held(x)) /\ (Called(x) <=> x = t) /\ ~ Called(x)'
  <2>1. \A call \in Calls : \A x : /\ <<call, x>> = <<"called", t>> <=> call = "called" /\ x = t
                               /\ <<call, x>> = <<"returned", t>> <=> call = "returned" /\ x = t
                               /\ <<call, x>> # <<"check">>
    OBVIOUS
  <2> QED BY <1>1, <2>1 DEF Held, Called, Calls
<1>3. t \in live /\ t \notin Listed /\ ~ Held(t)
  BY <1>2 DEF LInv, OnesOwn
<1>4. \/ /\ activated' = activated \cup {t} /\ Listed' = Listed \cup {t}
         /\ rt_timer_list' \in Seq(Timers) /\ IsInjective(rt_timer_list')
         /\ timeout_tick' \in [Timers -> 0..TickMod-1] /\ left' \in [Timers -> Int]
      \/ /\ activated' = activated \ {t} /\ Listed' = Listed
         /\ IsInjective(rt_timer_list')
         /\ UNCHANGED <<rt_timer_list, timeout_tick, left>>
  <2>1. CASE t \in periodic /\ t \in activated
    <3>1. StartMasked(t)
      BY <2>1 DEF Restart
    <3> QED BY <1>1, <1>3, <3>1, StartMaskedGives
  <2>2. CASE ~ (t \in periodic /\ t \in activated)
    <3>1. activated' = activated \ {t} /\ UNCHANGED <<rt_timer_list, timeout_tick, left>>
      BY <2>2 DEF Restart
    <3> QED BY <3>1 DEF Listed, LInv, ListInv
  <2> QED BY <2>1, <2>2
<1>5. TypeOK'
  BY <1>1, <1>4 DEF LInv, TypeOK
<1>6. OnesOwn'
  BY <1>1, <1>2, <1>3, <1>4 DEF LInv, OnesOwn
<1>7. ListInv'
  BY <1>1, <1>2, <1>3, <1>4 DEF LInv, ListInv
<1> QED BY <1>5, <1>6, <1>7 DEF LInv

LEMMA LNext ==
    ASSUME TimerAssumption, Alone, LInv, [Next]_vars PROVE LInv'
<1>1. CASE Tick
  BY <1>1, TickKeeps
<1>2. CASE Check
  BY <1>2, TickKeeps, ExpireKeeps, CallbackKeeps, RestartKeeps DEF Check
<1>3. ASSUME NEW c \in Callers, CallerStep(c) PROVE LInv'
  <2>1. PICK t \in Timers :
          \/ Start(c, t) \/ StopRemove(c, t) \/ Delete(c, t)
          \/ StartInsert(c, t)
          \/ StartStamp(c, t) \/ Stop(c, t) \/ StopClear(c, t)
          \/ DeleteObject(c, t)
          \/ \E n \in Times : SetTime(c, t, n)
          \/ \E on \in BOOLEAN : SetPeriodic(c, t, on)
          \/ \E n \in Times, on \in BOOLEAN : Create(c, t, n, on)
    BY <1>3 DEF CallerStep
  <2> QED BY <2>1, TakesKeep, StartInsertKeeps, StampsKeep, DeleteObjectKeeps, SettingsKeep,
             CreateKeeps
<1>4. CASE UNCHANGED vars
  BY <1>4 DEF vars, LInv, TypeOK, OnesOwn, ListInv, Held, Called, Listed
<1> QED BY <1>1, <1>2, <1>3, <1>4 DEF Next

LEMMA LEnough == LInv => ListIsExact
<1> SUFFICES ASSUME LInv PROVE ListIsExact
  OBVIOUS
<1>1. ASSUME NEW t \in live, isr = Nothing,
             \A c \in Callers : pc[c] = Nothing \/ pc[c][2] # t
      PROVE  t \in activated <=> t \in Range(rt_timer_list)
  <2>1. \A step : <<step, t>> # Nothing /\ <<step, t>>[2] = t
    BY DEF Nothing
  <2>2. ~ Held(t) /\ ~ Called(t)
    BY <1>1, <2>1 DEF Held, Called
  <2> QED BY <2>2 DEF LInv, ListInv, Listed
<1> QED BY <1>1 DEF LInv, ListInv, ListIsExact, Listed

-----------------------------------------------------------------------------
(* Ticks that wrap.                                                        *)

\* No start is so late that its timeout seems to be in the future.
Room == MaxLate + 1 < Half

Top == Half - 1 - MaxLate

\* The ticks from now to the timeout, less than 0 after it.
OffsAt(stamp, tick) ==
    [t \in Timers |-> ((stamp[t] - tick + (MaxLate + 1)) % TickMod) - (MaxLate + 1)]

offs == OffsAt(timeout_tick, rt_tick)

\* The remainder of a sum or difference of two ticks.
LEMMA Remainder ==
    ASSUME NEW m \in Nat \ {0}, NEW x \in Int, -m <= x, x < 2 * m
    PROVE  x % m = IF x < 0 THEN x + m ELSE IF x < m THEN x ELSE x - m
<1>1. x % m \in 0..m-1
  OBVIOUS
<1>2. x = m * (x \div m) + (x % m) /\ x \div m \in Int
  OBVIOUS
<1> DEFINE q == x \div m
<1> HIDE DEF q
<1>3. q <= -2 => m * q <= -2 * m
  BY <1>2 DEF q
<1>4. q >= 2 => m * q >= 2 * m
  BY <1>2 DEF q
<1>5. q \in {-1, 0, 1}
  BY <1>1, <1>2, <1>3, <1>4 DEF q
<1>6. m * (-1) = -m /\ m * 0 = 0 /\ m * 1 = m
  OBVIOUS
<1>7. m * q = IF q = -1 THEN -m ELSE IF q = 0 THEN 0 ELSE m
  BY <1>5, <1>6
<1> QED BY <1>1, <1>2, <1>5, <1>7 DEF q

LEMMA Sizes ==
    ASSUME TimerAssumption, Room
    PROVE  /\ TickMod \in Nat \ {0} /\ MaxLate \in Nat /\ Half \in Nat /\ Top \in Nat
           /\ 2 * Half < TickMod /\ TickMod <= 2 * Half + 2
           /\ MaxLate + 1 < Half /\ Top = Half - 1 - MaxLate
           /\ \A n \in Times : n \in 0..Top
<1>1. TickMod \in Nat \ {0} /\ TickMod - 1 \in Nat /\ MaxLate \in Nat
  BY DEF TimerAssumption
<1>2. /\ Half \in Nat /\ 2 * Half <= TickMod - 1 /\ TickMod - 1 <= 2 * Half + 1
  <2> DEFINE n == TickMod - 1
  <2>1. n \div 2 \in Nat /\ 2 * (n \div 2) <= n /\ n <= 2 * (n \div 2) + 1
    BY <1>1
  <2> QED BY <2>1 DEF Half
<1>3. \A n \in Times : n \in 0..Half-1 /\ n + MaxLate < Half
  BY DEF TimerAssumption
<1>4. \A n \in Times : n \in 0..Top
  BY <1>1, <1>2, <1>3 DEF Top
<1> QED BY <1>1, <1>2, <1>4 DEF Room, Top

\* A timeout that is n ticks away.
LEMMA OffOf ==
    ASSUME TimerAssumption, Room, NEW r \in 0..TickMod-1, NEW n \in 0..Top
    PROVE  /\ (r + n) % TickMod \in 0..TickMod-1
           /\ ((((r + n) % TickMod) - r + (MaxLate + 1)) % TickMod) - (MaxLate + 1) = n
<1> DEFINE s == (r + n) % TickMod
           x == s - r + (MaxLate + 1)
<1>1. s = IF r + n < TickMod THEN r + n ELSE r + n - TickMod
  <2>1. /\ TickMod \in Nat \ {0} /\ r + n \in Int /\ -TickMod <= r + n /\ r + n < 2 * TickMod
        /\ ~ (r + n < 0)
    BY Sizes
  <2> DEFINE z == r + n
  <2>2. /\ TickMod \in Nat \ {0} /\ z \in Int /\ -TickMod <= z /\ z < 2 * TickMod
    BY <2>1
  <2>3. s = z % TickMod
    OBVIOUS
  <2> HIDE DEF z, s
  <2>4. s = IF z < 0 THEN z + TickMod ELSE IF z < TickMod THEN z ELSE z - TickMod
    BY <2>2, <2>3, Remainder
  <2> QED BY <2>1, <2>4 DEF z
<1>2. s \in 0..TickMod-1
  BY <1>1, Sizes
<1> HIDE DEF s
<1>3. x % TickMod = IF x < 0 THEN x + TickMod ELSE IF x < TickMod THEN x ELSE x - TickMod
  <2>1. TickMod \in Nat \ {0} /\ x \in Int /\ -TickMod <= x /\ x < 2 * TickMod
    BY <1>2, Sizes
  <2> QED BY <2>1, Remainder
<1>4. (x % TickMod) - (MaxLate + 1) = n
  BY <1>1, <1>3, Sizes
<1> QED BY <1>2, <1>4 DEF s

\* What a distance says of the timeout, for any two timers.
LEMMA OffsAre ==
    ASSUME TimerAssumption, Room, NEW r \in 0..TickMod-1, NEW s \in 0..TickMod-1
    PROVE  LET d == ((s - r + (MaxLate + 1)) % TickMod) - (MaxLate + 1) IN
           /\ d \in Int /\ d \in -(MaxLate + 1)..TickMod - MaxLate - 2
           /\ s - r = d \/ s - r = d + TickMod \/ s - r = d - TickMod
<1> DEFINE x == s - r + (MaxLate + 1)
<1>1. TickMod \in Nat \ {0} /\ x \in Int /\ -TickMod <= x /\ x < 2 * TickMod
  BY Sizes
<1>2. x % TickMod = IF x < 0 THEN x + TickMod ELSE IF x < TickMod THEN x ELSE x - TickMod
  BY <1>1, Remainder
<1> QED BY <1>1, <1>2, Sizes

LEMMA OffsType ==
    ASSUME TimerAssumption, Room, NEW stamp \in [Timers -> 0..TickMod-1],
           NEW tick \in 0..TickMod-1
    PROVE  OffsAt(stamp, tick) \in [Timers -> Int]
<1>1. ASSUME NEW t \in Timers PROVE OffsAt(stamp, tick)[t] \in Int
  <2>1. stamp[t] \in 0..TickMod-1
    OBVIOUS
  <2> QED BY <2>1, OffsAre DEF OffsAt
<1> QED BY <1>1 DEF OffsAt

\* Ticks are compared as the distances are ...
LEMMA Compared ==
    ASSUME TimerAssumption, Room, NEW stamp \in [Timers -> 0..TickMod-1],
           NEW tick \in 0..TickMod-1, NEW t \in Timers, NEW u \in Timers,
           OffsAt(stamp, tick)[t] \in -(MaxLate + 1)..Top,
           OffsAt(stamp, tick)[u] \in -MaxLate..Top
    PROVE  Minus(stamp[t], stamp[u]) \in 1..Half-1
           <=> OffsAt(stamp, tick)[t] > OffsAt(stamp, tick)[u]
<1> DEFINE s == stamp[t]
           v == stamp[u]
           d == OffsAt(stamp, tick)[t]
           e == OffsAt(stamp, tick)[u]
<1>1. s \in 0..TickMod-1 /\ v \in 0..TickMod-1
  OBVIOUS
<1>2. /\ s - tick = d \/ s - tick = d + TickMod \/ s - tick = d - TickMod
      /\ v - tick = e \/ v - tick = e + TickMod \/ v - tick = e - TickMod
  BY <1>1, OffsAre DEF OffsAt
<1> HIDE DEF s, v, d, e
<1>3. /\ TickMod \in Nat \ {0} /\ s - v \in Int /\ -TickMod <= s - v /\ s - v < TickMod
      /\ s - v < 2 * TickMod
  BY <1>1, Sizes
<1>4. (s - v) % TickMod = IF s - v < 0 THEN s - v + TickMod ELSE s - v
  BY <1>3, Remainder
<1>5. d \in -(MaxLate + 1)..Top /\ e \in -MaxLate..Top
  BY DEF d, e
<1>6. (s - v) % TickMod \in 1..Half-1 <=> d > e
  <2>1. s - v = d - e \/ s - v = d - e + TickMod \/ s - v = d - e - TickMod
    BY <1>1, <1>2, <1>3, <1>5, Sizes
  <2>2. -Half <= d - e /\ d - e < Half
    BY <1>5, Sizes
  <2>3. CASE d > e
    BY <1>3, <1>4, <1>5, <2>1, <2>2, <2>3, Sizes
  <2>4. CASE ~ (d > e)
    BY <1>3, <1>4, <1>5, <2>1, <2>2, <2>4, Sizes
  <2> QED BY <2>3, <2>4
<1> QED BY <1>6 DEF Minus, s, v, d, e

\* ... and a timer is due when its distance is 0, or was.
LEMMA DueIs ==
    ASSUME TimerAssumption, Room, TypeOK, NEW t \in Timers, offs[t] \in -(MaxLate + 1)..Top
    PROVE  Due(t) <=> offs[t] <= 0
<1> DEFINE s == timeout_tick[t]
           d == offs[t]
<1>1. s \in 0..TickMod-1 /\ rt_tick \in 0..TickMod-1
  BY DEF TypeOK
<1>2. s - rt_tick = d \/ s - rt_tick = d + TickMod \/ s - rt_tick = d - TickMod
  BY <1>1, OffsAre DEF offs, OffsAt
<1> HIDE DEF s, d
<1>3. /\ TickMod \in Nat \ {0} /\ rt_tick - s \in Int /\ -TickMod <= rt_tick - s
      /\ rt_tick - s < TickMod /\ rt_tick - s < 2 * TickMod
  BY <1>1, Sizes
<1>4. (rt_tick - s) % TickMod = IF rt_tick - s < 0 THEN rt_tick - s + TickMod ELSE rt_tick - s
  BY <1>3, Remainder
<1>5. d \in -(MaxLate + 1)..Top
  BY DEF d
<1>6. (rt_tick - s) % TickMod < Half <=> d <= 0
  BY <1>1, <1>2, <1>3, <1>4, <1>5, Sizes
<1> QED BY <1>6 DEF Due, Minus, s, d

\* A tick takes one from every distance.
LEMMA OffsFall ==
    ASSUME TimerAssumption, Room, TypeOK, NEW t \in Timers, offs[t] \in -MaxLate..Top,
           rt_tick' = (rt_tick + 1) % TickMod, timeout_tick' = timeout_tick
    PROVE  offs'[t] = offs[t] - 1
<1> DEFINE s == timeout_tick[t]
           d == offs[t]
           r == (rt_tick + 1) % TickMod
           y == s - r + (MaxLate + 1)
<1>1. s \in 0..TickMod-1 /\ rt_tick \in 0..TickMod-1
  BY DEF TypeOK
<1>2. s - rt_tick = d \/ s - rt_tick = d + TickMod \/ s - rt_tick = d - TickMod
  BY <1>1, OffsAre DEF offs, OffsAt
<1>3. d \in -MaxLate..Top
  OBVIOUS
<1>4. offs'[t] = (y % TickMod) - (MaxLate + 1)
  BY DEF offs, OffsAt
<1> HIDE DEF s, d
<1>5. r = IF rt_tick + 1 < TickMod THEN rt_tick + 1 ELSE rt_tick + 1 - TickMod
  <2>1. /\ TickMod \in Nat \ {0} /\ rt_tick + 1 \in Int /\ -TickMod <= rt_tick + 1
        /\ rt_tick + 1 < 2 * TickMod /\ ~ (rt_tick + 1 < 0)
    BY <1>1, Sizes
  <2> DEFINE z == rt_tick + 1
  <2>2. /\ TickMod \in Nat \ {0} /\ z \in Int /\ -TickMod <= z /\ z < 2 * TickMod
    BY <2>1
  <2>3. r = z % TickMod
    OBVIOUS
  <2> HIDE DEF z, r
  <2>4. r = IF z < 0 THEN z + TickMod ELSE IF z < TickMod THEN z ELSE z - TickMod
    BY <2>2, <2>3, Remainder
  <2> QED BY <1>1, <2>1, <2>4 DEF z
<1> HIDE DEF r
<1>6. r \in 0..TickMod-1 /\ (r = rt_tick + 1 \/ r = rt_tick + 1 - TickMod)
  BY <1>1, <1>5, Sizes
<1>7. y % TickMod = IF y < 0 THEN y + TickMod ELSE IF y < TickMod THEN y ELSE y - TickMod
  <2>1. TickMod \in Nat \ {0} /\ y \in Int /\ -TickMod <= y /\ y < 2 * TickMod
    BY <1>1, <1>6, Sizes
  <2> QED BY <2>1, Remainder
<1>8. (y % TickMod) - (MaxLate + 1) = d - 1
  <2>1. y = d + MaxLate \/ y = d + MaxLate + TickMod \/ y = d + MaxLate - TickMod
    <3>1. y = (s - rt_tick) + (rt_tick - r) + (MaxLate + 1)
      BY <1>1, <1>6, Sizes
    <3>2. rt_tick - r = -1 \/ rt_tick - r = TickMod - 1
      BY <1>1, <1>6, Sizes
    <3>3. -TickMod < s - r /\ s - r < TickMod
      BY <1>1, <1>6, Sizes
    <3>4. d \in Int /\ d + MaxLate >= 0 /\ d < Half /\ TickMod \in Nat /\ MaxLate \in Nat
          /\ MaxLate + 1 < Half /\ 2 * Half < TickMod /\ Half \in Nat
      BY <1>3, Sizes
    <3> QED BY <1>1, <1>2, <1>6, <3>1, <3>2, <3>3, <3>4
  <2>2. d + MaxLate \in Nat /\ d + MaxLate < TickMod
    BY <1>3, Sizes
  <2> HIDE DEF y
  <2> QED BY <1>3, <1>7, <2>1, <2>2, Sizes
<1> QED BY <1>4, <1>8 DEF d

-----------------------------------------------------------------------------
(* The list is in the order of the distances.                              *)

SortedBy(f, s) == \A i, j \in 1..Len(s) : i < j => f[s[i]] <= f[s[j]]

\* A timer that is late is called in the next tick, or in the one that runs.
soon == IF isr = Nothing THEN 1 ELSE 0

OInv ==
    /\ SortedBy(offs, rt_timer_list)
    /\ \A t \in Listed : /\ offs[t] \in soon - (MaxLate + 1)..Top
                         /\ left[t] = IF offs[t] > soon THEN offs[t] ELSE soon
    /\ \A t \in Stamped : offs[t] \in -MaxLate..Top /\ left[t] = offs[t]

IInv == LInv /\ OInv

\* Insertion keeps the order.
LEMMA InsertSorts ==
    ASSUME NEW S, NEW list \in Seq(S), NEW t \in S, NEW stamp, NEW f \in [S -> Int],
           SortedBy(f, list),
           \A i \in 1..Len(list) : Later(list, t, stamp, i) <=> f[list[i]] > f[t]
    PROVE  SortedBy(f, Inserted(list, t, stamp))
<1> DEFINE r == Inserted(list, t, stamp)
<1>1. PICK k \in 1..Len(list) + 1 :
        /\ r \in Seq(S) /\ With(r, list, k, t)
        /\ \A i \in 1..Len(list) : i < k => ~ Later(list, t, stamp, i)
        /\ k <= Len(list) => Later(list, t, stamp, k)
  BY InsertedIsWith
<1> HIDE DEF r
<1>2. Len(list) \in Nat /\ Len(r) = Len(list) + 1 /\ k \in 1..Len(list) + 1
  BY <1>1, LenProperties DEF With
<1>3. \A i \in 1..Len(list) : list[i] \in S /\ f[list[i]] \in Int
  BY ElementOfSeq
<1>4. \A i \in 1..Len(list) : i < k => f[list[i]] <= f[t]
  BY <1>1, <1>3
<1>5. \A i \in 1..Len(list) : i >= k => f[t] <= f[list[i]]
  <2>1. TAKE i \in 1..Len(list)
  <2>2. HAVE i >= k
  <2>3. k \in 1..Len(list) /\ f[list[k]] > f[t]
    BY <1>1, <1>2, <2>2
  <2>4. f[list[k]] <= f[list[i]]
    BY <1>2, <1>3, <2>2, <2>3 DEF SortedBy
  <2> QED BY <1>3, <2>3, <2>4
<1>6. ASSUME NEW i \in 1..Len(r), NEW j \in 1..Len(r), i < j PROVE f[r[i]] <= f[r[j]]
  <2>1. /\ r[i] = IF i < k THEN list[i] ELSE IF i = k THEN t ELSE list[i - 1]
        /\ r[j] = IF j < k THEN list[j] ELSE IF j = k THEN t ELSE list[j - 1]
    BY <1>1 DEF With
  <2>2. CASE j < k
    <3>1. i \in 1..Len(list) /\ j \in 1..Len(list) /\ i < k
      BY <1>2, <1>6, <2>2
    <3> QED BY <1>6, <2>1, <2>2, <3>1 DEF SortedBy
  <2>3. CASE j = k
    <3>1. i \in 1..Len(list) /\ i < k
      BY <1>2, <1>6, <2>3
    <3> QED BY <1>4, <2>1, <2>3, <3>1
  <2>4. CASE j > k
    <3>1. j - 1 \in 1..Len(list) /\ j - 1 >= k /\ ~ (j < k) /\ j # k
      BY <1>2, <2>4
    <3>2. CASE i < k
      <4>1. i \in 1..Len(list) /\ i < j - 1
        BY <1>2, <3>1, <3>2
      <4> QED BY <2>1, <3>1, <3>2, <4>1 DEF SortedBy
    <3>3. CASE i = k
      BY <1>5, <2>1, <3>1, <3>3
    <3>4. CASE i > k
      <4>1. i - 1 \in 1..Len(list) /\ i - 1 < j - 1 /\ ~ (i < k) /\ i # k
        BY <1>2, <1>6, <3>4
      <4> QED BY <2>1, <3>1, <4>1 DEF SortedBy
    <3> QED BY <1>2, <3>2, <3>3, <3>4
  <2> QED BY <1>2, <2>2, <2>3, <2>4
<1> QED BY <1>6 DEF SortedBy, r

\* So does anything that only takes away.
LEMMA RemovalSorts ==
    ASSUME NEW f, NEW s, NEW r, SortedBy(f, s), InOrderOf(r, s) PROVE SortedBy(f, r)
<1> SUFFICES ASSUME NEW i \in 1..Len(r), NEW j \in 1..Len(r), i < j
             PROVE  f[r[i]] <= f[r[j]]
  BY DEF SortedBy
<1>1. PICK k \in 1..Len(s), l \in 1..Len(s) : k < l /\ s[k] = r[i] /\ s[l] = r[j]
  BY DEF InOrderOf
<1>2. f[s[k]] <= f[s[l]]
  BY <1>1 DEF SortedBy
<1> QED BY <1>1, <1>2

LEMMA OInit == ASSUME TimerAssumption, Init PROVE OInv
<1>1. Listed = {} /\ Len(rt_timer_list) = 0
  BY DEF Init, Listed, Range
<1>2. Stamped = {}
  BY DEF Init, Stamped, Nothing
<1> QED BY <1>1, <1>2 DEF OInv, SortedBy

\* Timers that are left in the list and timeouts that are left set, are as they were.
LEMMA Frame ==
    ASSUME IInv, rt_timer_list' \in Seq(Timers), InOrderOf(rt_timer_list', rt_timer_list),
           Listed' \subseteq Listed, Stamped' \subseteq Stamped, soon' = soon,
           \A t \in Listed' \cup Stamped' : offs'[t] = offs[t] /\ left'[t] = left[t]
    PROVE  OInv'
<1>1. SortedBy(offs', rt_timer_list')
  <2>1. SortedBy(offs, rt_timer_list')
    BY RemovalSorts DEF IInv, OInv
  <2>2. \A i \in 1..Len(rt_timer_list') : rt_timer_list'[i] \in Listed'
    BY LenProperties DEF Listed, Range
  <2> QED BY <2>1, <2>2 DEF SortedBy
<1> QED BY <1>1 DEF IInv, OInv

\* Timers whose timeout is set are in the hands of a thread.
LEMMA StampedIsHeld ==
    ASSUME LInv
    PROVE  /\ Stamped \subseteq live /\ Stamped \subseteq Timers
           /\ \A t \in Stamped : Held(t) /\ t \notin Listed
<1>1. ASSUME NEW t \in Stamped PROVE t \in live /\ Held(t)
  <2>1. PICK c \in Callers : pc[c] = <<"insert", t>>
    BY DEF Stamped
  <2>2. pc[c] # Nothing /\ pc[c][2] = t
    BY <2>1 DEF Nothing
  <2>3. t \in Timers
    BY DEF Stamped
  <2> QED BY <2>1, <2>2 DEF LInv, OnesOwn, Held, Steps
<1> QED BY <1>1 DEF LInv, OnesOwn, Stamped

LEMMA InOrderOfItself == \A s : InOrderOf(s, s)
BY DEF InOrderOf

\* A thread that takes a timer off the list, or stops short of it.
LEMMA OTakes ==
    ASSUME TimerAssumption, Alone, IInv, NEW c \in Callers, NEW t \in Timers,
           Start(c, t) \/ StopRemove(c, t) \/ Delete(c, t)
    PROVE  OInv'
<1>1. /\ rt_timer_list' = RemoveFirst(rt_timer_list, t) /\ left' = [left EXCEPT ![t] = 0]
      /\ UNCHANGED <<live, rt_tick, timeout_tick, isr>>
  BY DEF Start, StopRemove, Delete, TimerRemove
<1>2. /\ rt_timer_list' \in Seq(Timers) /\ InOrderOf(rt_timer_list', rt_timer_list)
      /\ Listed' = Listed \ {t}
  BY <1>1, RemovedFrom DEF IInv, LInv, TypeOK, ListInv, Listed
<1>3. Stamped' \subseteq Stamped /\ t \notin Stamped'
  <2>1. PICK step \in {"stamp", "clear", "delete"} : pc' = [pc EXCEPT ![c] = <<step, t>>]
    BY DEF Start, StopRemove, Delete, Goto
  <2>2. \A d \in Callers : pc'[d] = IF d = c THEN <<step, t>> ELSE pc[d]
    BY <2>1 DEF IInv, LInv, TypeOK
  <2>3. \A u : <<step, t>> # <<"insert", u>>
    BY <2>1
  <2>4. t \in Uses[c] /\ \A d \in Callers \ {c} : pc[d] # Nothing => pc[d][2] # t
    <3>1. t \in Uses[c]
      BY DEF Start, StopRemove, Delete, At, IInv, LInv, OnesOwn, Nothing
    <3> QED BY <3>1 DEF Alone, IInv, LInv, OnesOwn
  <2>5. \A d \in Callers \ {c} : pc[d] # <<"insert", t>>
    <3>1. <<"insert", t>> # Nothing /\ <<"insert", t>>[2] = t
      BY DEF Nothing
    <3> QED BY <2>4, <3>1
  <2> QED BY <2>2, <2>3, <2>5 DEF Stamped
<1>4. /\ soon' = soon /\ offs' = offs
      /\ \A u \in Timers \ {t} : left'[u] = left[u]
  BY <1>1 DEF soon, offs, OffsAt, IInv, LInv, TypeOK
<1>5. Stamped' \subseteq Timers /\ Listed \subseteq Timers
  BY DEF Stamped, IInv, LInv, ListInv, TypeOK
<1> QED BY <1>2, <1>3, <1>4, <1>5, Frame

\* Steps that touch neither a timeout that counts nor the list.
LEMMA OLeaves ==
    ASSUME TimerAssumption, IInv, NEW c \in Callers, NEW t \in Timers,
           \/ Stop(c, t) \/ StopClear(c, t) \/ DeleteObject(c, t)
           \/ \E n \in Times : SetTime(c, t, n)
           \/ \E on \in BOOLEAN : SetPeriodic(c, t, on)
           \/ \E n \in Times, on \in BOOLEAN : Create(c, t, n, on)
    PROVE  OInv'
<1>1. UNCHANGED <<rt_tick, rt_timer_list, isr, left>>
  BY DEF Stop, StopClear, DeleteObject, SetTime, SetPeriodic, Create
<1>2. rt_timer_list' \in Seq(Timers) /\ Listed' = Listed /\ soon' = soon
      /\ InOrderOf(rt_timer_list', rt_timer_list)
  BY <1>1, InOrderOfItself DEF IInv, LInv, TypeOK, Listed, soon
<1>3. Stamped' \subseteq Stamped
  <2>1. PICK where \in {Nothing, <<"remove", t>>} : Goto(c, where) \/ pc' = pc
    BY DEF Stop, StopClear, DeleteObject, SetTime, SetPeriodic, Create
  <2>2. \A d \in Callers : pc'[d] = where \/ pc'[d] = pc[d]
    BY <2>1 DEF Goto, IInv, LInv, TypeOK
  <2>3. \A u : where # <<"insert", u>>
    <3>1. \A u : <<"insert", u>> # Nothing /\ <<"insert", u>> # <<"remove", t>>
      BY DEF Nothing
    <3> QED BY <2>1, <3>1
  <2> QED BY <2>2, <2>3 DEF Stamped
<1>4. \A u \in live : offs'[u] = offs[u]
  <2>1. \A u \in live : u \in Timers /\ timeout_tick'[u] = timeout_tick[u]
    BY DEF Stop, StopClear, DeleteObject, SetTime, SetPeriodic, Create, TimerInit,
           IInv, LInv, TypeOK
  <2> QED BY <1>1, <2>1 DEF offs, OffsAt
<1>5. Stamped \subseteq live /\ Listed \subseteq live
  BY StampedIsHeld DEF IInv, LInv, ListInv
<1> QED BY <1>1, <1>2, <1>3, <1>4, <1>5, Frame

\* A timeout that is set is as far away as the time of the timer says.
LEMMA OStamps ==
    ASSUME TimerAssumption, Room, Alone, IInv, NEW c \in Callers, NEW t \in Timers,
           StartStamp(c, t)
    PROVE  OInv'
<1>1. /\ timeout_tick' = [timeout_tick EXCEPT ![t] = Stamp(t)]
      /\ left' = [left EXCEPT ![t] = init_tick[t]]
      /\ pc[c] = <<"stamp", t>> /\ pc' = [pc EXCEPT ![c] = <<"insert", t>>]
      /\ UNCHANGED <<rt_tick, rt_timer_list, isr>>
  BY DEF StartStamp, At, Goto
<1>2. t \notin Listed /\ Listed' = Listed /\ Listed \subseteq Timers /\ soon' = soon
  <2>1. Held(t)
    BY <1>1 DEF Held, Steps
  <2> QED BY <1>1, <2>1 DEF IInv, LInv, OnesOwn, ListInv, TypeOK, Listed, soon
<1>3. Stamped' \subseteq Stamped \cup {t}
  <2>1. \A d \in Callers : pc'[d] = <<"insert", t>> \/ pc'[d] = pc[d]
    BY <1>1 DEF IInv, LInv, TypeOK
  <2>2. \A u : <<"insert", t>> = <<"insert", u>> => t = u
    OBVIOUS
  <2> QED BY <2>1, <2>2 DEF Stamped
<1>4. /\ \A u \in Timers \ {t} : offs'[u] = offs[u] /\ left'[u] = left[u]
      /\ left'[t] = init_tick[t]
  BY <1>1 DEF offs, OffsAt, IInv, LInv, TypeOK
<1>5. offs'[t] = init_tick[t] /\ init_tick[t] \in 0..Top
  <2>1. init_tick[t] \in Times /\ rt_tick \in 0..TickMod-1 /\ timeout_tick'[t] = Stamp(t)
    BY <1>1 DEF IInv, LInv, TypeOK
  <2>2. init_tick[t] \in 0..Top
    BY <2>1, Sizes
  <2> QED BY <1>1, <2>1, <2>2, OffOf DEF offs, OffsAt, Stamp
<1>6. SortedBy(offs', rt_timer_list')
  <2>1. \A i \in 1..Len(rt_timer_list) : rt_timer_list[i] \in Listed
    BY LenProperties DEF Listed, Range, IInv, LInv, TypeOK
  <2> QED BY <1>1, <1>2, <1>4, <2>1 DEF SortedBy, IInv, OInv
<1>7. \A u \in Listed' : offs'[u] = offs[u] /\ left'[u] = left[u] /\ u \in Listed
  BY <1>2, <1>4
<1>8. init_tick[t] \in -MaxLate..Top
  BY <1>5, Sizes
<1>9. \A u \in Stamped' : offs'[u] \in -MaxLate..Top /\ left'[u] = offs'[u]
  BY <1>3, <1>4, <1>5, <1>8 DEF IInv, OInv, Stamped
<1> QED BY <1>2, <1>6, <1>7, <1>9 DEF IInv, OInv

\* A timer is inserted by its distance.
LEMMA InsertedSorts ==
    ASSUME TimerAssumption, Room, NEW stamp \in [Timers -> 0..TickMod-1],
           NEW tick \in 0..TickMod-1, NEW list \in Seq(Timers), NEW t \in Timers,
           SortedBy(OffsAt(stamp, tick), list), OffsAt(stamp, tick)[t] \in -MaxLate..Top,
           \A i \in 1..Len(list) : OffsAt(stamp, tick)[list[i]] \in -(MaxLate + 1)..Top
    PROVE  SortedBy(OffsAt(stamp, tick), Inserted(list, t, stamp))
<1> DEFINE f == OffsAt(stamp, tick)
<1>1. \A i \in 1..Len(list) : Later(list, t, stamp, i) <=> f[list[i]] > f[t]
  <2>1. TAKE i \in 1..Len(list)
  <2>2. list[i] \in Timers
    BY ElementOfSeq
  <2> QED BY <2>2, Compared DEF Later
<1>2. f \in [Timers -> Int]
  BY OffsType
<1> HIDE DEF f
<1>3. SortedBy(f, list)
  BY DEF f
<1> QED BY <1>1, <1>2, <1>3, InsertSorts DEF f

LEMMA OInserts ==
    ASSUME TimerAssumption, Room, Alone, IInv, NEW c \in Callers, NEW t \in Timers,
           StartInsert(c, t)
    PROVE  OInv'
<1>1. /\ rt_timer_list' = Inserted(rt_timer_list, t, timeout_tick)
      /\ left' = [left EXCEPT ![t] = IF @ > 0 THEN @ ELSE 1]
      /\ isr = Nothing /\ pc[c] = <<"insert", t>> /\ pc' = [pc EXCEPT ![c] = Nothing]
      /\ UNCHANGED <<rt_tick, timeout_tick, isr>>
  BY DEF StartInsert, At, Goto
<1>2. TypeOK /\ rt_timer_list \in Seq(Timers) /\ soon = 1 /\ soon' = 1 /\ offs' = offs
  BY <1>1 DEF IInv, LInv, TypeOK, soon, offs, OffsAt
<1>3. t \in Stamped /\ t \notin Listed
  <2>1. t \in Stamped
    BY <1>1 DEF Stamped
  <2> QED BY <2>1, StampedIsHeld DEF IInv
<1>4. Listed' = Listed \cup {t}
  BY <1>1, <1>2, <1>3, InsertedInto DEF IInv, LInv, ListInv, Listed
<1>5. Stamped' \subseteq Stamped \ {t}
  <2>1. t \in Uses[c] /\ \A d \in Callers \ {c} : pc[d] # Nothing => pc[d][2] # t
    <3>1. pc[c] # Nothing /\ pc[c][2] = t
      BY <1>1 DEF Nothing
    <3>2. t \in Uses[c]
      BY <3>1 DEF IInv, LInv, OnesOwn
    <3> QED BY <3>2 DEF Alone, IInv, LInv, OnesOwn
  <2>2. \A d \in Callers \ {c} : pc'[d] = pc[d] /\ pc[d] # <<"insert", t>>
    <3>1. <<"insert", t>> # Nothing /\ <<"insert", t>>[2] = t
      BY DEF Nothing
    <3> QED BY <1>1, <2>1, <3>1 DEF IInv, LInv, TypeOK
  <2>3. \A u : pc'[c] # <<"insert", u>>
    BY <1>1 DEF Nothing, IInv, LInv, TypeOK
  <2> QED BY <2>2, <2>3 DEF Stamped
<1>6. offs[t] \in -MaxLate..Top /\ left[t] = offs[t]
  BY <1>3 DEF IInv, OInv
<1>7. \A i \in 1..Len(rt_timer_list) :
        rt_timer_list[i] \in Listed /\ offs[rt_timer_list[i]] \in -(MaxLate + 1)..Top
  <2>1. \A i \in 1..Len(rt_timer_list) : rt_timer_list[i] \in Listed
    BY <1>2, LenProperties DEF Listed, Range
  <2>2. \A u \in Listed : offs[u] \in 1 - (MaxLate + 1)..Top
    BY <1>2 DEF IInv, OInv
  <2>3. \A x \in 1 - (MaxLate + 1)..Top : x \in -(MaxLate + 1)..Top
    BY Sizes
  <2> QED BY <2>1, <2>2, <2>3
<1>8. SortedBy(offs, rt_timer_list')
  <2>1. timeout_tick \in [Timers -> 0..TickMod-1] /\ rt_tick \in 0..TickMod-1
    BY <1>2 DEF TypeOK
  <2> QED BY <1>1, <1>2, <1>6, <1>7, <2>1, InsertedSorts DEF IInv, OInv, offs
<1>9. /\ offs[t] \in soon - (MaxLate + 1)..Top
      /\ left'[t] = IF offs[t] > soon THEN offs[t] ELSE soon
  <2>1. left'[t] = IF offs[t] > 0 THEN offs[t] ELSE 1
    BY <1>1, <1>6 DEF IInv, LInv, TypeOK
  <2> QED BY <1>2, <1>6, <2>1, Sizes
<1>10. \A u \in Timers \ {t} : left'[u] = left[u]
  BY <1>1 DEF IInv, LInv, TypeOK
<1>11. \A u \in Listed' : u \in Timers /\ (u = t \/ u \in Listed)
  BY <1>4 DEF IInv, LInv, ListInv, TypeOK
<1>12. \A u \in Stamped' : u \in Timers \ {t} /\ u \in Stamped
  BY <1>5 DEF Stamped
<1> QED BY <1>2, <1>8, <1>9, <1>10, <1>11, <1>12 DEF IInv, OInv

\* The tick takes one from what is left and from the distance alike.
LEMMA OTick ==
    ASSUME TimerAssumption, Room, IInv, Tick PROVE OInv'
<1>1. /\ isr = Nothing /\ isr' = <<"check">> /\ rt_tick' = (rt_tick + 1) % TickMod
      /\ UNCHANGED <<rt_timer_list, timeout_tick, pc>>
      /\ \A t \in Timers : left'[t] = IF t \in Stamped \cup Listed THEN left[t] - 1 ELSE left[t]
      /\ \A t \in Stamped : left[t] > -MaxLate
  BY DEF Tick, Listed
<1>2. /\ soon = 1 /\ soon' = 0 /\ Listed' = Listed /\ Stamped' = Stamped /\ TypeOK
      /\ Listed \subseteq Timers /\ Stamped \subseteq Timers
  <2>1. <<"check">> # Nothing
    BY DEF Nothing
  <2> QED BY <1>1, <2>1 DEF soon, Listed, Stamped, IInv, LInv, ListInv, TypeOK
<1>3. \A t \in Listed : offs[t] \in -MaxLate..Top
  <2>1. \A t \in Listed : offs[t] \in 1 - (MaxLate + 1)..Top
    BY <1>2 DEF IInv, OInv
  <2> QED BY <2>1, Sizes
<1>4. \A t \in Listed \cup Stamped : offs[t] \in -MaxLate..Top /\ offs'[t] = offs[t] - 1
  <2>1. \A t \in Stamped : offs[t] \in -MaxLate..Top
    BY DEF IInv, OInv
  <2> QED BY <1>1, <1>2, <1>3, <2>1, OffsFall
<1>5. SortedBy(offs', rt_timer_list')
  <2>1. \A i \in 1..Len(rt_timer_list) : rt_timer_list[i] \in Listed
    BY LenProperties DEF Listed, Range, IInv, LInv, TypeOK
  <2>2. \A i \in 1..Len(rt_timer_list) :
          /\ offs[rt_timer_list[i]] \in Int
          /\ offs'[rt_timer_list[i]] = offs[rt_timer_list[i]] - 1
    BY <1>4, <2>1
  <2> QED BY <1>1, <2>2 DEF SortedBy, IInv, OInv
<1>6. ASSUME NEW t \in Listed
      PROVE  /\ offs'[t] \in -(MaxLate + 1)..Top
             /\ left'[t] = IF offs'[t] > 0 THEN offs'[t] ELSE 0
  <2>1. left[t] = IF offs[t] > 1 THEN offs[t] ELSE 1
    BY <1>2 DEF IInv, OInv
  <2>2. left'[t] = left[t] - 1
    BY <1>1, <1>2
  <2> QED BY <1>4, <2>1, <2>2, Sizes
<1>7. ASSUME NEW t \in Stamped
      PROVE  offs'[t] \in -MaxLate..Top /\ left'[t] = offs'[t]
  <2>1. left[t] = offs[t] /\ left'[t] = left[t] - 1 /\ left[t] > -MaxLate
    BY <1>1, <1>2 DEF IInv, OInv
  <2> QED BY <1>4, <2>1, Sizes
<1>8. 0 - (MaxLate + 1) = -(MaxLate + 1)
  BY Sizes
<1> QED BY <1>2, <1>5, <1>6, <1>7, <1>8 DEF OInv

\* rt_timer_check ends when the first timer of the list is not due: none is.
LEMMA RestIsNotDue ==
    ASSUME TimerAssumption, Room, IInv, CheckDone
    PROVE  \A t \in Listed : offs[t] \in 1..Top /\ left[t] = offs[t]
<1>1. /\ isr = <<"check">> /\ soon = 0 /\ TypeOK
      /\ rt_timer_list # <<>> => ~ Due(Head(rt_timer_list))
  BY DEF CheckDone, soon, Nothing, IInv, LInv
<1>2. ASSUME NEW t \in Listed PROVE offs[t] \in 1..Top
  <2>1. PICK i \in 1..Len(rt_timer_list) : rt_timer_list[i] = t
    BY LenProperties DEF Listed, Range, IInv, LInv, TypeOK
  <2>2. /\ rt_timer_list # <<>> /\ 1 \in 1..Len(rt_timer_list)
        /\ Head(rt_timer_list) = rt_timer_list[1]
    BY <1>1, <2>1 DEF TypeOK
  <2>3. rt_timer_list[1] \in Listed /\ rt_timer_list[1] \in Timers
    BY <2>2, LenProperties, ElementOfSeq DEF Listed, Range, IInv, LInv, TypeOK
  <2>4. \A u \in Listed : offs[u] \in 0 - (MaxLate + 1)..Top
    BY <1>1 DEF IInv, OInv
  <2>5. offs[rt_timer_list[1]] \in -(MaxLate + 1)..Top
    BY <2>3, <2>4, Sizes
  <2>6. ~ (offs[rt_timer_list[1]] <= 0)
    BY <1>1, <2>2, <2>3, <2>5, DueIs
  <2>7. i = 1 \/ offs[rt_timer_list[1]] <= offs[t]
    <3>1. SortedBy(offs, rt_timer_list)
      BY DEF IInv, OInv
    <3>2. CASE i # 1
      <4>1. 1 < i
        BY <2>1, <3>2
      <4> QED BY <2>1, <2>2, <3>1, <4>1 DEF SortedBy
    <3> QED BY <3>2
  <2>8. /\ offs[t] \in Int /\ offs[t] <= Top /\ offs[rt_timer_list[1]] \in Int
        /\ i = 1 => t = rt_timer_list[1]
    <3>1. offs[t] \in 0 - (MaxLate + 1)..Top
      BY <2>4
    <3>2. MaxLate \in Nat /\ Top \in Nat
      BY Sizes
    <3>3. offs[t] \in Int /\ offs[t] <= Top
      BY <3>1, <3>2
    <3>4. offs[rt_timer_list[1]] \in Int
      BY <2>5, <3>2
    <3> QED BY <2>1, <3>3, <3>4
  <2>9. offs[t] > 0
    BY <2>6, <2>7, <2>8
  <2> QED BY <2>8, <2>9, Sizes
<1>3. ASSUME NEW t \in Listed PROVE left[t] = offs[t]
  <2>1. left[t] = IF offs[t] > 0 THEN offs[t] ELSE 0
    BY <1>1 DEF IInv, OInv
  <2> QED BY <1>2, <2>1, Sizes
<1> QED BY <1>2, <1>3

LEMMA OCheckDone ==
    ASSUME TimerAssumption, Room, IInv, CheckDone PROVE OInv'
<1>1. isr' = Nothing /\ UNCHANGED <<rt_tick, rt_timer_list, timeout_tick, pc, left>>
  BY DEF CheckDone
<1>2. /\ soon' = 1 /\ Listed' = Listed /\ Stamped' = Stamped /\ offs' = offs
      /\ SortedBy(offs, rt_timer_list)
  BY <1>1 DEF soon, Listed, Stamped, offs, OffsAt, IInv, OInv
<1>3. \A t \in Listed : offs[t] \in 1..Top /\ left[t] = offs[t]
  BY RestIsNotDue
<1>4. \A t \in Listed : /\ offs[t] \in 1 - (MaxLate + 1)..Top
                        /\ left[t] = IF offs[t] > 1 THEN offs[t] ELSE 1
  BY <1>3, Sizes
<1> QED BY <1>1, <1>2, <1>4 DEF IInv, OInv

\* What is taken off is due.
LEMMA ExpiredIsDue ==
    ASSUME TimerAssumption, Room, IInv, NEW t \in Timers, Expire(t) PROVE left[t] = 0
<1>1. /\ isr = <<"check">> /\ rt_timer_list # <<>> /\ t = Head(rt_timer_list) /\ Due(t)
      /\ soon = 0 /\ TypeOK
  BY DEF Expire, soon, Nothing, IInv, LInv
<1>2. t \in Listed
  <2>1. 1 \in DOMAIN rt_timer_list /\ t = rt_timer_list[1]
    BY <1>1 DEF TypeOK
  <2> QED BY <2>1 DEF Listed, Range
<1>3. /\ offs[t] \in 0 - (MaxLate + 1)..Top
      /\ left[t] = IF offs[t] > 0 THEN offs[t] ELSE 0
  BY <1>1, <1>2 DEF IInv, OInv
<1>4. offs[t] \in -(MaxLate + 1)..Top
  BY <1>3, Sizes
<1>5. offs[t] <= 0
  BY <1>1, <1>4, DueIs
<1> QED BY <1>3, <1>4, <1>5, Sizes

LEMMA OExpire ==
    ASSUME TimerAssumption, IInv, NEW t \in Timers, Expire(t) PROVE OInv'
<1>1. /\ isr = <<"check">> /\ isr' = <<"called", t>>
      /\ UNCHANGED <<rt_tick, timeout_tick, pc>>
      /\ rt_timer_list' = RemoveFirst(rt_timer_list, t) /\ left' = [left EXCEPT ![t] = 0]
  BY DEF Expire, TimerRemove
<1>2. /\ rt_timer_list' \in Seq(Timers) /\ InOrderOf(rt_timer_list', rt_timer_list)
      /\ Listed' = Listed \ {t}
  BY <1>1, RemovedFrom DEF IInv, LInv, TypeOK, ListInv, Listed
<1>3. soon' = soon /\ offs' = offs /\ Stamped' = Stamped
  <2>1. <<"check">> # Nothing /\ <<"called", t>> # Nothing
    BY DEF Nothing
  <2> QED BY <1>1, <2>1 DEF soon, offs, OffsAt, Stamped
<1>4. t \notin Stamped
  <2>1. rt_timer_list # <<>> /\ t = Head(rt_timer_list) /\ rt_timer_list \in Seq(Timers)
    BY DEF Expire, IInv, LInv, TypeOK
  <2>2. 1 \in DOMAIN rt_timer_list /\ t = rt_timer_list[1]
    BY <2>1
  <2>3. t \in Listed
    BY <2>2 DEF Listed, Range
  <2> QED BY <2>3, StampedIsHeld DEF IInv
<1>5. \A u \in Timers \ {t} : left'[u] = left[u]
  BY <1>1 DEF IInv, LInv, TypeOK
<1>6. Stamped \subseteq Timers /\ Listed \subseteq Timers
  BY DEF Stamped, IInv, LInv, ListInv, TypeOK
<1> QED BY <1>2, <1>3, <1>4, <1>5, <1>6, Frame

\* A timer that the interrupt starts goes where its time says.
LEMMA OStartMasked ==
    ASSUME TimerAssumption, Room, IInv, NEW t \in live, StartMasked(t), ~ Held(t),
           isr # Nothing, isr' # Nothing, UNCHANGED <<rt_tick, init_tick, pc>>
    PROVE  OInv'
<1> DEFINE r == RemoveFirst(rt_timer_list, t)
<1>1. /\ timeout_tick' = [timeout_tick EXCEPT ![t] = Stamp(t)]
      /\ rt_timer_list' = Inserted(r, t, timeout_tick')
      /\ left' = [left EXCEPT ![t] = init_tick[t]]
      /\ UNCHANGED <<rt_tick, pc>>
  BY DEF StartMasked
<1>2. t \in Timers /\ TypeOK /\ soon = 0 /\ soon' = 0 /\ Stamped' = Stamped
      /\ Listed \subseteq Timers /\ Stamped \subseteq Timers
  BY DEF soon, Stamped, IInv, LInv, ListInv, TypeOK
<1>3. /\ r \in Seq(Timers) /\ IsInjective(r) /\ Range(r) = Listed \ {t}
      /\ InOrderOf(r, rt_timer_list)
  BY RemovedFrom DEF IInv, LInv, TypeOK, ListInv, Listed
<1> HIDE DEF r
<1>4. Listed' = Listed \cup {t}
  BY <1>2, StartMaskedGives DEF IInv
<1>5. t \notin Stamped
  BY StampedIsHeld DEF IInv
<1>6. offs'[t] = init_tick[t] /\ init_tick[t] \in 0..Top /\ left'[t] = init_tick[t]
  <2>1. init_tick[t] \in Times /\ rt_tick \in 0..TickMod-1 /\ timeout_tick'[t] = Stamp(t)
    BY <1>1, <1>2 DEF TypeOK
  <2>2. init_tick[t] \in 0..Top
    BY <2>1, Sizes
  <2>3. offs'[t] = init_tick[t]
    BY <1>1, <1>2, <2>1, <2>2, OffOf DEF offs, OffsAt, Stamp
  <2> QED BY <1>1, <1>2, <2>2, <2>3 DEF TypeOK
<1>7. \A u \in Timers \ {t} : offs'[u] = offs[u] /\ left'[u] = left[u]
  BY <1>1, <1>2 DEF offs, OffsAt, TypeOK
<1>8. \A i \in 1..Len(r) : r[i] \in Listed \ {t}
  BY <1>3, LenProperties DEF Range
<1>9. SortedBy(offs', r)
  <2>1. SortedBy(offs, r)
    BY <1>3, RemovalSorts DEF IInv, OInv
  <2>2. \A i \in 1..Len(r) : offs'[r[i]] = offs[r[i]]
    BY <1>2, <1>7, <1>8
  <2> QED BY <2>1, <2>2 DEF SortedBy
<1>10. \A u \in Listed \ {t} : offs'[u] \in -(MaxLate + 1)..Top
  <2>1. \A u \in Listed : offs[u] \in 0 - (MaxLate + 1)..Top
    BY <1>2 DEF IInv, OInv
  <2> QED BY <1>2, <1>7, <2>1, Sizes
<1>11. SortedBy(offs', rt_timer_list')
  <2>1. timeout_tick' \in [Timers -> 0..TickMod-1] /\ rt_tick' \in 0..TickMod-1
    BY <1>1, <1>2, StartMaskedGives DEF IInv, TypeOK
  <2>2. offs'[t] \in -MaxLate..Top
    BY <1>6, Sizes
  <2>3. \A i \in 1..Len(r) : offs'[r[i]] \in -(MaxLate + 1)..Top
    BY <1>8, <1>10
  <2>4. offs' = OffsAt(timeout_tick', rt_tick')
    BY DEF offs
  <2> QED BY <1>1, <1>2, <1>3, <1>9, <2>1, <2>2, <2>3, <2>4, InsertedSorts
<1>12. \A u \in Listed' : /\ offs'[u] \in 0 - (MaxLate + 1)..Top
                          /\ left'[u] = IF offs'[u] > 0 THEN offs'[u] ELSE 0
  <2>1. \A u \in Listed \ {t} : left[u] = IF offs[u] > 0 THEN offs[u] ELSE 0
    BY <1>2 DEF IInv, OInv
  <2>2. 0 - (MaxLate + 1) = -(MaxLate + 1) /\ 0..Top \subseteq -(MaxLate + 1)..Top
    BY Sizes
  <2> QED BY <1>2, <1>4, <1>6, <1>7, <1>10, <2>1, <2>2
<1>13. \A u \in Stamped : u # t /\ offs'[u] \in -MaxLate..Top /\ left'[u] = offs'[u]
  BY <1>2, <1>5, <1>7 DEF IInv, OInv
<1> QED BY <1>2, <1>11, <1>12, <1>13 DEF OInv

LEMMA OCallback ==
    ASSUME TimerAssumption, Room, Alone, IInv, NEW t \in Timers, NEW u \in Timers,
           Callback(t, u)
    PROVE  OInv'
<1>1. /\ UNCHANGED <<rt_tick, init_tick, pc>>
      /\ isr = <<"called", t>> /\ isr' = <<"returned", t>>
      /\ u \in live /\ u \in Restarts[t] /\ StartMasked(u)
  BY DEF Callback
<1>2. ~ Held(u)
  <2>1. \A c \in Callers : u \notin Uses[c]
    BY <1>1 DEF Alone
  <2> QED BY <2>1 DEF Held, IInv, LInv, OnesOwn, Nothing
<1>3. isr # Nothing /\ isr' # Nothing
  BY <1>1 DEF Nothing
<1> QED BY <1>1, <1>2, <1>3, OStartMasked

LEMMA ORestart ==
    ASSUME TimerAssumption, Room, IInv, NEW t \in Timers, Restart(t) PROVE OInv'
<1>1. /\ UNCHANGED <<rt_tick, init_tick, pc>>
      /\ isr \in {<<"called", t>>, <<"returned", t>>} /\ isr' = <<"check">>
  BY DEF Restart
<1>2. isr # Nothing /\ isr' # Nothing
  BY <1>1 DEF Nothing
<1>3. t \in live /\ ~ Held(t)
  <2>1. Called(t)
    BY <1>1 DEF Called, Calls
  <2> QED BY <2>1 DEF IInv, LInv, OnesOwn
<1>4. CASE t \in periodic /\ t \in activated
  <2>1. StartMasked(t)
    BY <1>4 DEF Restart
  <2> QED BY <1>1, <1>2, <1>3, <2>1, OStartMasked
<1>5. CASE ~ (t \in periodic /\ t \in activated)
  <2>1. UNCHANGED <<rt_timer_list, timeout_tick, left>>
    BY <1>5 DEF Restart
  <2>2. soon' = soon /\ Listed' = Listed /\ Stamped' = Stamped /\ offs' = offs
    BY <1>1, <1>2, <2>1 DEF soon, Listed, Stamped, offs
  <2> QED BY <2>1, <2>2 DEF IInv, OInv
<1> QED BY <1>4, <1>5

-----------------------------------------------------------------------------
(* The properties.                                                         *)

LEMMA ONext ==
    ASSUME TimerAssumption, Room, Alone, IInv, [Next]_vars PROVE IInv'
<1>1. LInv'
  BY LNext DEF IInv
<1>2. OInv'
  <2>1. CASE Tick
    BY <2>1, OTick
  <2>2. CASE Check
    BY <2>2, OCheckDone, OExpire, OCallback, ORestart DEF Check
  <2>3. ASSUME NEW c \in Callers, CallerStep(c) PROVE OInv'
    <3>1. PICK t \in Timers :
            \/ Start(c, t) \/ StopRemove(c, t) \/ Delete(c, t)
            \/ StartStamp(c, t)
            \/ StartInsert(c, t)
            \/ Stop(c, t) \/ StopClear(c, t) \/ DeleteObject(c, t)
            \/ \E n \in Times : SetTime(c, t, n)
            \/ \E on \in BOOLEAN : SetPeriodic(c, t, on)
            \/ \E n \in Times, on \in BOOLEAN : Create(c, t, n, on)
      BY <2>3 DEF CallerStep
    <3> QED BY <3>1, OTakes, OStamps, OInserts, OLeaves
  <2>4. CASE UNCHANGED vars
    <3>1. /\ rt_timer_list' = rt_timer_list /\ left' = left
          /\ soon' = soon /\ Listed' = Listed /\ Stamped' = Stamped /\ offs' = offs
      BY <2>4 DEF vars, soon, Listed, Stamped, offs
    <3> QED BY <3>1 DEF IInv, OInv
  <2> QED BY <2>1, <2>2, <2>3, <2>4 DEF Next
<1> QED BY <1>1, <1>2 DEF IInv

LEMMA OEnough ==
    ASSUME TimerAssumption, Room, IInv PROVE InOrderOfTimeout
<1> SUFFICES ASSUME NEW i \in DOMAIN rt_timer_list, NEW j \in DOMAIN rt_timer_list, i < j
             PROVE  left[rt_timer_list[i]] <= left[rt_timer_list[j]]
  BY DEF InOrderOfTimeout
<1> DEFINE t == rt_timer_list[i]
           u == rt_timer_list[j]
<1>1. t \in Listed /\ u \in Listed
  BY DEF Listed, Range
<1>2. offs[t] <= offs[u]
  BY LenProperties DEF IInv, OInv, SortedBy, LInv, TypeOK
<1> HIDE DEF t, u
<1>3. /\ left[t] = IF offs[t] > soon THEN offs[t] ELSE soon
      /\ left[u] = IF offs[u] > soon THEN offs[u] ELSE soon
  BY <1>1 DEF IInv, OInv
<1>4. offs[t] \in Int /\ offs[u] \in Int /\ soon \in Int
  <2>1. soon \in Int
    BY DEF soon
  <2>2. offs[t] \in soon - (MaxLate + 1)..Top /\ offs[u] \in soon - (MaxLate + 1)..Top
    BY <1>1 DEF IInv, OInv
  <2> QED BY <2>1, <2>2
<1>5. left[t] <= left[u]
  BY <1>2, <1>3, <1>4
<1> QED BY <1>5 DEF t, u

\* For any timers, threads and lengths of the tick: no timer is twice in the
\* list, none that was deleted is in it, and the flag of one that nobody is at
\* work on tells whether it is, as long as no two threads share a timer.
THEOREM ListIsExactHolds ==
    ASSUME TimerAssumption, Alone PROVE Spec => []ListIsExact
<1>1. Init => LInv
  BY LInit
<1>2. LInv /\ [Next]_vars => LInv'
  BY LNext
<1> QED BY <1>1, <1>2, LEnough, PTL DEF Spec

\* The insertion of rt_timer_start keeps the list in the order in which timers
\* are due, wherever the tick wraps and however long a start was preempted up to
\* MaxLate ticks.
THEOREM InOrderOfTimeoutHolds ==
    ASSUME TimerAssumption, Room, Alone PROVE Spec => []InOrderOfTimeout
<1>1. Init => IInv
  BY LInit, OInit DEF IInv
<1>2. IInv /\ [Next]_vars => IInv'
  BY ONext
<1>3. IInv => InOrderOfTimeout
  BY OEnough
<1> QED BY <1>1, <1>2, <1>3, PTL DEF Spec

\* rt_timer_check takes a timer off the list in the tick it is due in, and stops
\* at one that is not due only when none after it is.
THEOREM OnTimeHolds ==
    ASSUME TimerAssumption, Room, Alone PROVE Spec => OnTime
<1>1. Init => IInv
  BY LInit, OInit DEF IInv
<1>2. IInv /\ [Next]_vars => IInv'
  BY ONext
<1>3. IInv => /\ \A t \in Timers : Expire(t) => left[t] = 0
              /\ CheckDone => \A t \in Range(rt_timer_list) : left[t] > 0
  <2>1. IInv => \A t \in Timers : Expire(t) => left[t] = 0
    BY ExpiredIsDue
  <2>2. ASSUME IInv, CheckDone PROVE \A t \in Range(rt_timer_list) : left[t] > 0
    <3>1. \A t \in Listed : offs[t] \in 1..Top /\ left[t] = offs[t]
      BY <2>2, RestIsNotDue
    <3> QED BY <3>1, Sizes DEF Listed
  <2> QED BY <2>1, <2>2
<1> QED BY <1>1, <1>2, <1>3, PTL DEF Spec, OnTime
=============================================================================
