--------------------------- MODULE Devices_proofs ---------------------------
(***************************************************************************)
(* What holds of the containers and the devices for every set of threads,  *)
(* objects and names, every class and every application.                   *)
(*                                                                         *)
(* 1. The lists.  An object is between its insertion and its removal, or   *)
(* at most one thread is at work on it.                                    *)
(*                                                                         *)
(* 2. The listings.  What is in the list all the time is shown, waits in   *)
(* the batch, or is behind the object that the walk goes on from.          *)
(*                                                                         *)
(* 3. The opens.  The count of a device is the sum of the opens of the     *)
(* threads, with one for the shell, which has two devices open while it    *)
(* goes over, and one for the console, which may have none open that it    *)
(* names: what it closes then is counted once too little (robbed).         *)
(*                                                                         *)
(* 4. The input.  The device of the shell indicates what it receives while *)
(* the shell waits.                                                        *)
(***************************************************************************)
EXTENDS Devices, TLAPS, SequenceTheorems, FiniteSetTheorems, WellFoundedInduction

-----------------------------------------------------------------------------
(* Where threads are.                                                      *)

\* At work on an object, at a listing.
Working == {"insert", "remove", "free"}
Viewing == {"get", "show", "print", "listed", "wild"}

\* At a label a thread is at an object or at none, and its call has the ends it
\* can have.
Place(l, o, then) ==
    \/ l \in {"ready", "wait"} /\ o = Nobody /\ then = "ready"
    \/ l = "insert" /\ o \in Objs /\ then \in {"ready", "fields"}
                     /\ (then = "fields" => o \in Devs)
    \/ l = "remove" /\ o \in Objs /\ then \in {"ready", "free"}
    \/ l = "free" /\ o \in Objs /\ then = "ready"
    \/ l = "print" /\ o \in Objs /\ then \in Classes
    \/ l \in Viewing \ {"print"} /\ o = Nobody /\ then \in Classes
    \/ l \in {"open", "count"} /\ o \in Devs /\ then \in {"ready", "swap", "console"}
    \/ l = "close" /\ o \in Devs /\ then \in {"ready", "quiet", "reopen"}
    \/ /\ l \in {"fields", "write", "swap", "quiet", "take", "indicate", "reopen",
                 "console"}
       /\ o \in Devs /\ then = "ready"

PcOK ==
    /\ DOMAIN pc = Threads
    /\ \A t \in Threads : Place(pc[t].at, pc[t].obj, pc[t].then)

DataOK ==
    /\ type \in [Objs -> Classes \cup {"none"}]
    /\ object_list \in [Classes -> Seq(Objs)]
    /\ console \in Devs \cup {Nobody} /\ input \in Devs \cup {Nobody}

ViewOK ==
    /\ cursor \in [Threads -> Objs \cup {Nobody}] /\ batch \in [Threads -> Seq(Objs)]
    /\ shown \in [Threads -> SUBSET Objs] /\ there \in [Threads -> SUBSET Objs]
    /\ cut \subseteq Threads

TypeInv == PcOK /\ DataOK /\ ViewOK

\* A thread goes from one place to another.
LEMMA Moves ==
    ASSUME PcOK, NEW t \in Threads, NEW l, NEW o, NEW then, Goto(t, l, o, then),
           l = "ready" \/ Place(l, o, then), l = "ready" => then = "ready"
    PROVE  /\ PcOK'
           /\ pc'[t] = [at |-> l, obj |-> IF l = "ready" THEN Nobody ELSE o, then |-> then]
           /\ \A u \in Threads \ {t} : pc'[u] = pc[u]
<1>1. /\ DOMAIN pc' = Threads
      /\ pc'[t] = [at |-> l, obj |-> IF l = "ready" THEN Nobody ELSE o, then |-> then]
      /\ \A u \in Threads \ {t} : pc'[u] = pc[u]
  BY DEF PcOK, Goto
<1>2. Place(pc'[t].at, pc'[t].obj, pc'[t].then)
  BY <1>1 DEF Place
<1>3. \A u \in Threads : Place(pc'[u].at, pc'[u].obj, pc'[u].then)
  BY <1>1, <1>2 DEF PcOK
<1> QED BY <1>1, <1>3 DEF PcOK

\* The same, field by field.
LEMMA MovesTo ==
    ASSUME PcOK, NEW t \in Threads, NEW l, NEW o, NEW then, Goto(t, l, o, then),
           l # "ready", Place(l, o, then)
    PROVE  /\ PcOK' /\ pc'[t].at = l /\ pc'[t].obj = o /\ pc'[t].then = then
           /\ \A u \in Threads \ {t} : pc'[u] = pc[u]
<1>1. /\ PcOK'
      /\ pc'[t] = [at |-> l, obj |-> IF l = "ready" THEN Nobody ELSE o, then |-> then]
      /\ \A u \in Threads \ {t} : pc'[u] = pc[u]
  BY Moves
<1> QED BY <1>1

LEMMA MovesReady ==
    ASSUME PcOK, NEW t \in Threads, NEW o, Goto(t, "ready", o, "ready")
    PROVE  /\ PcOK' /\ pc'[t].at = "ready" /\ pc'[t].obj = Nobody
           /\ \A u \in Threads \ {t} : pc'[u] = pc[u]
<1>1. /\ PcOK'
      /\ pc'[t] = [at |-> "ready", obj |-> Nobody, then |-> "ready"]
      /\ \A u \in Threads \ {t} : pc'[u] = pc[u]
  BY Moves
<1> QED BY <1>1

\* What a step on devices means for the containers and the listings: nothing.
Elsewhere(t) ==
    /\ UNCHANGED <<containers, listings>>
    /\ At(t, "ready") \/ pc[t].at \notin Working \cup Viewing
    /\ \/ UNCHANGED pc
       \/ \E l, o, then : /\ Goto(t, l, o, then)
                          /\ l = "ready" \/ Place(l, o, then)
                          /\ l = "ready" => then = "ready"
                          /\ l \notin Working \cup Viewing

\* Registration and its end are about containers.
Registers(t) ==
    /\ At(t, "ready")
    /\ \E d \in Devs : \/ \E n \in Names : InitObject(t, d, n, "fields")
                       \/ EndObject(t, d, "ready")
    /\ UNCHANGED <<console, input>>

LEMMA ActivateGoes ==
    ASSUME NEW t \in Threads, NEW d \in Devs, NEW l, NEW then, NEW failed,
           l = "ready" \/ Place(l, d, then), l = "ready" => then = "ready",
           failed = "ready" \/ Place(failed, d, "ready"),
           l \notin Working \cup Viewing, failed \notin Working \cup Viewing,
           Activate(t, d, l, then, failed)
    PROVE  \E k, o, th : /\ Goto(t, k, o, th)
                         /\ k = "ready" \/ Place(k, o, th)
                         /\ k = "ready" => th = "ready"
                         /\ k \notin Working \cup Viewing
<1>1. Goto(t, l, d, then) \/ Goto(t, failed, d, "ready")
  BY DEF Activate
<1> QED BY <1>1

\* The same of the calls of one thread, one after the other.
LEMMA OpeningIsElsewhere ==
    ASSUME TypeInv, NEW t \in Threads,
           \/ RegisterFields(t) \/ OpenRefused(t) \/ OpenDriver(t) \/ Count(t)
           \/ CloseDriver(t) \/ OpenConsole(t)
           \/ \E d \in Devs : DeviceInit(t, d) \/ Open(t, d) \/ Close(t, d)
    PROVE  Elsewhere(t) /\ UNCHANGED <<console, input>>
<1> DEFINE here == pc[t].obj
           then == pc[t].then
<1>0. Place(pc[t].at, here, then)
  BY DEF TypeInv, PcOK
<1>1. CASE RegisterFields(t)
  BY <1>1 DEF RegisterFields, Ready, Elsewhere, At, Working, Viewing, shell
<1>2. CASE OpenRefused(t)
  <2>1. then \in {"ready", "swap", "console"} /\ here \in Devs
    BY <1>0, <1>2 DEF OpenRefused, At, Place, Viewing
  <2>2. Goto(t, "ready", Nobody, "ready") \/ Goto(t, "console", here, "ready")
    BY <1>2 DEF OpenRefused, Ready, Return
  <2> QED BY <1>2, <2>1, <2>2 DEF OpenRefused, Elsewhere, At, Working, Viewing, shell, Place
<1>3. CASE OpenDriver(t)
  <2>1. then \in {"ready", "swap", "console"} /\ here \in Devs
    BY <1>0, <1>3 DEF OpenDriver, At, Place, Viewing
  <2>2. Goto(t, "count", here, then)
    BY <1>3 DEF OpenDriver
  <2> QED BY <1>3, <2>1, <2>2 DEF OpenDriver, Elsewhere, At, Working, Viewing, shell, Place
<1>4. CASE Count(t)
  <2>1. then \in {"ready", "swap", "console"} /\ here \in Devs
    BY <1>0, <1>4 DEF Count, At, Place, Viewing
  <2>2. Goto(t, then, here, "ready")
    BY <1>4 DEF Count, Return
  <2>3. (then = "ready" \/ Place(then, here, "ready")) /\ then \notin Working \cup Viewing
    BY <2>1 DEF Place, Working, Viewing
  <2> QED BY <1>4, <2>2, <2>3 DEF Count, Elsewhere, At, Working, Viewing, shell
<1>5. CASE CloseDriver(t)
  <2>1. then \in {"ready", "quiet", "reopen"} /\ here \in Devs
    BY <1>0, <1>5 DEF CloseDriver, At, Place, Viewing
  <2>2. Goto(t, then, here, "ready")
    BY <1>5 DEF CloseDriver, Return
  <2>3. (then = "ready" \/ Place(then, here, "ready")) /\ then \notin Working \cup Viewing
    BY <2>1 DEF Place, Working, Viewing
  <2> QED BY <1>5, <2>2, <2>3 DEF CloseDriver, Elsewhere, At, Working, Viewing, shell
<1>6. CASE OpenConsole(t)
  <2>1. here \in Devs
    BY <1>0, <1>6 DEF OpenConsole, At, Place, Viewing
  <2>2. /\ Activate(t, here, "open", "console", "console") /\ Place("open", here, "console")
        /\ Place("console", here, "ready")
    BY <1>6, <2>1 DEF OpenConsole, Place
  <2>3. \E k, o, th : /\ Goto(t, k, o, th)
                      /\ k = "ready" \/ Place(k, o, th)
                      /\ k = "ready" => th = "ready"
                      /\ k \notin Working \cup Viewing
    BY <2>1, <2>2, ActivateGoes DEF Working, Viewing
  <2> QED BY <1>6, <2>3 DEF OpenConsole, Elsewhere, At, Working, Viewing, shell
<1>7. ASSUME NEW d \in Devs, DeviceInit(t, d)
      PROVE  Elsewhere(t) /\ UNCHANGED <<console, input>>
  <2>1. \E k, o, th : /\ Goto(t, k, o, th)
                      /\ k = "ready" \/ Place(k, o, th)
                      /\ k = "ready" => th = "ready"
                      /\ k \notin Working \cup Viewing
    BY <1>7, ActivateGoes DEF DeviceInit, Working, Viewing
  <2> QED BY <1>7, <2>1 DEF DeviceInit, Elsewhere, At, shell
<1>8. ASSUME NEW d \in Devs, Open(t, d)
      PROVE  Elsewhere(t) /\ UNCHANGED <<console, input>>
  <2>1. Activate(t, d, "open", "ready", "ready") /\ Place("open", d, "ready")
    BY <1>8 DEF Open, Place
  <2>2. \E k, o, th : /\ Goto(t, k, o, th)
                      /\ k = "ready" \/ Place(k, o, th)
                      /\ k = "ready" => th = "ready"
                      /\ k \notin Working \cup Viewing
    BY <2>1, ActivateGoes DEF Working, Viewing
  <2> QED BY <1>8, <2>2 DEF Open, Elsewhere, At, shell
<1>9. ASSUME NEW d \in Devs, Close(t, d)
      PROVE  Elsewhere(t) /\ UNCHANGED <<console, input>>
  <2>1. Goto(t, "close", d, "ready") \/ UNCHANGED pc
    BY <1>9 DEF Close
  <2>2. Place("close", d, "ready")
    BY DEF Place
  <2> QED BY <1>9, <2>1, <2>2 DEF Close, Elsewhere, At, Working, Viewing, shell
<1> QED BY <1>1, <1>2, <1>3, <1>4, <1>5, <1>6, <1>7, <1>8, <1>9

LEMMA ConsoleIsElsewhere ==
    ASSUME TypeInv, NEW t \in Threads,
           \/ NewConsole(t) \/ Kprintf(t) \/ KprintfEnd(t)
           \/ \E d \in Devs : SetConsole(t, d)
    PROVE  Elsewhere(t) /\ (console \in Devs \cup {Nobody})' /\ UNCHANGED input
<1> DEFINE here == pc[t].obj
<1>0. Place(pc[t].at, here, pc[t].then)
  BY DEF TypeInv, PcOK
<1>1. CASE NewConsole(t)
  <2>1. here \in Devs
    BY <1>0, <1>1 DEF NewConsole, At, Place, Viewing
  <2> QED BY <1>1, <2>1 DEF NewConsole, Ready, Elsewhere, At, Working, Viewing
<1>2. CASE Kprintf(t)
  <2>1. Goto(t, "write", console, "ready") /\ UNCHANGED <<console, input>>
    BY <1>2 DEF Kprintf
  <2>2. console \in Devs
    BY <1>2 DEF Kprintf, TypeInv, DataOK
  <2>3. Place("write", console, "ready")
    BY <2>2 DEF Place
  <2> QED BY <1>2, <2>1, <2>2, <2>3 DEF Kprintf, Elsewhere, At, Working, Viewing
<1>3. CASE KprintfEnd(t)
  BY <1>3 DEF KprintfEnd, Ready, Elsewhere, At, Working, Viewing, TypeInv, DataOK
<1>4. ASSUME NEW d \in Devs, SetConsole(t, d)
      PROVE  Elsewhere(t) /\ (console \in Devs \cup {Nobody})' /\ UNCHANGED input
  <2>1. Goto(t, "reopen", d, "ready") \/ Goto(t, "close", d, "reopen")
    BY <1>4 DEF SetConsole
  <2>2. Place("reopen", d, "ready") /\ Place("close", d, "reopen")
    BY DEF Place
  <2>3. \E k, o, th : /\ Goto(t, k, o, th)
                      /\ k = "ready" \/ Place(k, o, th)
                      /\ k = "ready" => th = "ready"
                      /\ k \notin Working \cup Viewing
    BY <2>1, <2>2 DEF Working, Viewing
  <2>4. UNCHANGED <<containers, listings, console, input>> /\ At(t, "ready")
    BY <1>4 DEF SetConsole, shell
  <2> QED BY <2>3, <2>4 DEF Elsewhere, TypeInv, DataOK
<1> QED BY <1>1, <1>2, <1>3, <1>4

LEMMA InputIsElsewhere ==
    ASSUME TypeInv, NEW t \in Threads,
           \/ CloseOld(t) \/ Quiet(t) \/ TakeDevice(t) \/ Indicate(t)
           \/ Getchar(t) \/ Woken(t) \/ \E d \in Devs : SetDevice(t, d)
    PROVE  Elsewhere(t) /\ (input \in Devs \cup {Nobody})' /\ UNCHANGED console
<1> DEFINE here == pc[t].obj
<1>0. Place(pc[t].at, here, pc[t].then) /\ input \in Devs \cup {Nobody}
  BY DEF TypeInv, PcOK, DataOK
<1>1. CASE CloseOld(t)
  <2>1. here \in Devs
    BY <1>0, <1>1 DEF CloseOld, At, Place, Viewing
  <2>2. \/ Goto(t, "take", here, "ready") \/ Goto(t, "close", here, "quiet")
        \/ Goto(t, "quiet", here, "ready")
    BY <1>1 DEF CloseOld, Uncount
  <2>3. /\ Place("take", here, "ready") /\ Place("close", here, "quiet")
        /\ Place("quiet", here, "ready")
    BY <2>1 DEF Place
  <2>4. \E k, o, th : /\ Goto(t, k, o, th)
                      /\ k = "ready" \/ Place(k, o, th)
                      /\ k = "ready" => th = "ready"
                      /\ k \notin Working \cup Viewing
    BY <2>2, <2>3 DEF Working, Viewing
  <2>5. UNCHANGED <<containers, listings, console, input>> /\ At(t, "swap")
    BY <1>1 DEF CloseOld, Uncount, shell
  <2> QED BY <1>0, <2>4, <2>5 DEF Elsewhere, At, Working, Viewing
<1>2. CASE Quiet(t)
  <2>1. here \in Devs
    BY <1>0, <1>2 DEF Quiet, At, Place, Viewing
  <2>2. Goto(t, "take", here, "ready") /\ Place("take", here, "ready")
    BY <1>2, <2>1 DEF Quiet, Place
  <2> QED BY <1>0, <1>2, <2>2 DEF Quiet, Elsewhere, At, Working, Viewing
<1>3. CASE TakeDevice(t)
  <2>1. here \in Devs
    BY <1>0, <1>3 DEF TakeDevice, At, Place, Viewing
  <2>2. Goto(t, "indicate", here, "ready") /\ Place("indicate", here, "ready")
    BY <1>3, <2>1 DEF TakeDevice, Place
  <2> QED BY <1>3, <2>1, <2>2 DEF TakeDevice, Elsewhere, At, Working, Viewing
<1>4. CASE Indicate(t) \/ Woken(t)
  BY <1>0, <1>4 DEF Indicate, Woken, Ready, Elsewhere, At, Working, Viewing
<1>5. CASE Getchar(t)
  <2>1. Place("wait", Nobody, "ready")
    BY DEF Place
  <2> QED BY <1>0, <1>5, <2>1 DEF Getchar, Elsewhere, At, Working, Viewing
<1>6. ASSUME NEW d \in Devs, SetDevice(t, d)
      PROVE  Elsewhere(t) /\ (input \in Devs \cup {Nobody})' /\ UNCHANGED console
  <2>1. Activate(t, d, "open", "swap", "ready") /\ Place("open", d, "swap")
    BY <1>6 DEF SetDevice, Place
  <2>2. \E k, o, th : /\ Goto(t, k, o, th)
                      /\ k = "ready" \/ Place(k, o, th)
                      /\ k = "ready" => th = "ready"
                      /\ k \notin Working \cup Viewing
    BY <2>1, ActivateGoes DEF Working, Viewing
  <2> QED BY <1>0, <1>6, <2>2 DEF SetDevice, Elsewhere, At, shell
<1> QED BY <1>1, <1>2, <1>3, <1>4, <1>5, <1>6

LEMMA DeviceStepIs ==
    ASSUME TypeInv, NEW t \in Threads, DeviceStep(t)
    PROVE  /\ Elsewhere(t) \/ Registers(t)
           /\ (console \in Devs \cup {Nobody})' /\ (input \in Devs \cup {Nobody})'
<1>0. console \in Devs \cup {Nobody} /\ input \in Devs \cup {Nobody}
  BY DEF TypeInv, DataOK
<1>1. CASE \/ RegisterFields(t) \/ OpenRefused(t) \/ OpenDriver(t) \/ Count(t)
           \/ CloseDriver(t) \/ OpenConsole(t)
           \/ \E d \in Devs : DeviceInit(t, d) \/ Open(t, d) \/ Close(t, d)
  BY <1>0, <1>1, OpeningIsElsewhere
<1>2. CASE \/ NewConsole(t) \/ Kprintf(t) \/ KprintfEnd(t)
           \/ \E d \in Devs : SetConsole(t, d)
  BY <1>0, <1>2, ConsoleIsElsewhere
<1>3. CASE \/ CloseOld(t) \/ Quiet(t) \/ TakeDevice(t) \/ Indicate(t)
           \/ Getchar(t) \/ Woken(t) \/ \E d \in Devs : SetDevice(t, d)
  BY <1>0, <1>3, InputIsElsewhere
<1>4. ASSUME NEW d \in Devs, Unregister(t, d) \/ \E n \in Names : Register(t, d, n)
      PROVE  Registers(t)
  BY <1>4 DEF Unregister, Register, Registers, shell, Devs
<1>5. Registers(t) => UNCHANGED <<console, input>>
  BY DEF Registers
<1> QED BY <1>0, <1>1, <1>2, <1>3, <1>4, <1>5 DEF DeviceStep

-----------------------------------------------------------------------------
(* Sequences.                                                              *)

\* A set of numbers with an element has a least one.
LEMMA HasLeast ==
    ASSUME NEW S \in SUBSET Nat, S # {}
    PROVE  /\ Min(S) \in S
           /\ \A y \in S : Min(S) <= y
<1>1. PICK x \in S : \A y \in S : ~ (<<y, x>> \in OpToRel(<, Nat))
  BY NatLessThanWellFounded, WFMin
<1>2. \A y \in S : ~ (y < x)
  BY <1>1 DEF OpToRel
<1>3. \A y \in S : x <= y
  BY <1>2
<1> QED BY <1>3 DEF Min

\* Where an element is first in a sequence.
FirstAt(s, e) ==
    LET I == {i \in 1..Len(s) : s[i] = e} IN IF I # {} THEN Min(I) ELSE 0

LEMMA Position ==
    ASSUME NEW S, NEW s \in Seq(S), NEW e
    PROVE  /\ e \in Range(s) => FirstAt(s, e) \in 1..Len(s) /\ s[FirstAt(s, e)] = e
           /\ e \notin Range(s) => FirstAt(s, e) = 0
<1> DEFINE I == {i \in 1..Len(s) : s[i] = e}
<1>1. FirstAt(s, e) = IF I # {} THEN Min(I) ELSE 0
  BY DEF FirstAt
<1>2. e \in Range(s) <=> I # {}
  BY LenProperties DEF Range
<1>3. I \in SUBSET Nat
  BY LenProperties
<1>4. I # {} => Min(I) \in I
  <2> HIDE DEF I
  <2> QED BY <1>3, HasLeast
<1> QED BY <1>1, <1>2, <1>4

\* The lesser of two numbers.
LEMMA LesserOfTwo ==
    ASSUME NEW a \in Nat, NEW b \in Nat
    PROVE  Min({a, b}) = IF a <= b THEN a ELSE b
<1>1. Min({a, b}) \in {a, b} /\ \A y \in {a, b} : Min({a, b}) <= y
  BY HasLeast
<1> QED BY <1>1

\* At most n elements from a position on.
LEMMA Stretch ==
    ASSUME NEW S, NEW s \in Seq(S), NEW from \in 1..Len(s)+1, NEW n \in Nat \ {0}
    PROVE  LET b == SubSeq(s, from, Min({Len(s), from + n - 1}))
           IN  /\ b \in Seq(S) /\ Len(b) <= n
               /\ \A i \in 1..Len(b) : from + i - 1 \in 1..Len(s) /\ b[i] = s[from+i-1]
               /\ Len(b) # n => \A i \in from..Len(s) : i - from + 1 \in 1..Len(b)
<1> DEFINE to == Min({Len(s), from + n - 1})
           b == SubSeq(s, from, to)
<1>1. Len(s) \in Nat /\ from \in Nat /\ 1 <= from /\ from <= Len(s) + 1
  BY LenProperties
<1>2. to = IF Len(s) <= from + n - 1 THEN Len(s) ELSE from + n - 1
  BY <1>1, LesserOfTwo
<1> HIDE DEF to
<1>3. to \in Nat /\ to <= Len(s)
  BY <1>1, <1>2
<1>4. \A i \in from..to : s[i] \in S
  BY <1>1, <1>3, ElementOfSeq
<1>5. /\ b \in Seq(S)
      /\ Len(b) = IF from <= to THEN to - from + 1 ELSE 0
      /\ \A i \in 1..to-from+1 : b[i] = s[from+i-1]
  BY <1>1, <1>3, <1>4, SubSeqProperties
<1> HIDE DEF b
<1>6. Len(b) <= n
  BY <1>1, <1>2, <1>5
<1>7. ASSUME NEW i \in 1..Len(b)
      PROVE  from + i - 1 \in 1..Len(s) /\ b[i] = s[from+i-1]
  <2>1. i \in 1..to-from+1
    BY <1>1, <1>3, <1>5
  <2> QED BY <1>1, <1>3, <1>5, <2>1
<1>8. ASSUME Len(b) # n, NEW i \in from..Len(s) PROVE i - from + 1 \in 1..Len(b)
  BY <1>1, <1>2, <1>5, <1>8
<1> QED BY <1>5, <1>6, <1>7, <1>8 DEF b, to

\* What a sequence becomes when an element in its middle is taken out.
LEMMA RemoveAtElements ==
    ASSUME NEW S, NEW s \in Seq(S), NEW k \in 1..Len(s)
    PROVE  /\ RemoveAt(s, k) \in Seq(S)
           /\ Len(RemoveAt(s, k)) = Len(s) - 1
           /\ \A i \in 1..Len(s)-1 :
                 RemoveAt(s, k)[i] = IF i < k THEN s[i] ELSE s[i+1]
<1> DEFINE a == SubSeq(s, 1, k - 1)
           b == SubSeq(s, k + 1, Len(s))
<1>1. Len(s) \in Nat /\ k \in Nat /\ 1 <= k /\ k <= Len(s)
  BY LenProperties
<1>2. /\ a \in Seq(S) /\ Len(a) = k - 1
      /\ \A i \in 1..k-1 : a[i] = s[i]
  BY <1>1, SubSeqProperties, ElementOfSeq
<1>3. /\ b \in Seq(S) /\ Len(b) = Len(s) - k
      /\ \A i \in 1..Len(s)-k : b[i] = s[k+i]
  <2>1. \A i \in k+1..Len(s) : s[i] \in S
    BY <1>1, ElementOfSeq
  <2>2. /\ b \in Seq(S)
        /\ Len(b) = IF k + 1 <= Len(s) THEN Len(s) - (k + 1) + 1 ELSE 0
        /\ \A i \in 1..Len(s)-(k+1)+1 : b[i] = s[(k+1)+i-1]
    BY <1>1, <2>1, SubSeqProperties
  <2> HIDE DEF b
  <2> QED BY <1>1, <2>2
<1>4. RemoveAt(s, k) = a \o b
  BY DEF RemoveAt
<1> HIDE DEF a, b
<1>5. /\ a \o b \in Seq(S)
      /\ Len(a \o b) = Len(a) + Len(b)
      /\ \A i \in 1..Len(a) + Len(b) :
            (a \o b)[i] = IF i <= Len(a) THEN a[i] ELSE b[i - Len(a)]
  BY <1>2, <1>3, ConcatProperties
<1>6. ASSUME NEW i \in 1..Len(s)-1
      PROVE  (a \o b)[i] = IF i < k THEN s[i] ELSE s[i+1]
  <2>1. CASE i < k
    <3>1. i \in 1..k-1 /\ i <= Len(a)
      BY <1>1, <1>2, <2>1
    <3> QED BY <1>1, <1>2, <1>3, <1>5, <2>1, <3>1
  <2>2. CASE ~(i < k)
    <3>1. i - (k - 1) \in 1..Len(s)-k /\ ~(i <= Len(a))
      BY <1>1, <1>2, <2>2
    <3>2. (a \o b)[i] = b[i - (k - 1)]
      BY <1>1, <1>2, <1>3, <1>5, <3>1
    <3>3. b[i - (k - 1)] = s[k + (i - (k - 1))]
      BY <1>3, <3>1
    <3>4. k + (i - (k - 1)) = i + 1
      BY <1>1
    <3> QED BY <2>2, <3>2, <3>3, <3>4
  <2> QED BY <2>1, <2>2
<1> QED BY <1>1, <1>2, <1>3, <1>4, <1>5, <1>6

\* RemoveFirst takes out the one position the element is at.
LEMMA RemoveFirstAt ==
    ASSUME NEW S, NEW s \in Seq(S), NEW e, e \in Range(s)
    PROVE  \E k \in 1..Len(s) : s[k] = e /\ RemoveFirst(s, e) = RemoveAt(s, k)
<1> DEFINE I == {i \in 1..Len(s) : s[i] = e}
           k == CHOOSE x \in I : \A y \in I : x <= y
<1>1. \E i \in 1..Len(s) : s[i] = e
  BY RangeEquality
<1>2. I \in SUBSET Nat /\ I # {} /\ I \subseteq 1..Len(s)
  BY <1>1, LenProperties
<1>3. RemoveFirst(s, e) = RemoveAt(s, k)
  BY <1>1 DEF RemoveFirst, SelectInSeq, Min
<1> HIDE DEF k
<1>4. k \in I
  <2> HIDE DEF I
  <2>1. Min(I) \in I
    BY <1>2, HasLeast
  <2> QED BY <2>1 DEF k, Min
<1> QED BY <1>3, <1>4

\* An element that is not there is not removed.
LEMMA RemoveAbsent ==
    ASSUME NEW S, NEW s \in Seq(S), NEW e, e \notin Range(s)
    PROVE  RemoveFirst(s, e) = s
BY RangeEquality DEF RemoveFirst

\* Out of a list without repetitions it is gone, and nothing else is.
LEMMA RemoveFirstRange ==
    ASSUME NEW S, NEW s \in Seq(S), NEW e, IsInjective(s)
    PROVE  /\ IsInjective(RemoveFirst(s, e))
           /\ Range(RemoveFirst(s, e)) = Range(s) \ {e}
<1>1. CASE e \notin Range(s)
  BY <1>1, RemoveAbsent
<1>2. CASE e \in Range(s)
  <2>1. PICK k \in 1..Len(s) : s[k] = e /\ RemoveFirst(s, e) = RemoveAt(s, k)
    BY <1>2, RemoveFirstAt
  <2> DEFINE r == RemoveAt(s, k)
             n == Len(s) - 1
  <2>2. /\ r \in Seq(S) /\ Len(r) = n
        /\ \A i \in 1..n : r[i] = IF i < k THEN s[i] ELSE s[i+1]
    BY RemoveAtElements
  <2>3. Len(s) \in Nat /\ DOMAIN s = 1..Len(s) /\ DOMAIN r = 1..n
    BY <2>2, LenProperties
  <2>4. \A i, j \in 1..Len(s) : s[i] = s[j] => i = j
    BY <2>3 DEF IsInjective
  <2> HIDE DEF r
  <2>5. IsInjective(r)
    <3> SUFFICES ASSUME NEW i \in 1..n, NEW j \in 1..n, r[i] = r[j] PROVE i = j
      BY <2>3 DEF IsInjective
    <3>1. i \in 1..Len(s) /\ i+1 \in 1..Len(s) /\ j \in 1..Len(s) /\ j+1 \in 1..Len(s)
      BY <2>3
    <3> QED BY <2>2, <2>4, <3>1
  <2>6. Range(r) \subseteq Range(s) \ {e}
    <3> SUFFICES ASSUME NEW i \in 1..n PROVE r[i] \in Range(s) \ {e}
      BY <2>3 DEF Range
    <3>1. i \in 1..Len(s) /\ i+1 \in 1..Len(s)
      BY <2>3
    <3>2. CASE i < k
      <4>1. r[i] = s[i] /\ i # k
        BY <2>2, <2>3, <3>2
      <4>2. s[i] # e
        BY <2>1, <2>4, <3>1, <4>1
      <4> QED BY <2>3, <3>1, <4>1, <4>2 DEF Range
    <3>3. CASE ~(i < k)
      <4>1. r[i] = s[i+1] /\ i+1 # k
        BY <2>2, <2>3, <3>3
      <4>2. s[i+1] # e
        BY <2>1, <2>4, <3>1, <4>1
      <4> QED BY <2>3, <3>1, <4>1, <4>2 DEF Range
    <3> QED BY <3>2, <3>3
  <2>7. Range(s) \ {e} \subseteq Range(r)
    <3> SUFFICES ASSUME NEW i \in 1..Len(s), s[i] # e PROVE s[i] \in Range(r)
      BY <2>3 DEF Range
    <3>1. CASE i < k
      <4>1. i \in 1..n /\ r[i] = s[i]
        BY <2>2, <2>3, <3>1
      <4> QED BY <2>3, <4>1 DEF Range
    <3>2. CASE i > k
      <4>1. i-1 \in 1..n /\ r[i-1] = s[i]
        BY <2>2, <2>3, <3>2
      <4> QED BY <2>3, <4>1 DEF Range
    <3> QED BY <2>1, <3>1, <3>2
  <2> QED BY <2>1, <2>5, <2>6, <2>7 DEF r
<1> QED BY <1>1, <1>2

\* What is put before the head is there as well, once if it was not there.
LEMMA ConsRange ==
    ASSUME NEW S, NEW s \in Seq(S), NEW e \in S
    PROVE  /\ <<e>> \o s \in Seq(S)
           /\ Range(<<e>> \o s) = Range(s) \cup {e}
           /\ IsInjective(s) /\ e \notin Range(s) => IsInjective(<<e>> \o s)
<1> DEFINE r == <<e>> \o s
<1>1. <<e>> \in Seq(S) /\ Len(<<e>>) = 1 /\ <<e>>[1] = e
  OBVIOUS
<1>2. Len(s) \in Nat /\ DOMAIN s = 1..Len(s)
  BY LenProperties
<1>3. /\ r \in Seq(S) /\ Len(r) = 1 + Len(s)
      /\ \A i \in 1..1+Len(s) : r[i] = IF i <= 1 THEN e ELSE s[i-1]
  BY <1>1, <1>2, ConcatProperties
<1>4. DOMAIN r = 1..1+Len(s)
  BY <1>3, LenProperties
<1> HIDE DEF r
<1>5. Range(r) = Range(s) \cup {e}
  <2>1. Range(r) \subseteq Range(s) \cup {e}
    <3> SUFFICES ASSUME NEW i \in 1..1+Len(s) PROVE r[i] \in Range(s) \cup {e}
      BY <1>4 DEF Range
    <3>1. i <= 1 \/ i-1 \in 1..Len(s)
      BY <1>2
    <3> QED BY <1>2, <1>3, <3>1 DEF Range
  <2>2. e \in Range(r)
    <3>1. 1 \in 1..1+Len(s) /\ r[1] = e
      BY <1>2, <1>3
    <3> QED BY <1>4, <3>1 DEF Range
  <2>3. ASSUME NEW i \in 1..Len(s) PROVE s[i] \in Range(r)
    <3>1. i+1 \in 1..1+Len(s) /\ r[i+1] = s[i]
      BY <1>2, <1>3
    <3> QED BY <1>4, <3>1 DEF Range
  <2> QED BY <1>2, <2>1, <2>2, <2>3 DEF Range
<1>6. ASSUME IsInjective(s), e \notin Range(s) PROVE IsInjective(r)
  <2> SUFFICES ASSUME NEW i \in 1..1+Len(s), NEW j \in 1..1+Len(s), r[i] = r[j]
               PROVE  i = j
    BY <1>4 DEF IsInjective
  <2>1. \A k \in 1..Len(s) : s[k] # e
    BY <1>2, <1>6 DEF Range
  <2>2. /\ i <= 1 \/ i-1 \in 1..Len(s)
        /\ j <= 1 \/ j-1 \in 1..Len(s)
    BY <1>2
  <2>3. \A k, m \in 1..Len(s) : s[k] = s[m] => k = m
    BY <1>2, <1>6 DEF IsInjective
  <2> QED BY <1>2, <1>3, <2>1, <2>2, <2>3
<1> QED BY <1>3, <1>5, <1>6 DEF r

\* One element of a sequence comes after another.
Behind(s, o, x) == \E i, j \in DOMAIN s : i < j /\ s[i] = o /\ s[j] = x

\* What is taken out does not change the order of the others, ...
LEMMA RemovalKeepsOrder ==
    ASSUME NEW S, NEW s \in Seq(S), NEW e, NEW o, NEW x,
           Behind(s, o, x), e # o, e # x
    PROVE  Behind(RemoveFirst(s, e), o, x)
<1>1. CASE e \notin Range(s)
  BY <1>1, RemoveAbsent
<1>2. CASE e \in Range(s)
  <2>1. PICK k \in 1..Len(s) : s[k] = e /\ RemoveFirst(s, e) = RemoveAt(s, k)
    BY <1>2, RemoveFirstAt
  <2> DEFINE r == RemoveAt(s, k)
             n == Len(s) - 1
  <2>2. /\ r \in Seq(S) /\ Len(r) = n
        /\ \A i \in 1..n : r[i] = IF i < k THEN s[i] ELSE s[i+1]
    BY RemoveAtElements
  <2>3. Len(s) \in Nat /\ DOMAIN s = 1..Len(s) /\ DOMAIN r = 1..n
    BY <2>2, LenProperties
  <2> HIDE DEF r
  <2>4. PICK i \in 1..Len(s), j \in 1..Len(s) : i < j /\ s[i] = o /\ s[j] = x
    BY <2>3 DEF Behind
  <2> DEFINE a == IF i < k THEN i ELSE i - 1
             b == IF j < k THEN j ELSE j - 1
  <2>5. i # k /\ j # k
    BY <2>1, <2>4
  <2>6. a \in 1..n /\ b \in 1..n /\ a < b
    BY <2>3, <2>4, <2>5
  <2>7. r[a] = s[i]
    <3>1. a < k => a = i
      BY <2>3, <2>5
    <3>2. ~(a < k) => a + 1 = i
      BY <2>3, <2>5
    <3> QED BY <2>2, <2>6, <3>1, <3>2
  <2>8. r[b] = s[j]
    <3>1. b < k => b = j
      BY <2>3, <2>5
    <3>2. ~(b < k) => b + 1 = j
      BY <2>3, <2>5
    <3> QED BY <2>2, <2>6, <3>1, <3>2
  <2>9. Behind(r, o, x)
    <3> HIDE DEF a, b
    <3> QED BY <2>3, <2>4, <2>6, <2>7, <2>8 DEF Behind
  <2> QED BY <2>1, <2>9 DEF r
<1> QED BY <1>1, <1>2

\* ... nor does what is put before the head, and it comes before all of them.
LEMMA ConsKeepsOrder ==
    ASSUME NEW S, NEW s \in Seq(S), NEW e \in S
    PROVE  /\ \A o, x : Behind(s, o, x) => Behind(<<e>> \o s, o, x)
           /\ \A x \in Range(s) : Behind(<<e>> \o s, e, x)
<1> DEFINE r == <<e>> \o s
<1>1. <<e>> \in Seq(S) /\ Len(<<e>>) = 1 /\ <<e>>[1] = e
  OBVIOUS
<1>2. Len(s) \in Nat /\ DOMAIN s = 1..Len(s)
  BY LenProperties
<1>3. /\ r \in Seq(S) /\ Len(r) = 1 + Len(s)
      /\ \A i \in 1..1+Len(s) : r[i] = IF i <= 1 THEN <<e>>[i] ELSE s[i-1]
  BY <1>1, ConcatProperties
<1> HIDE DEF r
<1>4. DOMAIN r = 1..1+Len(s) /\ r[1] = e /\ 1 \in DOMAIN r
  <2>1. DOMAIN r = 1..1+Len(s)
    BY <1>3, LenProperties
  <2>2. 1 \in 1..1+Len(s)
    BY <1>2
  <2> QED BY <1>1, <1>3, <2>1, <2>2
<1>5. ASSUME NEW i \in DOMAIN s PROVE i + 1 \in DOMAIN r /\ r[i+1] = s[i] /\ 1 < i + 1
  BY <1>2, <1>3, <1>4
<1>6. ASSUME NEW o, NEW x, Behind(s, o, x) PROVE Behind(r, o, x)
  <2>1. PICK i \in DOMAIN s, j \in DOMAIN s : i < j /\ s[i] = o /\ s[j] = x
    BY <1>6 DEF Behind
  <2>2. i + 1 < j + 1
    BY <1>2, <2>1
  <2> QED BY <1>5, <2>1, <2>2 DEF Behind
<1>7. ASSUME NEW x \in Range(s) PROVE Behind(r, e, x)
  <2>1. PICK i \in DOMAIN s : s[i] = x
    BY DEF Range
  <2> QED BY <1>4, <1>5, <2>1 DEF Behind
<1> QED BY <1>6, <1>7 DEF r

-----------------------------------------------------------------------------
(* Listings.                                                               *)

\* The objects that list_get_next returns: what is behind the last one is among
\* them, or behind the last of them.
LEMMA BatchIs ==
    ASSUME ObjectsAssumption, TypeInv, NEW k \in Classes, NEW o \in Objs \cup {Nobody}
    PROVE  /\ Batch(k, o) \in Seq(Objs)
           /\ Len(Batch(k, o)) = LIST_FIND_OBJ_NR => Last(Batch(k, o)) \in Objs
           /\ o # Nobody /\ ~Linked(o) =>
                 Len(Batch(k, o)) = LIST_FIND_OBJ_NR /\ Last(Batch(k, o)) = o
           /\ IsInjective(object_list[k]) /\ (o = Nobody \/ (Class[o] = k /\ Linked(o))) =>
                 \A x \in Range(object_list[k]) :
                    (o = Nobody \/ Behind(object_list[k], o, x)) =>
                       \/ x \in Range(Batch(k, o))
                       \/ /\ Len(Batch(k, o)) = LIST_FIND_OBJ_NR
                          /\ Behind(object_list[k], Last(Batch(k, o)), x)
<1> DEFINE list == object_list[k]
           at   == FirstAt(list, o)
           from == at + 1
           n    == LIST_FIND_OBJ_NR
           b    == SubSeq(list, from, Min({Len(list), from + n - 1}))
<1>1. /\ list \in Seq(Objs) /\ Len(list) \in Nat /\ DOMAIN list = 1..Len(list)
      /\ n \in Nat \ {0}
  BY LenProperties DEF TypeInv, DataOK, ObjectsAssumption
<1> HIDE DEF list, n
<1>2. /\ o \in Range(list) => at \in 1..Len(list) /\ list[at] = o
      /\ o \notin Range(list) => at = 0
  BY <1>1, Position
<1> HIDE DEF at
<1>3. from \in 1..Len(list)+1
  BY <1>1, <1>2
<1>4. /\ b \in Seq(Objs) /\ Len(b) <= n
      /\ \A i \in 1..Len(b) : from + i - 1 \in 1..Len(list) /\ b[i] = list[from+i-1]
      /\ Len(b) # n => \A i \in from..Len(list) : i - from + 1 \in 1..Len(b)
  <2> HIDE DEF from
  <2> QED BY <1>1, <1>3, Stretch
<1>5. Batch(k, o) = IF o # Nobody /\ ~Linked(o) THEN [i \in 1..n |-> o] ELSE b
  BY DEF Batch, list, n, at, FirstAt, SelectInSeq
<1> HIDE DEF b
<1>6. CASE o # Nobody /\ ~Linked(o)
  <2>1. [i \in 1..n |-> o] \in Seq(Objs) /\ Len([i \in 1..n |-> o]) = n
    BY <1>1, <1>6
  <2>2. Last([i \in 1..n |-> o]) = o
    BY <1>1, <2>1 DEF Last
  <2> QED BY <1>5, <1>6, <2>1, <2>2 DEF n
<1>7. CASE ~(o # Nobody /\ ~Linked(o))
  <2>1. Batch(k, o) = b
    BY <1>5, <1>7
  <2>2. ASSUME Len(b) = n
        PROVE  n \in 1..Len(b) /\ Last(b) = list[from+n-1] /\ Last(b) \in Objs
    <3>1. n \in 1..Len(b)
      BY <1>1, <2>2
    <3> QED BY <1>1, <1>4, <2>2, <3>1, ElementOfSeq DEF Last
  <2>3. ASSUME IsInjective(list), o = Nobody \/ (Class[o] = k /\ Linked(o)),
               NEW x \in Range(list), o = Nobody \/ Behind(list, o, x)
        PROVE  x \in Range(b) \/ (Len(b) = n /\ Behind(list, Last(b), x))
    <3>1. PICK j \in 1..Len(list) : list[j] = x /\ from <= j
      <4>1. CASE o = Nobody
        <5>1. o \notin Range(list)
          BY <1>1, <4>1, ElementOfSeq DEF Range, ObjectsAssumption
        <5>2. PICK j \in 1..Len(list) : list[j] = x
          BY <1>1 DEF Range
        <5> QED BY <1>1, <1>2, <5>1, <5>2
      <4>2. CASE o # Nobody
        <5>1. PICK i \in 1..Len(list), j \in 1..Len(list) : i < j /\ list[i] = o /\ list[j] = x
          BY <1>1, <2>3, <4>2 DEF Behind
        <5>2. at \in 1..Len(list) /\ list[at] = o
          BY <1>1, <1>2, <5>1 DEF Range
        <5>3. at = i
          BY <1>1, <2>3, <5>1, <5>2 DEF IsInjective
        <5> QED BY <1>1, <5>1, <5>3
      <4> QED BY <4>1, <4>2
    <3>2. CASE j - from + 1 \in 1..Len(b)
      <4>1. DOMAIN b = 1..Len(b)
        BY <1>4, LenProperties
      <4>2. from + (j - from + 1) - 1 = j
        BY <1>1, <1>3
      <4>3. b[j - from + 1] = list[j]
        BY <1>4, <3>2, <4>2
      <4> QED BY <3>1, <3>2, <4>1, <4>3 DEF Range
    <3>3. CASE j - from + 1 \notin 1..Len(b)
      <4>1. j \in from..Len(list)
        BY <1>1, <1>3, <3>1
      <4>2. Len(b) = n
        BY <1>4, <3>3, <4>1
      <4>3. from + n - 1 \in 1..Len(list) /\ Last(b) = list[from+n-1]
        BY <1>4, <2>2, <4>2
      <4>4. from + n - 1 < j
        BY <1>1, <1>3, <3>1, <3>3, <4>2
      <4> QED BY <1>1, <3>1, <4>2, <4>3, <4>4 DEF Behind
    <3> QED BY <3>2, <3>3
  <2> QED BY <1>4, <1>7, <2>1, <2>2, <2>3 DEF n, list
<1> QED BY <1>6, <1>7

\* A step that leaves the containers alone, by a thread that is not at work on
\* an object.
Aside(t) ==
    /\ UNCHANGED containers
    /\ pc[t].at \notin Working
    /\ \/ UNCHANGED pc
       \/ \E l, o, then : /\ Goto(t, l, o, then)
                          /\ l = "ready" \/ Place(l, o, then)
                          /\ l = "ready" => then = "ready"
                          /\ l \notin Working

LEMMA ListingIsAside ==
    ASSUME ObjectsAssumption, TypeInv, NEW t \in Threads, ListingStep(t) \/ Command(t)
    PROVE  Aside(t) /\ ViewOK'
<1> DEFINE k == pc[t].then
<1>0. Place(pc[t].at, pc[t].obj, k) /\ ViewOK
  BY DEF TypeInv, PcOK
<1>1. CASE GetNext(t)
  <2>1. k \in Classes
    BY <1>0, <1>1 DEF GetNext, At, Place, Viewing
  <2>2. Goto(t, "show", Nobody, k) /\ Place("show", Nobody, k)
    BY <1>1, <2>1 DEF GetNext, Listing, Place, Viewing
  <2>3. cursor[t] \in Objs \cup {Nobody}
    BY <1>0 DEF ViewOK
  <2>4. Batch(k, cursor[t]) \in Seq(Objs)
        /\ (Len(Batch(k, cursor[t])) = LIST_FIND_OBJ_NR => Last(Batch(k, cursor[t])) \in Objs)
    BY <2>1, <2>3, BatchIs
  <2>5. /\ batch' = [batch EXCEPT ![t] = Batch(k, cursor[t])]
        /\ cursor' = [cursor EXCEPT ![t] =
              IF Len(batch'[t]) = LIST_FIND_OBJ_NR THEN Last(batch'[t]) ELSE Nobody]
        /\ UNCHANGED <<containers, shown, there, cut>> /\ At(t, "get")
    BY <1>1 DEF GetNext, Listing
  <2>6. batch'[t] = Batch(k, cursor[t])
    BY <1>0, <2>5 DEF ViewOK
  <2>7. ViewOK'
    BY <1>0, <2>4, <2>5, <2>6 DEF ViewOK
  <2> QED BY <2>2, <2>5, <2>7 DEF Aside, At, Working
<1>2. CASE GetNextGone(t) \/ GetNextNull(t)
  <2>1. k \in Classes
    BY <1>0, <1>2 DEF GetNextGone, GetNextNull, At, Place, Viewing
  <2>2. /\ Place("show", Nobody, k) /\ Place("wild", Nobody, k)
        /\ Goto(t, "show", Nobody, k) \/ Goto(t, "wild", Nobody, k)
    BY <1>2, <2>1 DEF GetNextGone, GetNextNull, Listing, Place, Viewing
  <2>3. UNCHANGED containers /\ At(t, "get")
    BY <1>2 DEF GetNextGone, GetNextNull
  <2>4. ViewOK'
    BY <1>0, <1>2 DEF GetNextGone, GetNextNull, listings, ViewOK
  <2> QED BY <2>2, <2>3, <2>4 DEF Aside, At, Working
<1>3. CASE TestObject(t)
  <2>1. k \in Classes
    BY <1>0, <1>3 DEF TestObject, At, Place, Viewing
  <2>2. /\ batch[t] \in Seq(Objs) /\ batch[t] # <<>>
        /\ batch' = [batch EXCEPT ![t] = Tail(@)]
        /\ UNCHANGED <<containers, cursor, shown, there, cut>> /\ At(t, "show")
    BY <1>0, <1>3 DEF TestObject, ViewOK
  <2>3. Head(batch[t]) \in Objs /\ Tail(batch[t]) \in Seq(Objs)
    BY <2>2, HeadTailProperties
  <2>4. Goto(t, "print", Head(batch[t]), k) \/ UNCHANGED pc
    BY <1>3 DEF TestObject, Listing
  <2>5. Place("print", Head(batch[t]), k)
    BY <2>1, <2>3 DEF Place
  <2>6. ViewOK'
    BY <1>0, <2>2, <2>3 DEF ViewOK
  <2> QED BY <2>2, <2>4, <2>5, <2>6 DEF Aside, At, Working
<1>4. CASE PrintObject(t)
  <2>1. k \in Classes /\ pc[t].obj \in Objs
    BY <1>0, <1>4 DEF PrintObject, At, Place, Viewing
  <2>2. Goto(t, "show", Nobody, k) /\ Place("show", Nobody, k)
    BY <1>4, <2>1 DEF PrintObject, Listing, Place, Viewing
  <2>3. ViewOK'
    BY <1>0, <1>4, <2>1 DEF PrintObject, ViewOK
  <2> QED BY <1>4, <2>2, <2>3 DEF PrintObject, Aside, At, Working
<1>5. CASE ShowNext(t)
  <2>1. k \in Classes
    BY <1>0, <1>5 DEF ShowNext, At, Place, Viewing
  <2>2. /\ Place("listed", Nobody, k) /\ Place("get", Nobody, k)
        /\ Goto(t, "listed", Nobody, k) \/ Goto(t, "get", Nobody, k)
    BY <1>5, <2>1 DEF ShowNext, Listing, Place, Viewing
  <2>3. ViewOK'
    BY <1>0, <1>5 DEF ShowNext, listings, ViewOK
  <2> QED BY <1>5, <2>2, <2>3 DEF ShowNext, Aside, At, Working
<1>6. CASE EndListing(t)
  <2>1. ViewOK'
    BY <1>0, <1>6 DEF EndListing, ViewOK
  <2> QED BY <1>6, <2>1 DEF EndListing, Ready, Aside, At, Working
<1>7. ASSUME NEW c \in Classes, StartListing(t, c) PROVE Aside(t) /\ ViewOK'
  <2>1. Goto(t, "get", Nobody, c) /\ Place("get", Nobody, c)
    BY <1>7 DEF StartListing, Goto, Place, Viewing
  <2>2. {o \in Range(object_list[c]) : type[o] = c} \subseteq Objs
    BY LenProperties, ElementOfSeq DEF TypeInv, DataOK, Range
  <2>3. ViewOK'
    BY <1>0, <1>7, <2>2 DEF StartListing, ViewOK
  <2> QED BY <1>7, <2>1, <2>3 DEF StartListing, Aside, At, Working
<1>8. Command(t) => \E c \in Classes : StartListing(t, c)
  BY DEF ObjectsAssumption, Command, list_thread, list_sem, list_event, list_mutex,
     list_mailbox, list_msgqueue, list_memheap, list_mempool, list_timer, list_device
<1> QED BY <1>1, <1>2, <1>3, <1>4, <1>5, <1>6, <1>7, <1>8 DEF ListingStep

-----------------------------------------------------------------------------
(* The containers.                                                         *)

\* A list holds objects of its class, once, and an object has its class or none.
ListsOK ==
    /\ \A k \in Classes : /\ IsInjective(object_list[k])
                          /\ \A o \in Range(object_list[k]) : Class[o] = k
    /\ \A o \in Objs : type[o] \in {Class[o], "none"}

\* One thread at most is at work on an object.
Alone ==
    \A t, u \in Threads :
        pc[t].at \in Working /\ pc[u].at \in Working /\ pc[t].obj = pc[u].obj => t = u

\* What it has done so far.
Work(t) ==
    LET o == pc[t].obj
    IN /\ At(t, "insert") => type[o] # "none" /\ ~Linked(o)
       /\ At(t, "remove") => type[o] = "none" /\ Linked(o)
       /\ At(t, "free") => type[o] = "none" /\ ~Linked(o)

WorkOK == \A t \in Threads : Work(t)

RestOK == \A o \in Objs : Settled(o) => (type[o] # "none" <=> Linked(o))

ObjInv == TypeInv /\ ListsOK /\ Alone /\ WorkOK /\ RestOK

LEMMA ObjInvInit == ASSUME ObjectsAssumption, Init PROVE ObjInv
<1>1. PcOK
  BY DEF Init, ObjectsInit, PcOK, Place
<1>2. \A S : <<>> \in Seq(S) /\ Range(<<>>) = {} /\ IsInjective(<<>>)
  BY EmptySeq DEF Range, IsInjective
<1>3. DataOK /\ ViewOK
  BY <1>2 DEF Init, ObjectsInit, DataOK, ViewOK
<1>4. \A o \in Objs : ~Linked(o) /\ type[o] = "none"
  BY <1>2 DEF Init, ObjectsInit, Linked, ObjectsAssumption
<1>5. ListsOK
  BY <1>2, <1>4 DEF Init, ObjectsInit, ListsOK
<1>6. Alone /\ WorkOK
  BY DEF Init, ObjectsInit, Alone, WorkOK, Work, Working, At
<1> QED BY <1>1, <1>3, <1>4, <1>5, <1>6 DEF ObjInv, TypeInv, RestOK

\* Steps that leave the containers alone.
LEMMA AsideKeeps ==
    ASSUME ObjInv, NEW t \in Threads, Aside(t),
           (console \in Devs \cup {Nobody})', (input \in Devs \cup {Nobody})', ViewOK'
    PROVE  ObjInv'
<1>1. PcOK /\ UNCHANGED <<type, object_list>>
  BY DEF ObjInv, TypeInv, Aside, containers
<1>2. /\ PcOK' /\ pc'[t].at \notin Working /\ pc[t].at \notin Working
      /\ \A u \in Threads \ {t} : pc'[u] = pc[u]
  <2>1. CASE UNCHANGED pc
    BY <1>1, <2>1 DEF Aside, PcOK, Place
  <2>2. ASSUME NEW l, NEW o, NEW then, Goto(t, l, o, then),
               l = "ready" \/ Place(l, o, then), l = "ready" => then = "ready",
               l \notin Working
        PROVE  /\ PcOK' /\ pc'[t].at \notin Working /\ pc[t].at \notin Working
               /\ \A u \in Threads \ {t} : pc'[u] = pc[u]
    <3>1. /\ PcOK'
          /\ pc'[t] = [at |-> l, obj |-> IF l = "ready" THEN Nobody ELSE o, then |-> then]
          /\ \A u \in Threads \ {t} : pc'[u] = pc[u]
      BY <1>1, <2>2, Moves
    <3>2. pc'[t].at = l
      BY <3>1
    <3> QED BY <2>2, <3>1, <3>2 DEF Aside
  <2> QED BY <2>1, <2>2 DEF Aside
<1>3. TypeInv'
  BY <1>1, <1>2 DEF ObjInv, TypeInv, DataOK
<1>4. ListsOK'
  BY <1>1 DEF ObjInv, ListsOK
<1>5. \A o \in Objs : Linked(o)' = Linked(o)
  BY <1>1 DEF Linked
<1>6. Alone'
  BY <1>2 DEF ObjInv, Alone
<1>7. WorkOK'
  <2> SUFFICES ASSUME NEW u \in Threads, pc'[u].at \in Working PROVE Work(u)'
    BY DEF WorkOK, Work, Working, At
  <2>1. pc'[u] = pc[u] /\ Work(u)
    BY <1>2 DEF ObjInv, WorkOK
  <2>2. Place(pc[u].at, pc[u].obj, pc[u].then) /\ pc[u].at \in Working
    BY <1>1, <2>1 DEF PcOK
  <2>3. pc[u].obj \in Objs
    BY <2>2 DEF Place, Working, Viewing
  <2> QED BY <1>1, <1>5, <2>1, <2>3 DEF Work, At
<1>8. RestOK'
  <2> SUFFICES ASSUME NEW o \in Objs, Settled(o)' PROVE type'[o] # "none" <=> Linked(o)'
    BY DEF RestOK
  <2>1. Settled(o)
    BY <1>2 DEF Settled, Working
  <2> QED BY <1>1, <1>5, <2>1 DEF ObjInv, RestOK
<1> QED BY <1>3, <1>4, <1>6, <1>7, <1>8 DEF ObjInv

\* A thread that is at no work begins to work on an object that is at rest.
LEMMA BeginsAlone ==
    ASSUME ObjInv, NEW t \in Threads, NEW o \in Objs, At(t, "ready"), Settled(o),
           NEW l \in {"insert", "remove"}, NEW then, Place(l, o, then), Goto(t, l, o, then)
    PROVE  /\ PcOK' /\ Alone'
           /\ pc'[t].at = l /\ pc'[t].obj = o
           /\ \A u \in Threads \ {t} : /\ pc'[u] = pc[u]
                                       /\ pc[u].at \in Working => pc[u].obj \in Objs \ {o}
<1>1. PcOK
  BY DEF ObjInv, TypeInv
<1>2. /\ PcOK' /\ pc'[t].at = l /\ pc'[t].obj = o
      /\ \A u \in Threads \ {t} : pc'[u] = pc[u]
  <2>1. l # "ready"
    OBVIOUS
  <2> QED BY <1>1, <2>1, MovesTo
<1>3. \A u \in Threads \ {t} : pc[u].at \in Working => pc[u].obj \in Objs \ {o}
  BY <1>1 DEF Settled, Working, PcOK, Place, Viewing
<1>4. Alone'
  BY <1>2, <1>3 DEF ObjInv, Alone
<1> QED BY <1>2, <1>3, <1>4

LEMMA InitKeeps ==
    ASSUME ObjectsAssumption, ObjInv, NEW t \in Threads, NEW o \in Objs, At(t, "ready"),
           type[o] = "none", ~Linked(o), Settled(o),
           type' = [type EXCEPT ![o] = Class[o]],
           NEW then \in {"ready", "fields"}, then = "fields" => o \in Devs,
           Goto(t, "insert", o, then),
           UNCHANGED <<object_list, console, input, listings>>
    PROVE  ObjInv'
<1>1. Place("insert", o, then)
  BY DEF Place
<1>2. /\ PcOK' /\ Alone' /\ pc'[t].at = "insert" /\ pc'[t].obj = o
      /\ \A u \in Threads \ {t} : /\ pc'[u] = pc[u]
                                  /\ pc[u].at \in Working => pc[u].obj \in Objs \ {o}
  BY <1>1, BeginsAlone
<1>3. Class[o] \in Classes /\ Class[o] # "none"
  BY DEF ObjectsAssumption
<1>4. type' \in [Objs -> Classes \cup {"none"}] /\ type'[o] = Class[o]
      /\ \A p \in Objs \ {o} : type'[p] = type[p]
  BY <1>3 DEF ObjInv, TypeInv, DataOK
<1>5. TypeInv'
  BY <1>2, <1>4 DEF ObjInv, TypeInv, DataOK, ViewOK, listings
<1>6. ListsOK'
  BY <1>4 DEF ObjInv, ListsOK
<1>7. \A p \in Objs : Linked(p)' = Linked(p)
  BY DEF Linked
<1>8. WorkOK'
  BY <1>2, <1>3, <1>4, <1>7 DEF ObjInv, WorkOK, Work, At, Working
<1>9. RestOK'
  <2> SUFFICES ASSUME NEW p \in Objs, Settled(p)' PROVE type'[p] # "none" <=> Linked(p)'
    BY DEF RestOK
  <2>1. p # o
    BY <1>2 DEF Settled
  <2>2. Settled(p)
    BY <1>2, <2>1 DEF Settled, At
  <2> QED BY <1>4, <1>7, <2>1, <2>2 DEF ObjInv, RestOK
<1> QED BY <1>2, <1>5, <1>6, <1>8, <1>9 DEF ObjInv

LEMMA EndKeeps ==
    ASSUME ObjectsAssumption, ObjInv, NEW t \in Threads, NEW o \in Objs, At(t, "ready"),
           NEW then \in {"ready", "free"}, EndObject(t, o, then),
           UNCHANGED <<console, input>>
    PROVE  ObjInv'
<1>0. /\ type[o] # "none" /\ Linked(o) /\ Settled(o)
      /\ type' = [type EXCEPT ![o] = "none"]
      /\ Goto(t, "remove", o, then) /\ UNCHANGED <<object_list, cursor, batch, shown, cut>>
      /\ there' = [u \in Threads |-> there[u] \ {o}]
  BY DEF EndObject
<1>1. Place("remove", o, then)
  BY DEF Place
<1>2. /\ PcOK' /\ Alone' /\ pc'[t].at = "remove" /\ pc'[t].obj = o
      /\ \A u \in Threads \ {t} : /\ pc'[u] = pc[u]
                                  /\ pc[u].at \in Working => pc[u].obj \in Objs \ {o}
  BY <1>0, <1>1, BeginsAlone
<1>3. /\ type' \in [Objs -> Classes \cup {"none"}] /\ type'[o] = "none"
      /\ \A p \in Objs \ {o} : type'[p] = type[p]
  BY <1>0 DEF ObjInv, TypeInv, DataOK
<1>4. ViewOK'
  BY <1>0 DEF ObjInv, TypeInv, ViewOK
<1>5. TypeInv'
  BY <1>0, <1>2, <1>3, <1>4 DEF ObjInv, TypeInv, DataOK
<1>6. ListsOK'
  BY <1>0, <1>3 DEF ObjInv, ListsOK
<1>7. \A p \in Objs : Linked(p)' = Linked(p)
  BY <1>0 DEF Linked
<1>8. WorkOK'
  BY <1>0, <1>2, <1>3, <1>7 DEF ObjInv, WorkOK, Work, At, Working
<1>9. RestOK'
  <2> SUFFICES ASSUME NEW p \in Objs, Settled(p)' PROVE type'[p] # "none" <=> Linked(p)'
    BY DEF RestOK
  <2>1. p # o
    BY <1>2 DEF Settled
  <2>2. Settled(p)
    BY <1>2, <2>1 DEF Settled, At
  <2> QED BY <1>3, <1>7, <2>1, <2>2 DEF ObjInv, RestOK
<1> QED BY <1>2, <1>5, <1>6, <1>8, <1>9 DEF ObjInv

\* The thread at work on an object is the only one.
LEMMA WorksAlone ==
    ASSUME ObjInv, NEW t \in Threads, pc[t].at \in Working
    PROVE  /\ pc[t].obj \in Objs
           /\ \A u \in Threads \ {t} : pc[u].at \in Working => pc[u].obj \in Objs \ {pc[t].obj}
<1>1. \A u \in Threads : pc[u].at \in Working => pc[u].obj \in Objs
  BY DEF ObjInv, TypeInv, PcOK, Place, Working, Viewing
<1> QED BY <1>1 DEF ObjInv, Alone

\* It is in the list now, for all to find.
LEMMA LinkKeeps ==
    ASSUME ObjectsAssumption, ObjInv, NEW t \in Threads, Link(t), UNCHANGED <<console, input>>
    PROVE  ObjInv'
<1> DEFINE o == pc[t].obj
           k == Class[o]
           then == pc[t].then
<1>1. /\ At(t, "insert") /\ object_list' = [object_list EXCEPT ![k] = <<o>> \o @]
      /\ Goto(t, then, o, "ready") /\ UNCHANGED <<type, listings>>
  BY DEF Link, Return
<1>2. /\ o \in Objs /\ type[o] # "none" /\ ~Linked(o)
      /\ \A u \in Threads \ {t} : pc[u].at \in Working => pc[u].obj \in Objs \ {o}
  BY <1>1, WorksAlone DEF ObjInv, WorkOK, Work, At, Working
<1>3. then \in {"ready", "fields"} /\ (then = "fields" => o \in Devs)
  BY <1>1 DEF ObjInv, TypeInv, PcOK, Place, At, Viewing
<1> HIDE DEF then
<1>4. k \in Classes /\ object_list[k] \in Seq(Objs)
  BY <1>2 DEF ObjectsAssumption, ObjInv, TypeInv, DataOK
<1>5. /\ <<o>> \o object_list[k] \in Seq(Objs)
      /\ Range(<<o>> \o object_list[k]) = Range(object_list[k]) \cup {o}
      /\ IsInjective(<<o>> \o object_list[k])
  BY <1>2, <1>4, ConsRange DEF ObjInv, ListsOK, Linked
<1>6. /\ object_list' \in [Classes -> Seq(Objs)]
      /\ object_list'[k] = <<o>> \o object_list[k]
      /\ \A c \in Classes \ {k} : object_list'[c] = object_list[c]
  BY <1>1, <1>4, <1>5 DEF ObjInv, TypeInv, DataOK
<1>7. \A p \in Objs : Linked(p)' <=> (Linked(p) \/ p = o)
  BY <1>5, <1>6 DEF Linked, ObjectsAssumption
<1>8. ListsOK'
  <2>1. \A c \in Classes : /\ IsInjective(object_list[c])
                           /\ \A p \in Range(object_list[c]) : Class[p] = c
    BY DEF ObjInv, ListsOK
  <2>2. /\ IsInjective(object_list'[k])
        /\ \A p \in Range(object_list'[k]) : Class[p] = k
    BY <1>4, <1>5, <1>6, <2>1
  <2>3. \A c \in Classes : /\ IsInjective(object_list'[c])
                           /\ \A p \in Range(object_list'[c]) : Class[p] = c
    BY <1>6, <2>1, <2>2
  <2>4. \A p \in Objs : type'[p] \in {Class[p], "none"}
    BY <1>1 DEF ObjInv, ListsOK
  <2> QED BY <2>3, <2>4 DEF ListsOK
<1>9. /\ PcOK' /\ pc'[t].at \notin Working
      /\ \A u \in Threads \ {t} : pc'[u] = pc[u]
  <2>1. CASE then = "ready"
    <3>1. Goto(t, "ready", o, "ready")
      BY <1>1, <2>1
    <3> QED BY <3>1, MovesReady DEF ObjInv, TypeInv, Working
  <2>2. CASE then = "fields"
    <3>1. Goto(t, "fields", o, "ready")
      BY <1>1, <2>2
    <3>2. Place("fields", o, "ready")
      BY <1>3, <2>2 DEF Place
    <3> QED BY <3>1, <3>2, MovesTo DEF ObjInv, TypeInv, Working
  <2> QED BY <1>3, <2>1, <2>2
<1>10. TypeInv'
  BY <1>1, <1>6, <1>9 DEF ObjInv, TypeInv, DataOK, ViewOK, listings
<1>11. Alone'
  BY <1>9 DEF ObjInv, Alone
<1>12. WorkOK'
  BY <1>1, <1>2, <1>7, <1>9 DEF ObjInv, WorkOK, Work, At, Working
<1>13. RestOK'
  <2> SUFFICES ASSUME NEW p \in Objs, Settled(p)' PROVE type'[p] # "none" <=> Linked(p)'
    BY DEF RestOK
  <2>1. CASE p = o
    BY <1>1, <1>2, <1>7, <2>1
  <2>2. CASE p # o
    <3>1. Settled(p)
      BY <1>9, <2>2 DEF Settled
    <3> QED BY <1>1, <1>7, <2>2, <3>1 DEF ObjInv, RestOK
  <2> QED BY <2>1, <2>2
<1> QED BY <1>8, <1>10, <1>11, <1>12, <1>13 DEF ObjInv

\* It is out of the list, and may have to be freed.
LEMMA UnlinkKeeps ==
    ASSUME ObjectsAssumption, ObjInv, NEW t \in Threads, Unlink(t),
           UNCHANGED <<console, input>>
    PROVE  ObjInv'
<1> DEFINE o == pc[t].obj
           k == Class[o]
           then == pc[t].then
           r == RemoveFirst(object_list[k], o)
<1>1. /\ At(t, "remove") /\ object_list' = [object_list EXCEPT ![k] = RemoveFirst(@, o)]
      /\ Goto(t, then, o, "ready") /\ UNCHANGED <<type, listings>>
  BY DEF Unlink, Return
<1>2. /\ o \in Objs /\ type[o] = "none" /\ Linked(o)
      /\ \A u \in Threads \ {t} : pc[u].at \in Working => pc[u].obj \in Objs \ {o}
  BY <1>1, WorksAlone DEF ObjInv, WorkOK, Work, At, Working
<1>3. then \in {"ready", "free"}
  BY <1>1 DEF ObjInv, TypeInv, PcOK, Place, At, Viewing
<1> HIDE DEF then
<1>4. k \in Classes /\ object_list[k] \in Seq(Objs) /\ IsInjective(object_list[k])
  BY <1>2 DEF ObjectsAssumption, ObjInv, TypeInv, DataOK, ListsOK
<1>5. r \in Seq(Objs) /\ Range(r) = Range(object_list[k]) \ {o} /\ IsInjective(r)
  <2>1. r \in Seq(Objs)
    BY <1>2, <1>4, RemoveFirstAt, RemoveAtElements DEF Linked
  <2> QED BY <1>4, <2>1, RemoveFirstRange
<1>6. /\ object_list' \in [Classes -> Seq(Objs)]
      /\ object_list'[k] = r
      /\ \A c \in Classes \ {k} : object_list'[c] = object_list[c]
  BY <1>1, <1>4, <1>5 DEF ObjInv, TypeInv, DataOK
<1> HIDE DEF r
<1>7. \A p \in Objs : Linked(p)' <=> (Linked(p) /\ p # o)
  <2>1. \A p \in Objs : Class[p] \in Classes
    BY DEF ObjectsAssumption
  <2>2. \A c \in Classes \ {k} : o \notin Range(object_list[c])
    BY <1>2 DEF ObjInv, ListsOK
  <2> QED BY <1>5, <1>6, <2>1, <2>2 DEF Linked
<1>8. ListsOK'
  BY <1>1, <1>2, <1>5, <1>6 DEF ObjInv, ListsOK
<1>9. /\ PcOK' /\ pc'[t].at \in {"ready", "free"}
      /\ pc'[t].at = "free" => pc'[t].obj = o
      /\ \A u \in Threads \ {t} : pc'[u] = pc[u]
  <2>1. CASE then = "ready"
    <3>1. Goto(t, "ready", o, "ready")
      BY <1>1, <2>1
    <3> QED BY <3>1, MovesReady DEF ObjInv, TypeInv
  <2>2. CASE then = "free"
    <3>1. Goto(t, "free", o, "ready")
      BY <1>1, <2>2
    <3>2. Place("free", o, "ready")
      BY <1>2 DEF Place
    <3> QED BY <3>1, <3>2, MovesTo DEF ObjInv, TypeInv
  <2> QED BY <1>3, <2>1, <2>2
<1>10. TypeInv'
  BY <1>1, <1>6, <1>9 DEF ObjInv, TypeInv, DataOK, ViewOK, listings
<1>11. Alone'
  BY <1>2, <1>9 DEF ObjInv, Alone, Working
<1>12. WorkOK'
  BY <1>1, <1>2, <1>7, <1>9 DEF ObjInv, WorkOK, Work, At, Working
<1>13. RestOK'
  <2> SUFFICES ASSUME NEW p \in Objs, Settled(p)' PROVE type'[p] # "none" <=> Linked(p)'
    BY DEF RestOK
  <2>1. CASE p = o
    BY <1>1, <1>2, <1>7, <2>1
  <2>2. CASE p # o
    <3>1. Settled(p)
      BY <1>9, <2>2 DEF Settled
    <3> QED BY <1>1, <1>7, <2>2, <3>1 DEF ObjInv, RestOK
  <2> QED BY <2>1, <2>2
<1> QED BY <1>8, <1>10, <1>11, <1>12, <1>13 DEF ObjInv

LEMMA FreeKeeps ==
    ASSUME ObjInv, NEW t \in Threads, Free(t), UNCHANGED <<console, input>>
    PROVE  ObjInv'
<1> DEFINE o == pc[t].obj
<1>1. /\ At(t, "free") /\ Goto(t, "ready", Nobody, "ready")
      /\ UNCHANGED <<type, object_list, listings>>
  BY DEF Free, Ready, containers
<1>2. /\ o \in Objs /\ type[o] = "none" /\ ~Linked(o)
      /\ \A u \in Threads \ {t} : pc[u].at \in Working => pc[u].obj \in Objs \ {o}
  BY <1>1, WorksAlone DEF ObjInv, WorkOK, Work, At, Working
<1>3. PcOK' /\ pc'[t].at = "ready" /\ \A u \in Threads \ {t} : pc'[u] = pc[u]
  BY <1>1, MovesReady DEF ObjInv, TypeInv
<1>4. \A p \in Objs : Linked(p)' = Linked(p)
  BY <1>1 DEF Linked
<1>5. TypeInv' /\ ListsOK'
  BY <1>1, <1>3 DEF ObjInv, TypeInv, DataOK, ViewOK, ListsOK, listings
<1>6. Alone' /\ WorkOK'
  BY <1>1, <1>2, <1>3, <1>4 DEF ObjInv, Alone, WorkOK, Work, At, Working
<1>7. RestOK'
  <2> SUFFICES ASSUME NEW p \in Objs, Settled(p)' PROVE type'[p] # "none" <=> Linked(p)'
    BY DEF RestOK
  <2>1. CASE p = o
    BY <1>1, <1>2, <1>4, <2>1
  <2>2. CASE p # o
    <3>1. Settled(p)
      BY <1>3, <2>2 DEF Settled
    <3> QED BY <1>1, <1>4, <3>1 DEF ObjInv, RestOK
  <2> QED BY <2>1, <2>2
<1> QED BY <1>5, <1>6, <1>7 DEF ObjInv

LEMMA ObjectStepKeeps ==
    ASSUME ObjectsAssumption, ObjInv, NEW t \in Threads, ObjectStep(t),
           UNCHANGED <<console, input>>
    PROVE  ObjInv'
<1>1. ASSUME NEW o \in Objs, NEW n \in Names,
             \/ At(t, "ready") /\ InitObject(t, o, n, "ready")
             \/ AllocateObject(t, o, n)
      PROVE  ObjInv'
  <2>1. /\ At(t, "ready") /\ type[o] = "none" /\ ~Linked(o) /\ Settled(o)
        /\ type' = [type EXCEPT ![o] = Class[o]]
        /\ Goto(t, "insert", o, "ready")
        /\ UNCHANGED <<object_list, console, input, listings>>
    BY <1>1 DEF InitObject, AllocateObject
  <2> QED BY <2>1, InitKeeps
<1>2. ASSUME NEW o \in Objs, DetachObject(t, o) \/ DeleteObject(t, o) PROVE ObjInv'
  <2>1. At(t, "ready") /\ (EndObject(t, o, "ready") \/ EndObject(t, o, "free"))
    BY <1>2 DEF DetachObject, DeleteObject
  <2> QED BY <2>1, EndKeeps
<1>3. CASE Link(t) \/ Unlink(t) \/ Free(t)
  BY <1>3, LinkKeeps, UnlinkKeeps, FreeKeeps
<1> QED BY <1>1, <1>2, <1>3 DEF ObjectStep

LEMMA RegistersKeeps ==
    ASSUME ObjectsAssumption, ObjInv, NEW t \in Threads, Registers(t)
    PROVE  ObjInv'
<1>1. ASSUME NEW d \in Devs, NEW n \in Names, InitObject(t, d, n, "fields")
      PROVE  ObjInv'
  <2>1. /\ At(t, "ready") /\ type[d] = "none" /\ ~Linked(d) /\ Settled(d)
        /\ type' = [type EXCEPT ![d] = Class[d]]
        /\ Goto(t, "insert", d, "fields")
        /\ UNCHANGED <<object_list, console, input, listings>>
    BY <1>1 DEF InitObject, Registers
  <2>2. d \in Objs
    BY DEF Devs
  <2> QED BY <2>1, <2>2, InitKeeps
<1>2. ASSUME NEW d \in Devs, EndObject(t, d, "ready") PROVE ObjInv'
  <2>1. d \in Objs /\ At(t, "ready") /\ UNCHANGED <<console, input>>
    BY DEF Devs, Registers
  <2> QED BY <1>2, <2>1, EndKeeps
<1> QED BY <1>1, <1>2 DEF Registers

LEMMA ObjInvKept == ASSUME ObjectsAssumption, ObjInv, [Next]_vars PROVE ObjInv'
<1>0. /\ console \in Devs \cup {Nobody} /\ input \in Devs \cup {Nobody}
      /\ ViewOK /\ TypeInv
  BY DEF ObjInv, TypeInv, DataOK
<1>1. ASSUME NEW t \in Threads, ObjectStep(t), UNCHANGED <<devices, shell>>
      PROVE  ObjInv'
  BY <1>1, ObjectStepKeeps DEF shell
<1>2. ASSUME NEW t \in Threads, Command(t) \/ ListingStep(t), UNCHANGED <<devices, shell>>
      PROVE  ObjInv'
  <2>1. Aside(t) /\ ViewOK'
    BY <1>0, <1>2, ListingIsAside
  <2> QED BY <1>0, <1>2, <2>1, AsideKeeps DEF shell
<1>3. ASSUME NEW t \in Threads, DeviceStep(t) PROVE ObjInv'
  <2>1. /\ Elsewhere(t) \/ Registers(t)
        /\ (console \in Devs \cup {Nobody})' /\ (input \in Devs \cup {Nobody})'
    BY <1>0, <1>3, DeviceStepIs
  <2>2. CASE Registers(t)
    BY <2>2, RegistersKeeps
  <2>3. CASE Elsewhere(t)
    <3>1. Aside(t)
      BY <2>3 DEF Elsewhere, Aside, At, Working, Viewing
    <3>2. ViewOK'
      BY <1>0, <2>3 DEF Elsewhere, ViewOK, listings
    <3> QED BY <2>1, <3>1, <3>2, AsideKeeps
  <2> QED BY <2>1, <2>2, <2>3
<1>4. ASSUME UNCHANGED <<containers, pc, listings, console, input>> PROVE ObjInv'
  BY <1>4 DEF containers, listings, ObjInv, TypeInv, PcOK, DataOK, ViewOK, ListsOK,
     Alone, WorkOK, Work, RestOK, Settled, Linked, At
<1>5. ASSUME NEW d \in Devs, Receive(d) PROVE ObjInv'
  <2>1. UNCHANGED <<containers, pc, listings, console, input>>
    BY <1>5 DEF Receive
  <2> QED BY <1>4, <2>1
<1>6. CASE UNCHANGED vars
  <2>1. UNCHANGED <<containers, pc, listings, console, input>>
    BY <1>6 DEF vars, shell
  <2> QED BY <1>4, <2>1
<1> QED BY <1>1, <1>2, <1>3, <1>5, <1>6 DEF Next

\* Each object is once in the list of its class from its insertion to its
\* removal, whichever threads register, initialize, allocate, detach and delete
\* objects at the same time.
THEOREM ListsAreExactHolds == Spec => []ListsAreExact
<1>1. Init => ObjInv
  BY ObjectsAssumption, ObjInvInit
<1>2. ObjInv /\ [Next]_vars => ObjInv'
  BY ObjectsAssumption, ObjInvKept
<1>3. ObjInv => ListsAreExact
  BY DEF ObjInv, ListsOK, RestOK, ListsAreExact
<1> QED BY <1>1, <1>2, <1>3, PTL DEF Spec

-----------------------------------------------------------------------------
(* 2. The listings.  Objects that are in the list all the time are shown,   *)
(* wait in the batch, or are behind the object where the next batch begins; *)
(* an object that comes to the list comes to its head, before them all.     *)

\* What is shown, or will be before the next batch.
Shows(t) == shown[t] \cup Range(batch[t]) \cup (IF At(t, "print") THEN {pc[t].obj} ELSE {})

\* What the next batches will be taken from.
Ahead(t, x) ==
    IF cursor[t] = Nobody THEN At(t, "get")
    ELSE Class[cursor[t]] = Listing(t) /\ Linked(cursor[t]) =>
            Behind(object_list[Listing(t)], cursor[t], x)

View(t) ==
    /\ pc[t].at \notin {"show", "print"} => batch[t] = <<>>
    /\ pc[t].at \notin Viewing \/ At(t, "listed") => cursor[t] = Nobody
    /\ pc[t].at \notin Viewing => there[t] = {}
    /\ \A x \in there[t] : type[x] = Listing(t) /\ Linked(x)
    /\ t \notin cut /\ pc[t].at \in Viewing \ {"wild"} =>
          \A x \in there[t] : x \in Shows(t) \/ Ahead(t, x)

ViewInv == \A t \in Threads : View(t)

LEMMA ViewInit == ASSUME Init PROVE ViewInv
BY DEF Init, ObjectsInit, ViewInv, View, Viewing, At

\* Objects come and go beside a listing.
LEMMA ViewBeside ==
    ASSUME ObjectsAssumption, ObjInv, NEW u \in Threads, View(u),
           \/ pc'[u] = pc[u]
           \/ pc[u].at \notin Viewing /\ pc'[u].at \notin Viewing,
           cursor'[u] = cursor[u], batch'[u] = batch[u], shown'[u] = shown[u],
           u \in cut' <=> u \in cut, there'[u] \subseteq there[u],
           \A x \in there'[u] :
              /\ type'[x] = type[x] /\ Linked(x)'
              /\ \A o \in Objs : Class[o] = Class[x] /\ Linked(o)' =>
                    \/ Behind(object_list'[Class[x]], o, x)
                    \/ /\ Linked(o)
                       /\ Behind(object_list[Class[x]], o, x) =>
                             Behind(object_list'[Class[x]], o, x)
    PROVE  View(u)'
<1>1. CASE pc[u].at \notin Viewing /\ pc'[u].at \notin Viewing
  BY <1>1 DEF View, Viewing, At
<1>2. CASE pc'[u] = pc[u]
  <2>1. \A x \in there'[u] : type'[x] = Listing(u)' /\ Linked(x)'
    BY <1>2 DEF View, Listing
  <2>2. /\ pc'[u].at \notin {"show", "print"} => batch'[u] = <<>>
        /\ pc'[u].at \notin Viewing \/ At(u, "listed")' => cursor'[u] = Nobody
        /\ pc'[u].at \notin Viewing => there'[u] = {}
    BY <1>2 DEF View, At
  <2>3. Shows(u)' = Shows(u)
    BY <1>2 DEF Shows, At
  <2>4. ASSUME u \notin cut', pc'[u].at \in Viewing \ {"wild"}, NEW x \in there'[u],
               x \notin Shows(u)
        PROVE  Ahead(u, x)'
    <3>1. Ahead(u, x) /\ x \in there[u] /\ type[x] = Listing(u)
      BY <1>2, <2>4 DEF View
    <3>2. x \in Objs /\ cursor[u] \in Objs \cup {Nobody}
      BY <3>1 DEF ObjInv, TypeInv, ViewOK
    <3>3. Listing(u) = Class[x]
      <4>1. Place(pc[u].at, pc[u].obj, Listing(u)) /\ pc[u].at \in Viewing
        BY <1>2, <2>4 DEF ObjInv, TypeInv, PcOK, Listing
      <4>2. Listing(u) \in Classes
        BY <4>1 DEF Place, Viewing
      <4> QED BY <3>1, <3>2, <4>2 DEF ObjInv, ListsOK, ObjectsAssumption
    <3>4. Listing(u)' = Listing(u) /\ At(u, "get")' = At(u, "get")
      BY <1>2 DEF Listing, At
    <3>5. CASE cursor[u] = Nobody
      BY <3>1, <3>4, <3>5 DEF Ahead
    <3>6. CASE cursor[u] # Nobody
      <4>1. PICK o \in Objs : o = cursor[u] /\ o = cursor'[u]
        BY <3>2, <3>6
      <4>2. Class[o] = Class[x] /\ Linked(o) => Behind(object_list[Class[x]], o, x)
        BY <3>1, <3>3, <3>6, <4>1 DEF Ahead
      <4>3. Class[o] = Class[x] /\ Linked(o)' => Behind(object_list'[Class[x]], o, x)
        BY <2>4, <4>2
      <4>4. Linked(cursor[u])' <=> Linked(o)'
        BY <4>1 DEF Linked
      <4> QED BY <3>3, <3>4, <3>6, <4>1, <4>3, <4>4 DEF Ahead
    <3> QED BY <3>5, <3>6
  <2> QED BY <2>1, <2>2, <2>3, <2>4 DEF View
<1> QED BY <1>1, <1>2

\* Nobody is at work on what was in the list all the time.
LEMMA ThereIsAtRest ==
    ASSUME ObjInv, NEW u \in Threads, View(u), NEW x \in there[u]
    PROVE  /\ x \in Objs /\ type[x] # "none" /\ Linked(x) /\ Class[x] \in Classes
           /\ \A t \in Threads : pc[t].at \in Working => pc[t].obj # x
<1>1. x \in Objs
  BY DEF ObjInv, TypeInv, ViewOK
<1>2. type[x] = Listing(u) /\ Linked(x)
  BY DEF View
<1>3. Place(pc[u].at, pc[u].obj, Listing(u)) /\ pc[u].at \in Viewing
  BY DEF ObjInv, TypeInv, PcOK, Listing, View
<1>4. Listing(u) \in Classes
  BY <1>3 DEF Place, Viewing
<1>5. type[x] # "none" /\ Class[x] = type[x]
  BY <1>1, <1>2, <1>4, ObjectsAssumption DEF ObjInv, ListsOK, ObjectsAssumption
<1>6. \A t \in Threads : pc[t].at \in Working => pc[t].obj # x
  BY <1>2, <1>5 DEF ObjInv, WorkOK, Work, At, Working
<1> QED BY <1>1, <1>2, <1>4, <1>5, <1>6

\* What ViewBeside asks of the lists, when they stay as they are.
LEMMA SameLists ==
    ASSUME UNCHANGED object_list, NEW x, NEW o \in Objs, Linked(o)'
    PROVE  /\ Linked(o)
           /\ Behind(object_list[Class[x]], o, x) => Behind(object_list'[Class[x]], o, x)
BY DEF Linked

LEMMA BeginningBeside ==
    ASSUME ObjectsAssumption, ObjInv, ViewInv, NEW t \in Threads, NEW o \in Objs,
           At(t, "ready"), NEW l \in {"insert", "remove"}, NEW then, Goto(t, l, o, then),
           UNCHANGED <<object_list, cursor, batch, shown, cut>>,
           \/ type[o] = "none" /\ UNCHANGED there /\ type' = [type EXCEPT ![o] = Class[o]]
           \/ /\ type' = [type EXCEPT ![o] = "none"]
              /\ there' = [u \in Threads |-> there[u] \ {o}]
    PROVE  ViewInv'
<1>1. /\ pc[t].at \notin Viewing /\ pc'[t].at \notin Viewing
      /\ \A u \in Threads \ {t} : pc'[u] = pc[u]
  BY DEF At, Goto, Viewing, ObjInv, TypeInv, PcOK
<1> SUFFICES ASSUME NEW u \in Threads PROVE View(u)'
  BY DEF ViewInv
<1>2. View(u)
  BY DEF ViewInv
<1>3. there'[u] \subseteq there[u]
  OBVIOUS
<1>4. ASSUME NEW x \in there'[u]
      PROVE  /\ type'[x] = type[x] /\ Linked(x)'
             /\ \A p \in Objs : Class[p] = Class[x] /\ Linked(p)' =>
                    \/ Behind(object_list'[Class[x]], p, x)
                    \/ /\ Linked(p)
                       /\ Behind(object_list[Class[x]], p, x) =>
                             Behind(object_list'[Class[x]], p, x)
  <2>1. x \in Objs /\ type[x] # "none" /\ Linked(x)
    BY <1>2, <1>3, <1>4, ThereIsAtRest
  <2>2. x # o
    BY <1>4, <2>1
  <2>3. type'[x] = type[x]
    BY <2>1, <2>2 DEF ObjInv, TypeInv, DataOK
  <2>4. Linked(x)'
    BY <2>1 DEF Linked
  <2> QED BY <2>3, <2>4, SameLists
<1>5. /\ pc'[u] = pc[u] \/ (pc[u].at \notin Viewing /\ pc'[u].at \notin Viewing)
      /\ cursor'[u] = cursor[u] /\ batch'[u] = batch[u] /\ shown'[u] = shown[u]
      /\ u \in cut' <=> u \in cut
  BY <1>1
<1> QED BY <1>2, <1>3, <1>4, <1>5, ViewBeside

LEMMA LinkBeside ==
    ASSUME ObjectsAssumption, ObjInv, ViewInv, NEW t \in Threads, Link(t)
    PROVE  ViewInv'
<1>1. PICK o \in Objs, then \in {"ready", "fields"} :
         pc[t].at \in Working /\ pc[t].obj = o /\ pc[t].then = then
  <2>1. Place(pc[t].at, pc[t].obj, pc[t].then) /\ pc[t].at = "insert"
    BY DEF ObjInv, TypeInv, PcOK, Link, At
  <2>2. pc[t].obj \in Objs /\ pc[t].then \in {"ready", "fields"}
    BY <2>1 DEF Place, Viewing
  <2> QED BY <2>1, <2>2 DEF Working
<1>2. PICK k \in Classes : k = Class[o]
  BY DEF ObjectsAssumption
<1>3. /\ object_list' = [object_list EXCEPT ![k] = <<o>> \o @]
      /\ Goto(t, then, o, "ready") /\ UNCHANGED <<type, listings>>
  BY <1>1, <1>2 DEF Link, Return
<1>4. object_list[k] \in Seq(Objs) /\ object_list'[k] = <<o>> \o object_list[k]
      /\ \A c \in Classes \ {k} : object_list'[c] = object_list[c]
  BY <1>3 DEF ObjInv, TypeInv, DataOK
<1>5. /\ pc[t].at \notin Viewing /\ pc'[t].at \notin Viewing
      /\ \A u \in Threads \ {t} : pc'[u] = pc[u]
  BY <1>1, <1>3 DEF Goto, Viewing, Working, ObjInv, TypeInv, PcOK
<1>6. Range(<<o>> \o object_list[k]) = Range(object_list[k]) \cup {o}
  BY <1>4, ConsRange
<1>7. /\ \A p, x : Behind(object_list[k], p, x) => Behind(<<o>> \o object_list[k], p, x)
      /\ \A x \in Range(object_list[k]) : Behind(<<o>> \o object_list[k], o, x)
  BY <1>4, ConsKeepsOrder
<1> SUFFICES ASSUME NEW u \in Threads PROVE View(u)'
  BY DEF ViewInv
<1>8. View(u)
  BY DEF ViewInv
<1>9. ASSUME NEW x \in there[u]
      PROVE  /\ type'[x] = type[x] /\ Linked(x)'
             /\ \A p \in Objs : Class[p] = Class[x] /\ Linked(p)' =>
                    \/ Behind(object_list'[Class[x]], p, x)
                    \/ /\ Linked(p)
                       /\ Behind(object_list[Class[x]], p, x) =>
                             Behind(object_list'[Class[x]], p, x)
  <2>1. x \in Objs /\ Linked(x) /\ Class[x] \in Classes /\ x # o
    BY <1>1, <1>8, ThereIsAtRest
  <2>2. \A p \in Objs : Linked(p)' <=> (Linked(p) \/ p = o)
    BY <1>2, <1>4, <1>6 DEF Linked, ObjectsAssumption
  <2>3. ASSUME NEW p \in Objs, Class[p] = Class[x], Linked(p)', p # o
        PROVE  /\ Linked(p)
               /\ Behind(object_list[Class[x]], p, x) =>
                     Behind(object_list'[Class[x]], p, x)
    <3>1. CASE Class[x] = k
      <4>1. Behind(object_list[k], p, x) => Behind(<<o>> \o object_list[k], p, x)
        BY <1>7
      <4> QED BY <1>4, <2>2, <2>3, <3>1, <4>1
    <3>2. CASE Class[x] # k
      BY <1>4, <2>1, <2>2, <2>3, <3>2
    <3> QED BY <3>1, <3>2
  <2>4. ASSUME Class[o] = Class[x] PROVE Behind(object_list'[Class[x]], o, x)
    BY <1>2, <1>4, <1>7, <2>1, <2>4 DEF Linked
  <2> QED BY <1>3, <2>1, <2>2, <2>3, <2>4
<1>10. /\ pc'[u] = pc[u] \/ (pc[u].at \notin Viewing /\ pc'[u].at \notin Viewing)
      /\ cursor'[u] = cursor[u] /\ batch'[u] = batch[u] /\ shown'[u] = shown[u]
      /\ (u \in cut' <=> u \in cut) /\ there'[u] = there[u]
  BY <1>3, <1>5 DEF listings
<1> QED BY <1>8, <1>9, <1>10, ViewBeside

LEMMA UnlinkBeside ==
    ASSUME ObjectsAssumption, ObjInv, ViewInv, NEW t \in Threads, Unlink(t)
    PROVE  ViewInv'
<1>1. PICK o \in Objs, then \in {"ready", "free"} :
         pc[t].at \in Working /\ pc[t].obj = o /\ pc[t].then = then
  <2>1. Place(pc[t].at, pc[t].obj, pc[t].then) /\ pc[t].at = "remove"
    BY DEF ObjInv, TypeInv, PcOK, Unlink, At
  <2>2. pc[t].obj \in Objs /\ pc[t].then \in {"ready", "free"}
    BY <2>1 DEF Place, Viewing
  <2> QED BY <2>1, <2>2 DEF Working
<1>2. PICK k \in Classes : k = Class[o]
  BY DEF ObjectsAssumption
<1>3. /\ object_list' = [object_list EXCEPT ![k] = RemoveFirst(@, o)]
      /\ Goto(t, then, o, "ready") /\ UNCHANGED <<type, listings>>
  BY <1>1, <1>2 DEF Unlink, Return
<1>4. /\ object_list[k] \in Seq(Objs) /\ object_list'[k] = RemoveFirst(object_list[k], o)
      /\ \A c \in Classes \ {k} : object_list'[c] = object_list[c]
  BY <1>3 DEF ObjInv, TypeInv, DataOK
<1>5. /\ pc[t].at \notin Viewing /\ pc'[t].at \notin Viewing
      /\ \A u \in Threads \ {t} : pc'[u] = pc[u]
  BY <1>1, <1>3 DEF Goto, Viewing, Working, ObjInv, TypeInv, PcOK
<1>6. Range(RemoveFirst(object_list[k], o)) = Range(object_list[k]) \ {o}
  BY <1>4, RemoveFirstRange DEF ObjInv, ListsOK
<1> SUFFICES ASSUME NEW u \in Threads PROVE View(u)'
  BY DEF ViewInv
<1>7. View(u)
  BY DEF ViewInv
<1>8. ASSUME NEW x \in there[u]
      PROVE  /\ type'[x] = type[x] /\ Linked(x)'
             /\ \A p \in Objs : Class[p] = Class[x] /\ Linked(p)' =>
                    \/ Behind(object_list'[Class[x]], p, x)
                    \/ /\ Linked(p)
                       /\ Behind(object_list[Class[x]], p, x) =>
                             Behind(object_list'[Class[x]], p, x)
  <2>1. x \in Objs /\ Linked(x) /\ Class[x] \in Classes /\ x # o
    BY <1>1, <1>7, ThereIsAtRest
  <2>2. \A p \in Objs : Linked(p)' => Linked(p)
    BY <1>4, <1>6 DEF Linked, ObjectsAssumption
  <2>3. Linked(x)'
    BY <1>4, <1>6, <2>1 DEF Linked
  <2>4. ~(Class[o] = Class[x] /\ Linked(o)')
    BY <1>2, <1>4, <1>6 DEF Linked
  <2>5. ASSUME NEW p \in Objs, p # o, Behind(object_list[Class[x]], p, x)
        PROVE  Behind(object_list'[Class[x]], p, x)
    BY <1>4, <2>1, <2>5, RemovalKeepsOrder
  <2> QED BY <1>3, <2>2, <2>3, <2>4, <2>5
<1>9. /\ pc'[u] = pc[u] \/ (pc[u].at \notin Viewing /\ pc'[u].at \notin Viewing)
      /\ cursor'[u] = cursor[u] /\ batch'[u] = batch[u] /\ shown'[u] = shown[u]
      /\ (u \in cut' <=> u \in cut) /\ there'[u] = there[u]
  BY <1>3, <1>5 DEF listings
<1> QED BY <1>7, <1>8, <1>9, ViewBeside

\* A thread that is touched by nothing.
LEMMA UntouchedBeside ==
    ASSUME ObjectsAssumption, ObjInv, NEW u \in Threads, View(u),
           UNCHANGED <<type, object_list>>,
           \/ pc'[u] = pc[u]
           \/ pc[u].at \notin Viewing /\ pc'[u].at \notin Viewing,
           cursor'[u] = cursor[u], batch'[u] = batch[u], shown'[u] = shown[u],
           u \in cut' <=> u \in cut, there'[u] = there[u]
    PROVE  View(u)'
<1>1. ASSUME NEW x \in there[u]
      PROVE  /\ type'[x] = type[x] /\ Linked(x)'
             /\ \A p \in Objs : Class[p] = Class[x] /\ Linked(p)' =>
                    \/ Behind(object_list'[Class[x]], p, x)
                    \/ /\ Linked(p)
                       /\ Behind(object_list[Class[x]], p, x) =>
                             Behind(object_list'[Class[x]], p, x)
  <2>1. Linked(x)'
    BY ThereIsAtRest DEF Linked
  <2> QED BY <2>1, SameLists
<1> QED BY <1>1, ViewBeside

LEMMA OthersBeside ==
    ASSUME ObjectsAssumption, ObjInv, ViewInv,
           UNCHANGED <<type, object_list, listings>>,
           \A u \in Threads : \/ pc'[u] = pc[u]
                              \/ pc[u].at \notin Viewing /\ pc'[u].at \notin Viewing
    PROVE  ViewInv'
BY UntouchedBeside DEF ViewInv, listings

-----------------------------------------------------------------------------
(* The steps of a listing.                                                 *)

\* They touch the listings of the others as little.
LEMMA ListingsApart ==
    ASSUME ObjectsAssumption, ObjInv, ViewInv, NEW t \in Threads,
           ListingStep(t) \/ Command(t), View(t)'
    PROVE  ViewInv'
<1> SUFFICES ASSUME NEW u \in Threads \ {t} PROVE View(u)'
  BY DEF ViewInv
<1>1. \E l, o, then : UNCHANGED pc \/ Goto(t, l, o, then)
  BY DEF ListingStep, GetNext, GetNextGone, GetNextNull, TestObject, PrintObject,
     ShowNext, EndListing, Ready, Command, StartListing, Goto, list_thread, list_sem,
     list_event, list_mutex, list_mailbox, list_msgqueue, list_memheap, list_mempool,
     list_timer, list_device
<1>2. pc'[u] = pc[u]
  BY <1>1 DEF Goto, ObjInv, TypeInv, PcOK
<1>3. /\ UNCHANGED <<type, object_list>>
      /\ cursor'[u] = cursor[u] /\ batch'[u] = batch[u] /\ shown'[u] = shown[u]
      /\ there'[u] = there[u] /\ (u \in cut' <=> u \in cut)
  <2>1. ViewOK
    BY DEF ObjInv, TypeInv
  <2>2. CASE ListingStep(t)
    BY <2>1, <2>2 DEF ViewOK, ListingStep, GetNext, GetNextGone, GetNextNull, TestObject,
       PrintObject, ShowNext, EndListing, containers, listings
  <2>3. CASE \E c : StartListing(t, c)
    BY <2>1, <2>3 DEF ViewOK, StartListing, containers
  <2>4. Command(t) => \E c : StartListing(t, c)
    BY DEF Command, list_thread, list_sem, list_event, list_mutex, list_mailbox,
       list_msgqueue, list_memheap, list_mempool, list_timer, list_device
  <2> QED BY <2>2, <2>3, <2>4
<1> QED BY <1>2, <1>3, UntouchedBeside DEF ViewInv

\* The next object is the head of the batch.
LEMMA HeadAndTail ==
    ASSUME NEW S, NEW s \in Seq(S), s # <<>>
    PROVE  Range(s) = {Head(s)} \cup Range(Tail(s))
<1>1. /\ Len(s) \in Nat \ {0} /\ DOMAIN s = 1..Len(s)
      /\ Tail(s) \in Seq(S) /\ Len(Tail(s)) = Len(s) - 1 /\ Head(s) = s[1]
  BY EmptySeq, LenProperties, HeadTailProperties
<1>2. DOMAIN Tail(s) = 1..Len(s)-1
  BY <1>1, LenProperties
<1>3. \A i \in 1..Len(s)-1 : Tail(s)[i] = s[i+1]
  BY <1>1
<1>4. ASSUME NEW i \in 1..Len(s) PROVE s[i] \in {Head(s)} \cup Range(Tail(s))
  <2>1. CASE i = 1
    BY <1>1, <2>1
  <2>2. CASE i # 1
    <3>1. i - 1 \in 1..Len(s)-1 /\ Tail(s)[i-1] = s[i]
      BY <1>1, <1>3, <2>2
    <3> QED BY <1>2, <3>1 DEF Range
  <2> QED BY <2>1, <2>2
<1>5. ASSUME NEW i \in 1..Len(s)-1 PROVE Tail(s)[i] \in Range(s)
  BY <1>1, <1>3 DEF Range
<1>6. Head(s) \in Range(s)
  BY <1>1 DEF Range
<1> QED BY <1>1, <1>2, <1>4, <1>5, <1>6 DEF Range

LEMMA StartViews ==
    ASSUME ObjectsAssumption, ObjInv, NEW t \in Threads, View(t),
           NEW c \in Classes, StartListing(t, c)
    PROVE  View(t)'
<1>1. /\ At(t, "ready") /\ pc' = [pc EXCEPT ![t] = [at |-> "get", obj |-> Nobody, then |-> c]]
      /\ there' = [there EXCEPT ![t] = {o \in Range(object_list[c]) : type[o] = c}]
      /\ UNCHANGED <<type, object_list, cursor, batch, shown, cut>>
  BY DEF StartListing, containers
<1>2. /\ pc'[t].at = "get" /\ Listing(t)' = c
      /\ there'[t] = {o \in Range(object_list[c]) : type[o] = c}
  BY <1>1 DEF ObjInv, TypeInv, PcOK, ViewOK, Listing
<1>3. cursor'[t] = Nobody /\ batch'[t] = <<>>
  BY <1>1 DEF View, At, Viewing
<1>4. \A x \in there'[t] : type'[x] = c /\ Linked(x)'
  <2>1. \A x \in Range(object_list[c]) : Class[x] = c
    BY DEF ObjInv, ListsOK
  <2> QED BY <1>1, <1>2, <2>1 DEF Linked
<1>5. \A x \in there'[t] : Ahead(t, x)'
  BY <1>2, <1>3 DEF Ahead, At
<1> QED BY <1>2, <1>3, <1>4, <1>5 DEF View, At, Viewing

LEMMA GetNextViews ==
    ASSUME ObjectsAssumption, ObjInv, NEW t \in Threads, View(t), GetNext(t)
    PROVE  View(t)'
<1>1. PICK k \in Classes : k = pc[t].then
  <2>1. Place(pc[t].at, pc[t].obj, pc[t].then) /\ pc[t].at = "get"
    BY DEF ObjInv, TypeInv, PcOK, GetNext, At
  <2> QED BY <2>1 DEF Place, Viewing
<1>2. PICK o \in Objs \cup {Nobody} : o = cursor[t]
  BY DEF ObjInv, TypeInv, ViewOK
<1>3. PICK b \in Seq(Objs) : b = Batch(k, o)
  BY <1>1, <1>2, BatchIs DEF ObjInv
<1>4. /\ At(t, "get")
      /\ o # Nobody => type[o] = k
      /\ batch' = [batch EXCEPT ![t] = b]
      /\ cursor' = [cursor EXCEPT ![t] =
            IF Len(batch'[t]) = LIST_FIND_OBJ_NR THEN Last(batch'[t]) ELSE Nobody]
      /\ Goto(t, "show", Nobody, k)
      /\ UNCHANGED <<type, object_list, shown, there, cut>>
  BY <1>1, <1>2, <1>3 DEF GetNext, Listing, containers
<1>5. /\ batch'[t] = b
      /\ cursor'[t] = IF Len(b) = LIST_FIND_OBJ_NR THEN Last(b) ELSE Nobody
  BY <1>4 DEF ObjInv, TypeInv, ViewOK
<1>6. pc'[t].at = "show" /\ pc'[t].then = k
  <2>1. Place("show", Nobody, k)
    BY DEF Place, Viewing
  <2> QED BY <1>4, <2>1, MovesTo DEF ObjInv, TypeInv
<1>7. \A x \in there'[t] : type'[x] = Listing(t)' /\ Linked(x)'
  BY <1>1, <1>4, <1>6 DEF View, Listing, Linked
<1>8. ASSUME t \notin cut', NEW x \in there'[t] PROVE x \in Shows(t)' \/ Ahead(t, x)'
  <2>1. /\ x \in shown[t] \/ Ahead(t, x)
        /\ type[x] = k /\ Linked(x)
    <3>1. x \in there[t] /\ t \notin cut /\ pc[t].at = "get" /\ batch[t] = <<>>
      BY <1>4, <1>8 DEF View, At
    <3>2. Range(batch[t]) = {}
      BY <3>1 DEF Range
    <3> QED BY <1>1, <3>1, <3>2 DEF View, Shows, At, Viewing, Listing
  <2>2. CASE x \in shown[t]
    BY <1>4, <2>2 DEF Shows
  <2>3. CASE Ahead(t, x)
    <3>1. x \in Objs /\ Class[x] = k /\ x \in Range(object_list[k])
      <4>1. x \in Objs
        BY <1>4, <1>8 DEF ObjInv, TypeInv, ViewOK
      <4> QED BY <2>1, <4>1 DEF ObjInv, ListsOK, Linked, ObjectsAssumption
    <3>2. o # Nobody => o \in Objs /\ Class[o] = k
      <4>1. o # Nobody => o \in Objs /\ type[o] = k
        BY <1>4
      <4> QED BY <4>1 DEF ObjInv, ListsOK, ObjectsAssumption
    <3>3. CASE o # Nobody /\ ~Linked(o)
      <4>1. Len(b) = LIST_FIND_OBJ_NR /\ Last(b) = o
        BY <1>2, <1>3, <3>3, BatchIs DEF ObjInv
      <4>2. cursor'[t] = o /\ ~Linked(o)'
        BY <1>4, <1>5, <3>3, <4>1 DEF Linked
      <4>3. ~Linked(cursor[t])'
        BY <4>2 DEF Linked
      <4> QED BY <3>3, <4>2, <4>3 DEF Ahead
    <3>4. CASE o = Nobody \/ Linked(o)
      <4>1. o = Nobody \/ Behind(object_list[k], o, x)
        BY <1>1, <1>2, <2>3, <3>2, <3>4 DEF Ahead, Listing
      <4>2. x \in Range(b) \/ (Len(b) = LIST_FIND_OBJ_NR /\ Behind(object_list[k], Last(b), x))
        <5>1. IsInjective(object_list[k]) /\ (o = Nobody \/ (Class[o] = k /\ Linked(o)))
          BY <3>2, <3>4 DEF ObjInv, ListsOK
        <5>2. \A y \in Range(object_list[k]) :
                 (o = Nobody \/ Behind(object_list[k], o, y)) =>
                    \/ y \in Range(Batch(k, o))
                    \/ /\ Len(Batch(k, o)) = LIST_FIND_OBJ_NR
                       /\ Behind(object_list[k], Last(Batch(k, o)), y)
          BY <5>1, BatchIs DEF ObjInv
        <5> QED BY <1>3, <3>1, <4>1, <5>2
      <4>3. CASE x \in Range(b)
        BY <1>5, <4>3 DEF Shows
      <4>4. CASE Len(b) = LIST_FIND_OBJ_NR /\ Behind(object_list[k], Last(b), x)
        <5>1. cursor'[t] = Last(b) /\ Last(b) # Nobody
          BY <1>3, <1>5, <4>4, BatchIs DEF ObjInv, ObjectsAssumption
        <5> QED BY <1>4, <1>6, <4>4, <5>1 DEF Ahead, Listing
      <4> QED BY <4>2, <4>3, <4>4
    <3> QED BY <3>3, <3>4
  <2> QED BY <2>1, <2>2, <2>3
<1> QED BY <1>6, <1>7, <1>8 DEF View, At, Viewing

LEMMA TestViews ==
    ASSUME ObjInv, NEW t \in Threads, View(t), TestObject(t)
    PROVE  View(t)'
<1>1. PICK b \in Seq(Objs) : b = batch[t] /\ b # <<>>
  BY DEF ObjInv, TypeInv, ViewOK, TestObject
<1>2. PICK h \in Objs : h = Head(b)
  BY <1>1, HeadTailProperties
<1>3. Range(b) = {h} \cup Range(Tail(b))
  BY <1>1, <1>2, HeadAndTail
<1>4. /\ pc[t].at = "show" /\ batch'[t] = Tail(b)
      /\ UNCHANGED <<type, object_list, cursor, shown, there, cut>>
  BY <1>1 DEF TestObject, ObjInv, TypeInv, ViewOK, containers, At
<1>5. PICK k \in Classes : k = pc[t].then
  <2>1. Place(pc[t].at, pc[t].obj, pc[t].then)
    BY DEF ObjInv, TypeInv, PcOK
  <2> QED BY <1>4, <2>1 DEF Place, Viewing
<1>6. /\ pc'[t].then = k
      /\ \/ pc'[t].at = "print" /\ pc'[t].obj = h
         \/ pc'[t].at = "show" /\ type[h] # k
  <2>1. CASE type[h] = k
    <3>1. Goto(t, "print", h, k)
      BY <1>1, <1>2, <1>5, <2>1 DEF TestObject, Listing
    <3>2. Place("print", h, k)
      BY DEF Place
    <3> QED BY <3>1, <3>2, MovesTo DEF ObjInv, TypeInv
  <2>2. CASE type[h] # k
    BY <1>1, <1>2, <1>4, <1>5, <2>2 DEF TestObject, Listing
  <2> QED BY <2>1, <2>2
<1>7. \A x \in there'[t] : type'[x] = Listing(t)' /\ Linked(x)'
  BY <1>4, <1>5, <1>6 DEF View, Listing, Linked
<1>8. ASSUME t \notin cut', NEW x \in there'[t] PROVE x \in Shows(t)' \/ Ahead(t, x)'
  <2>1. /\ x \in shown[t] \cup {h} \cup Range(Tail(b)) \/ Ahead(t, x)
        /\ type[x] = k
    BY <1>1, <1>3, <1>4, <1>5, <1>8 DEF View, Shows, At, Viewing, Listing
  <2>2. CASE x \in shown[t] \cup Range(Tail(b))
    BY <1>4, <2>2 DEF Shows
  <2>3. CASE x = h
    BY <1>6, <2>1, <2>3 DEF Shows, At
  <2>4. CASE Ahead(t, x)
    BY <1>4, <1>5, <1>6, <2>4 DEF Ahead, At, Listing, Linked
  <2> QED BY <2>1, <2>2, <2>3, <2>4
<1> QED BY <1>4, <1>6, <1>7, <1>8 DEF View, At, Viewing

LEMMA PrintViews ==
    ASSUME ObjInv, NEW t \in Threads, View(t), PrintObject(t)
    PROVE  View(t)'
<1>1. PICK k \in Classes, h \in Objs : k = pc[t].then /\ h = pc[t].obj
  <2>1. Place(pc[t].at, pc[t].obj, pc[t].then) /\ pc[t].at = "print"
    BY DEF ObjInv, TypeInv, PcOK, PrintObject, At
  <2> QED BY <2>1 DEF Place, Viewing
<1>2. /\ pc[t].at = "print" /\ shown'[t] = shown[t] \cup {h}
      /\ Goto(t, "show", Nobody, k)
      /\ UNCHANGED <<type, object_list, cursor, batch, there, cut>>
  BY <1>1 DEF PrintObject, ObjInv, TypeInv, ViewOK, containers, At, Listing
<1>3. pc'[t].at = "show" /\ pc'[t].then = k
  <2>1. Place("show", Nobody, k)
    BY DEF Place, Viewing
  <2> QED BY <1>2, <2>1, MovesTo DEF ObjInv, TypeInv
<1>4. \A x \in there'[t] : type'[x] = Listing(t)' /\ Linked(x)'
  BY <1>1, <1>2, <1>3 DEF View, Listing, Linked
<1>5. ASSUME t \notin cut', NEW x \in there'[t] PROVE x \in Shows(t)' \/ Ahead(t, x)'
  <2>1. x \in Shows(t) \/ Ahead(t, x)
    BY <1>2, <1>5 DEF View, Viewing
  <2>2. Shows(t) = Shows(t)'
    BY <1>1, <1>2, <1>3 DEF Shows, At
  <2>3. Ahead(t, x) => Ahead(t, x)'
    BY <1>1, <1>2, <1>3 DEF Ahead, At, Listing, Linked
  <2> QED BY <2>1, <2>2, <2>3
<1> QED BY <1>2, <1>3, <1>4, <1>5 DEF View, At, Viewing

\* Behind the last batch there is nothing.
LEMMA NextViews ==
    ASSUME ObjInv, NEW t \in Threads, View(t), ShowNext(t)
    PROVE  View(t)'
<1>1. PICK k \in Classes : k = pc[t].then
  <2>1. Place(pc[t].at, pc[t].obj, pc[t].then) /\ pc[t].at = "show"
    BY DEF ObjInv, TypeInv, PcOK, ShowNext, At
  <2> QED BY <2>1 DEF Place, Viewing
<1>2. /\ pc[t].at = "show" /\ batch[t] = <<>>
      /\ Goto(t, IF cursor[t] = Nobody THEN "listed" ELSE "get", Nobody, k)
      /\ UNCHANGED <<type, object_list, cursor, batch, shown, there, cut>>
  BY <1>1 DEF ShowNext, containers, listings, At, Listing
<1>3. /\ pc'[t].at = IF cursor[t] = Nobody THEN "listed" ELSE "get"
      /\ pc'[t].then = k
  <2>1. Place("listed", Nobody, k) /\ Place("get", Nobody, k)
    BY DEF Place, Viewing
  <2> QED BY <1>2, <2>1, MovesTo DEF ObjInv, TypeInv
<1>4. \A x \in there'[t] : type'[x] = Listing(t)' /\ Linked(x)'
  BY <1>1, <1>2, <1>3 DEF View, Listing, Linked
<1>5. ASSUME t \notin cut', NEW x \in there'[t] PROVE x \in Shows(t)' \/ Ahead(t, x)'
  <2>1. x \in Shows(t) \/ Ahead(t, x)
    BY <1>2, <1>5 DEF View, Viewing
  <2>2. Shows(t) = Shows(t)'
    BY <1>2, <1>3 DEF Shows, At
  <2>3. Ahead(t, x) => Ahead(t, x)'
    BY <1>1, <1>2, <1>3 DEF Ahead, At, Listing, Linked
  <2> QED BY <2>1, <2>2, <2>3
<1> QED BY <1>2, <1>3, <1>4, <1>5 DEF View, At, Viewing

\* A listing loses its place, or comes to its end.
LEMMA EndViews ==
    ASSUME ObjInv, NEW t \in Threads, View(t),
           GetNextGone(t) \/ GetNextNull(t) \/ EndListing(t)
    PROVE  View(t)'
<1>1. CASE GetNextGone(t) \/ GetNextNull(t)
  <2>1. PICK k \in Classes : k = pc[t].then /\ pc[t].at = "get"
    <3>1. Place(pc[t].at, pc[t].obj, pc[t].then) /\ pc[t].at = "get"
      BY <1>1 DEF ObjInv, TypeInv, PcOK, GetNextGone, GetNextNull, At
    <3> QED BY <3>1 DEF Place, Viewing
  <2>2. /\ UNCHANGED <<type, object_list, batch, shown, there>>
        /\ \/ Goto(t, "show", Nobody, k) /\ t \in cut'
           \/ Goto(t, "wild", Nobody, k) /\ UNCHANGED cut
    BY <1>1, <2>1 DEF GetNextGone, GetNextNull, Listing, containers, listings
  <2>3. /\ pc'[t].then = k
        /\ pc'[t].at = "wild" \/ (pc'[t].at = "show" /\ t \in cut')
    <3>1. Place("show", Nobody, k) /\ Place("wild", Nobody, k)
      BY DEF Place, Viewing
    <3> QED BY <2>2, <3>1, MovesTo DEF ObjInv, TypeInv
  <2>4. \A x \in there'[t] : type'[x] = Listing(t)' /\ Linked(x)'
    BY <2>1, <2>2, <2>3 DEF View, Listing, Linked
  <2> QED BY <2>1, <2>2, <2>3, <2>4 DEF View, At, Viewing
<1>2. CASE EndListing(t)
  <2>1. /\ At(t, "listed") /\ Goto(t, "ready", Nobody, "ready")
        /\ there'[t] = {} /\ UNCHANGED <<cursor, batch>>
    BY <1>2 DEF EndListing, Ready, ObjInv, TypeInv, ViewOK
  <2>2. pc'[t].at = "ready"
    BY <2>1, MovesReady DEF ObjInv, TypeInv
  <2> QED BY <2>1, <2>2 DEF View, At, Viewing
<1> QED BY <1>1, <1>2

LEMMA ViewKept ==
    ASSUME ObjectsAssumption, ObjInv, ViewInv, [Next]_vars
    PROVE  ViewInv'
<1>1. ASSUME NEW t \in Threads, ObjectStep(t) PROVE ViewInv'
  <2>1. ASSUME NEW o \in Objs, NEW n \in Names,
               \/ At(t, "ready") /\ InitObject(t, o, n, "ready")
               \/ AllocateObject(t, o, n)
        PROVE  ViewInv'
    <3>1. /\ At(t, "ready") /\ type[o] = "none"
          /\ type' = [type EXCEPT ![o] = Class[o]]
          /\ Goto(t, "insert", o, "ready")
          /\ UNCHANGED <<object_list, cursor, batch, shown, there, cut>>
      BY <2>1 DEF InitObject, AllocateObject, listings
    <3> QED BY <3>1, BeginningBeside
  <2>2. ASSUME NEW o \in Objs, DetachObject(t, o) \/ DeleteObject(t, o) PROVE ViewInv'
    <3>1. At(t, "ready") /\ (EndObject(t, o, "ready") \/ EndObject(t, o, "free"))
      BY <2>2 DEF DetachObject, DeleteObject
    <3>2. /\ type' = [type EXCEPT ![o] = "none"]
          /\ there' = [u \in Threads |-> there[u] \ {o}]
          /\ Goto(t, "remove", o, "ready") \/ Goto(t, "remove", o, "free")
          /\ UNCHANGED <<object_list, cursor, batch, shown, cut>>
      BY <3>1 DEF EndObject
    <3> QED BY <3>1, <3>2, BeginningBeside
  <2>3. CASE Free(t)
    <3>1. /\ UNCHANGED <<type, object_list, listings>>
          /\ Goto(t, "ready", Nobody, "ready") /\ pc[t].at \notin Viewing
      BY <2>3 DEF Free, Ready, containers, At, Viewing
    <3>2. pc'[t].at \notin Viewing /\ \A u \in Threads \ {t} : pc'[u] = pc[u]
      BY <3>1, MovesReady DEF ObjInv, TypeInv, Viewing
    <3> QED BY <3>1, <3>2, OthersBeside
  <2> QED BY <1>1, <2>1, <2>2, <2>3, LinkBeside, UnlinkBeside DEF ObjectStep
<1>2. ASSUME NEW t \in Threads, Command(t) \/ ListingStep(t) PROVE ViewInv'
  <2>1. View(t)
    BY DEF ViewInv
  <2>2. Command(t) => \E c \in Classes : StartListing(t, c)
    BY DEF ObjectsAssumption, Command, list_thread, list_sem, list_event, list_mutex,
       list_mailbox, list_msgqueue, list_memheap, list_mempool, list_timer, list_device
  <2>3. View(t)'
    BY <1>2, <2>1, <2>2, StartViews, GetNextViews, TestViews, PrintViews, NextViews,
       EndViews DEF ListingStep
  <2> QED BY <1>2, <2>3, ListingsApart
<1>3. ASSUME NEW t \in Threads, DeviceStep(t) PROVE ViewInv'
  <2>1. Elsewhere(t) \/ Registers(t)
    BY <1>3, DeviceStepIs DEF ObjInv
  <2>2. CASE Elsewhere(t)
    <3>1. UNCHANGED <<type, object_list, listings>> /\ pc[t].at \notin Viewing
      BY <2>2 DEF Elsewhere, containers, At, Viewing
    <3>2. pc'[t].at \notin Viewing /\ \A u \in Threads \ {t} : pc'[u] = pc[u]
      <4>1. CASE UNCHANGED pc
        BY <3>1, <4>1
      <4>2. ASSUME NEW l, NEW o, NEW then, Goto(t, l, o, then),
                   l \notin Working \cup Viewing
            PROVE  pc'[t].at \notin Viewing /\ \A u \in Threads \ {t} : pc'[u] = pc[u]
        BY <4>2 DEF Goto, ObjInv, TypeInv, PcOK
      <4> QED BY <2>2, <4>1, <4>2 DEF Elsewhere
    <3> QED BY <3>1, <3>2, OthersBeside
  <2>3. CASE Registers(t)
    <3>1. ASSUME NEW d \in Devs, NEW n \in Names, InitObject(t, d, n, "fields")
          PROVE  ViewInv'
      <4>1. /\ At(t, "ready") /\ type[d] = "none" /\ d \in Objs
            /\ type' = [type EXCEPT ![d] = Class[d]]
            /\ Goto(t, "insert", d, "fields")
            /\ UNCHANGED <<object_list, cursor, batch, shown, there, cut>>
        BY <2>3, <3>1 DEF Registers, InitObject, listings, Devs
      <4> QED BY <4>1, BeginningBeside
    <3>2. ASSUME NEW d \in Devs, EndObject(t, d, "ready") PROVE ViewInv'
      <4>1. /\ At(t, "ready") /\ d \in Objs
            /\ type' = [type EXCEPT ![d] = "none"]
            /\ there' = [u \in Threads |-> there[u] \ {d}]
            /\ Goto(t, "remove", d, "ready")
            /\ UNCHANGED <<object_list, cursor, batch, shown, cut>>
        BY <2>3, <3>2 DEF Registers, EndObject, Devs
      <4> QED BY <4>1, BeginningBeside
    <3> QED BY <2>3, <3>1, <3>2 DEF Registers
  <2> QED BY <2>1, <2>2, <2>3
<1>4. ASSUME UNCHANGED <<containers, pc, listings>> PROVE ViewInv'
  BY <1>4, OthersBeside DEF containers
<1>5. ASSUME NEW d \in Devs, Receive(d) PROVE ViewInv'
  <2>1. UNCHANGED <<containers, pc, listings>>
    BY <1>5 DEF Receive
  <2> QED BY <1>4, <2>1
<1>6. CASE UNCHANGED vars
  BY <1>4, <1>6 DEF vars
<1> QED BY <1>1, <1>2, <1>3, <1>5, <1>6 DEF Next

\* A listing that did not lose its place has shown every object that was in the
\* list from its start to its end, whatever came and went between its batches.
THEOREM ListingsAreCompleteHolds == Spec => []ListingsAreComplete
<1>1. Init => ObjInv /\ ViewInv
  BY ObjectsAssumption, ObjInvInit, ViewInit
<1>2. (ObjInv /\ ViewInv) /\ [Next]_vars => (ObjInv /\ ViewInv)'
  BY ObjectsAssumption, ObjInvKept, ViewKept
<1>3. ViewInv => ListingsAreComplete
  <2> SUFFICES ASSUME ViewInv, NEW t \in Threads, At(t, "listed"), t \notin cut
               PROVE  there[t] \subseteq shown[t]
    BY DEF ListingsAreComplete
  <2>1. View(t) /\ batch[t] = <<>> /\ cursor[t] = Nobody
    BY DEF ViewInv, View, At
  <2>2. Range(batch[t]) = {}
    BY <2>1 DEF Range
  <2> QED BY <2>1, <2>2 DEF View, Shows, Ahead, At, Viewing
<1> QED BY <1>1, <1>2, <1>3, PTL DEF Spec

-----------------------------------------------------------------------------
(* The sum of the opens of a device.                                       *)

Total(h, d) == MapThenSumSet(LAMBDA t : h[t][d], Threads)

Pick(s) == CHOOSE x \in s : TRUE

\* F is the sum, set by set.
Totals(F, h, d) == \A s \in SUBSET Threads :
    F[s] = IF s = {} THEN 0 ELSE h[Pick(s)][d] + F[s \ {Pick(s)}]

\* One taken from a set of threads leaves a smaller one.
LEMMA Picked ==
    ASSUME IsFiniteSet(Threads), NEW s \in SUBSET Threads, s # {}
    PROVE  /\ Pick(s) \in s /\ s \ {Pick(s)} \in SUBSET Threads
           /\ Cardinality(s) \in Nat /\ Cardinality(s \ {Pick(s)}) = Cardinality(s) - 1
<1>1. Pick(s) \in s
  BY DEF Pick
<1>2. IsFiniteSet(s)
  BY FS_Subset
<1>3. Cardinality(s) \in Nat
  BY <1>2, FS_CardinalityType
<1>4. Cardinality(s \ {Pick(s)}) = Cardinality(s) - 1
  BY <1>1, <1>2, FS_RemoveElement
<1> QED BY <1>1, <1>3, <1>4

\* Of the sets for which something fails, one is as small as any.
LEMMA LeastSet ==
    ASSUME IsFiniteSet(Threads), NEW Bad \in SUBSET (SUBSET Threads), Bad # {}
    PROVE  \E s \in Bad : s # {} => s \ {Pick(s)} \notin Bad
<1> DEFINE Sizes == {Cardinality(s) : s \in Bad}
<1>1. Sizes \in SUBSET Nat /\ Sizes # {}
  BY FS_Subset, FS_CardinalityType
<1>2. PICK n \in Sizes : \A m \in Sizes : n <= m
  <2> HIDE DEF Sizes
  <2> QED BY <1>1, HasLeast
<1>3. PICK s \in Bad : n = Cardinality(s)
  BY <1>2
<1>4. ASSUME s # {}, s \ {Pick(s)} \in Bad PROVE FALSE
  <2>1. Cardinality(s) \in Nat /\ Cardinality(s \ {Pick(s)}) = Cardinality(s) - 1
    BY <1>4, Picked
  <2>2. n <= Cardinality(s \ {Pick(s)})
    BY <1>2, <1>4
  <2> QED BY <1>3, <2>1, <2>2
<1> QED BY <1>4

\* The sum over all sets of at most n threads.
Small(n) == {s \in SUBSET Threads : Cardinality(s) <= n}
SumsTo(F, n, h, d) ==
    /\ F \in [Small(n) -> Nat]
    /\ \A s \in Small(n) : F[s] = IF s = {} THEN 0 ELSE h[Pick(s)][d] + F[s \ {Pick(s)}]

LEMMA SumsUpTo ==
    ASSUME IsFiniteSet(Threads), NEW h \in [Threads -> [Objs -> Nat]], NEW d \in Objs,
           NEW n \in Nat
    PROVE  \E F : SumsTo(F, n, h, d)
<1> DEFINE Bad == {m \in Nat : ~ \E F : SumsTo(F, m, h, d)}
<1>1. SUFFICES ASSUME Bad # {} PROVE FALSE
  BY <1>1
<1>2. PICK m \in Bad : \A y \in Bad : m <= y
  <2>1. Bad \in SUBSET Nat
    OBVIOUS
  <2> HIDE DEF Bad
  <2> QED BY <1>1, <2>1, HasLeast
<1>3. m \in Nat /\ ~ \E F : SumsTo(F, m, h, d)
  BY <1>2
<1>4. CASE m = 0
  <2> DEFINE F == [s \in Small(0) |-> 0]
  <2>1. \A s \in Small(0) : s = {}
    <3> SUFFICES ASSUME NEW s \in SUBSET Threads, Cardinality(s) <= 0 PROVE s = {}
      BY DEF Small
    <3>1. IsFiniteSet(s)
      BY FS_Subset
    <3>2. Cardinality(s) \in Nat
      BY <3>1, FS_CardinalityType
    <3>3. Cardinality(s) = 0
      BY <3>2
    <3> QED BY <3>1, <3>3, FS_EmptySet
  <2>2. SumsTo(F, 0, h, d)
    BY <2>1 DEF SumsTo
  <2> QED BY <1>3, <1>4, <2>2
<1>5. CASE m # 0
  <2>1. m - 1 \in Nat /\ ~(m <= m - 1)
    BY <1>3, <1>5
  <2>2. PICK F : SumsTo(F, m - 1, h, d)
    BY <1>2, <2>1
  <2> DEFINE G == [s \in Small(m) |->
                      IF s = {} THEN 0 ELSE h[Pick(s)][d] + F[s \ {Pick(s)}]]
  <2>3. ASSUME NEW s \in Small(m), s # {}
        PROVE  s \ {Pick(s)} \in Small(m - 1) /\ Pick(s) \in Threads
    <3>1. s \in SUBSET Threads /\ Cardinality(s) <= m
      BY <2>3 DEF Small
    <3>2. /\ Pick(s) \in s /\ s \ {Pick(s)} \in SUBSET Threads
          /\ Cardinality(s) \in Nat /\ Cardinality(s \ {Pick(s)}) = Cardinality(s) - 1
      BY <2>3, <3>1, Picked
    <3>3. Cardinality(s \ {Pick(s)}) <= m - 1
      BY <1>3, <3>1, <3>2
    <3> QED BY <3>1, <3>2, <3>3 DEF Small
  <2>4. Small(m - 1) \subseteq Small(m)
    <3> SUFFICES ASSUME NEW s \in Small(m - 1) PROVE s \in Small(m)
      OBVIOUS
    <3>1. s \in SUBSET Threads /\ Cardinality(s) <= m - 1
      BY DEF Small
    <3>2. Cardinality(s) \in Nat
      BY <3>1, FS_Subset, FS_CardinalityType
    <3>3. Cardinality(s) <= m
      BY <1>3, <3>1, <3>2
    <3> QED BY <3>1, <3>3 DEF Small
  <2>5. \A s \in Small(m) : G[s] \in Nat
    <3> SUFFICES ASSUME NEW s \in Small(m), s # {}
                 PROVE  h[Pick(s)][d] + F[s \ {Pick(s)}] \in Nat
      OBVIOUS
    <3>1. h[Pick(s)][d] \in Nat /\ F[s \ {Pick(s)}] \in Nat
      BY <2>2, <2>3 DEF SumsTo
    <3> QED BY <3>1
  <2>6. \A s \in Small(m - 1) : G[s] = F[s]
    BY <2>2, <2>4 DEF SumsTo
  <2>7. \A s \in Small(m) : G[s] = IF s = {} THEN 0 ELSE h[Pick(s)][d] + G[s \ {Pick(s)}]
    BY <2>3, <2>6
  <2>8. SumsTo(G, m, h, d)
    <3>1. G \in [Small(m) -> Nat]
      BY <2>5
    <3> HIDE DEF G
    <3> QED BY <2>7, <3>1 DEF SumsTo
  <2> QED BY <1>3, <2>8
<1> QED BY <1>4, <1>5

\* The sum is computed set by set.
LEMMA TotalSteps ==
    ASSUME IsFiniteSet(Threads), NEW h \in [Threads -> [Objs -> Nat]], NEW d \in Objs
    PROVE  \E F \in [SUBSET Threads -> Nat] : Totals(F, h, d) /\ Total(h, d) = F[Threads]
<1> DEFINE n == Cardinality(Threads)
           Makes(F) == F = [s \in SUBSET Threads |-> IF s = {} THEN 0
                              ELSE LET x == CHOOSE x \in s : TRUE
                                   IN  h[x][d] + F[s \ {x}]]
           g == CHOOSE F : Makes(F)
<1>1. n \in Nat
  BY FS_CardinalityType
<1>2. PICK F : SumsTo(F, n, h, d)
  BY <1>1, SumsUpTo
<1>3. Small(n) = SUBSET Threads
  BY FS_Subset DEF Small
<1>4. F \in [SUBSET Threads -> Nat] /\ Totals(F, h, d)
  BY <1>2, <1>3 DEF SumsTo, Totals
<1>5. Makes(F)
  <2>1. F = [s \in SUBSET Threads |-> F[s]]
    BY <1>4
  <2> QED BY <1>4, <2>1 DEF Totals, Pick
<1>6. Makes(g)
  <2> HIDE DEF Makes
  <2> QED BY <1>5
<1>7. Total(h, d) = g[Threads]
  BY DEF Total, MapThenSumSet, MapThenFoldSet
<1> HIDE DEF g
<1>8. Totals(g, h, d)
  BY <1>6 DEF Totals, Pick
<1>9. g \in [SUBSET Threads -> Nat]
  <2>1. g = [s \in SUBSET Threads |-> g[s]]
    BY <1>6
  <2>2. \A s \in SUBSET Threads : g[s] \in Nat
    <3> DEFINE Bad == {s \in SUBSET Threads : g[s] \notin Nat}
    <3>1. SUFFICES ASSUME Bad # {} PROVE FALSE
      BY <3>1
    <3>2. PICK s \in Bad : s # {} => s \ {Pick(s)} \notin Bad
      <4>1. Bad \in SUBSET (SUBSET Threads)
        OBVIOUS
      <4> HIDE DEF Bad
      <4> QED BY <3>1, <4>1, LeastSet
    <3>3. s \in SUBSET Threads /\ g[s] \notin Nat
      BY <3>2
    <3>4. s # {}
      <4>1. {} \in SUBSET Threads
        OBVIOUS
      <4>2. g[{}] = 0
        BY <1>8, <4>1 DEF Totals
      <4>3. g[{}] \in Nat
        BY <4>2
      <4> QED BY ONLY <3>3, <4>3
    <3>5. Pick(s) \in Threads /\ s \ {Pick(s)} \in SUBSET Threads
      BY <3>3, <3>4, Picked
    <3>6. g[s \ {Pick(s)}] \in Nat /\ h[Pick(s)][d] \in Nat
      BY <3>2, <3>4, <3>5
    <3>7. g[s] = h[Pick(s)][d] + g[s \ {Pick(s)}]
      BY <1>8, <3>3, <3>4 DEF Totals
    <3> QED BY <3>3, <3>6, <3>7
  <2> QED BY <2>1, <2>2
<1> QED BY <1>7, <1>8, <1>9

\* It is a number, and not less than each term.
LEMMA TotalIs ==
    ASSUME IsFiniteSet(Threads), NEW h \in [Threads -> [Objs -> Nat]], NEW d \in Objs
    PROVE  /\ Total(h, d) \in Nat
           /\ (\A t \in Threads : h[t][d] = 0) => Total(h, d) = 0
<1>1. PICK F \in [SUBSET Threads -> Nat] : Totals(F, h, d) /\ Total(h, d) = F[Threads]
  BY TotalSteps
<1>2. ASSUME \A t \in Threads : h[t][d] = 0 PROVE F[Threads] = 0
  <2> DEFINE Bad == {s \in SUBSET Threads : F[s] # 0}
  <2>1. SUFFICES ASSUME Bad # {} PROVE FALSE
    BY <2>1
  <2>2. PICK s \in Bad : s # {} => s \ {Pick(s)} \notin Bad
    <3>1. Bad \in SUBSET (SUBSET Threads)
      OBVIOUS
    <3> HIDE DEF Bad
    <3> QED BY <2>1, <3>1, LeastSet
  <2>3. s \in SUBSET Threads /\ F[s] # 0
    BY <2>2
  <2>4. s # {}
    BY <1>1, <2>3 DEF Totals
  <2>5. Pick(s) \in Threads /\ s \ {Pick(s)} \in SUBSET Threads
    BY <2>3, <2>4, Picked
  <2>6. F[s \ {Pick(s)}] = 0 /\ h[Pick(s)][d] = 0
    BY <1>2, <2>2, <2>4, <2>5
  <2>7. F[s] = h[Pick(s)][d] + F[s \ {Pick(s)}]
    BY <1>1, <2>3, <2>4 DEF Totals
  <2> QED BY <2>3, <2>6, <2>7
<1> QED BY <1>1, <1>2

\* It changes by what one term changes by.
LEMMA TotalChange ==
    ASSUME IsFiniteSet(Threads), NEW h \in [Threads -> [Objs -> Nat]],
           NEW k \in [Threads -> [Objs -> Nat]], NEW d \in Objs, NEW t \in Threads,
           \A u \in Threads \ {t} : k[u][d] = h[u][d]
    PROVE  Total(k, d) - k[t][d] = Total(h, d) - h[t][d]
<1>1. PICK F \in [SUBSET Threads -> Nat] : Totals(F, h, d) /\ Total(h, d) = F[Threads]
  BY TotalSteps
<1>2. PICK G \in [SUBSET Threads -> Nat] : Totals(G, k, d) /\ Total(k, d) = G[Threads]
  BY TotalSteps
<1> DEFINE Part(f, s) == IF t \in s THEN f[t][d] ELSE 0
           Same(s) == G[s] - Part(k, s) = F[s] - Part(h, s)
           Bad == {s \in SUBSET Threads : ~Same(s)}
<1>3. SUFFICES ASSUME Bad # {} PROVE FALSE
  <2>1. Same(Threads)
    BY <1>3
  <2> QED BY <1>1, <1>2, <2>1
<1>4. PICK s \in Bad : s # {} => s \ {Pick(s)} \notin Bad
  <2>1. Bad \in SUBSET (SUBSET Threads)
    OBVIOUS
  <2> HIDE DEF Bad
  <2> QED BY <1>3, <2>1, LeastSet
<1>5. s \in SUBSET Threads /\ ~Same(s)
  BY <1>4
<1>6. s # {}
  <2>1. F[{}] = 0 /\ G[{}] = 0
    BY <1>1, <1>2 DEF Totals
  <2> QED BY <1>5, <2>1
<1> DEFINE x == Pick(s)
           r == s \ {x}
<1>7. x \in s /\ x \in Threads /\ r \in SUBSET Threads
  BY <1>5, <1>6, Picked
<1>8. Same(r)
  BY <1>4, <1>6, <1>7
<1>9. F[s] = h[x][d] + F[r] /\ G[s] = k[x][d] + G[r]
  BY <1>1, <1>2, <1>5, <1>6 DEF Totals
<1>10. /\ F[r] \in Nat /\ G[r] \in Nat /\ h[x][d] \in Nat /\ k[x][d] \in Nat
       /\ h[t][d] \in Nat /\ k[t][d] \in Nat
  BY <1>7
<1> HIDE DEF x
<1>11. CASE x = t
  <2>1. t \in s /\ t \notin r
    BY <1>7, <1>11
  <2>2. G[r] = F[r]
    BY <1>8, <1>10, <2>1
  <2>3. Same(s)
    BY <1>9, <1>10, <1>11, <2>1, <2>2
  <2> QED BY <1>5, <2>3
<1>12. CASE x # t
  <2>1. t \in s <=> t \in r
    BY <1>12
  <2>2. h[x][d] = k[x][d]
    BY <1>7, <1>12
  <2>3. Part(h, s) = Part(h, r) /\ Part(k, s) = Part(k, r)
    BY <2>1
  <2>4. Part(h, r) \in Nat /\ Part(k, r) \in Nat
    BY <1>10
  <2>5. G[s] - Part(k, s) = F[s] - Part(h, s)
    <3>1. G[r] - Part(k, r) = F[r] - Part(h, r)
      BY <1>8
    <3>2. PICK a \in Nat, b \in Nat, p \in Nat, q \in Nat, y \in Nat :
             a = G[r] /\ b = F[r] /\ p = Part(k, r) /\ q = Part(h, r) /\ y = k[x][d]
      <4> HIDE DEF Part, r
      <4> QED BY <1>10, <2>4
    <3> HIDE DEF Part, r
    <3>3. a - p = b - q
      BY <3>1, <3>2
    <3>4. (y + a) - p = (y + b) - q
      BY ONLY <3>3
    <3> QED BY ONLY <1>9, <2>2, <2>3, <3>2, <3>4
  <2> QED BY <1>5, <2>5
<1> QED BY <1>11, <1>12

-----------------------------------------------------------------------------
(* The calls on devices.                                                   *)

\* The applications: one thread is the shell and one sets the console; devices are
\* objects by their registration.
Disciplined ==
    /\ IsFiniteSet(Threads)
    /\ \A t \in Threads :
          /\ (app.inits[t] \cup app.creates[t]) \cap Devs = {}
          /\ \A u \in Threads \ {t} : /\ app.inputs[t] = {} \/ app.inputs[u] = {}
                                      /\ app.consoles[t] = {} \/ app.consoles[u] = {}

\* In finsh_set_device, in rt_console_set_device.
Shelling(t) == \/ pc[t].at \in {"swap", "quiet", "take", "indicate"}
               \/ pc[t].at \in {"open", "count"} /\ pc[t].then = "swap"
               \/ pc[t].at = "close" /\ pc[t].then = "quiet"
Consoling(t) == \/ pc[t].at \in {"reopen", "console"}
                \/ pc[t].at \in {"open", "count"} /\ pc[t].then = "console"
                \/ pc[t].at = "close" /\ pc[t].then = "reopen"

\* The devices its call is about.
Owns(t) == {d \in Devs : \/ pc[t].at \notin Viewing /\ pc[t].obj = d
                         \/ Shelling(t) /\ input = d
                         \/ Consoling(t) /\ console = d}

Apart == \A t, u \in Threads : t # u => Owns(t) \cap Owns(u) = {}

\* A device is registered.
Kept(d) == type[d] # "none" /\ Linked(d) /\ \A t \in Threads : At(t, "fields") => pc[t].obj # d

\* finsh_set_device has closed the old device, has the new one open.
Gone(t)  == pc[t].at \in {"quiet", "take"} \/ (pc[t].at = "close" /\ pc[t].then = "quiet")
Taken(t) == pc[t].at = "swap" \/ Gone(t)

\* The shell has device d open, the console does.
ShellHas(d) == \/ input = d /\ \A t \in Threads : ~Gone(t)
               \/ \E t \in Threads : pc[t].obj = d /\ Taken(t)
ConsoleHas(d) == opened = d

CountTypes ==
    /\ ref_count \in [Objs -> Nat] /\ opens \in [Threads -> [Objs -> Nat]]
    /\ bytes \in [Objs -> Nat] /\ rx_sem \in Nat
    /\ DOMAIN open_flag = Objs /\ DOMAIN old_flag = Threads

\* What holds between the steps of the call of a thread.
Callers(t) == (Shelling(t) => app.inputs[t] # {})
              /\ (Consoling(t) => pc[t].obj \in app.consoles[t])
Holds(t) == pc[t].at \notin Working \cup {"fields"} => \A d \in Owns(t) : Kept(d)
Progress(t) ==
    LET d == pc[t].obj
    IN /\ At(t, "fields") => type[d] # "none"
       /\ pc[t].at \in {"open", "count"} => d \in activated
       /\ Shelling(t) /\ pc[t].at # "indicate" => d # input
       /\ At(t, "count") => d \in running /\ (d \in Standalone => ref_count[d] = 0)
       /\ At(t, "close") => Closing(t) \in Devs /\ ref_count[Closing(t)] = 0
       /\ At(t, "indicate") => input = d
       /\ At(t, "write") => console = d /\ (ref_count[d] > 0 => "OPEN" \in old_flag[t])
       /\ Consoling(t) /\ opened # Nobody => At(t, "console") /\ opened = d
Called(t) == Callers(t) /\ Holds(t) /\ Progress(t)

\* What holds of a device.
One(b) == IF b THEN 1 ELSE 0
Held(d) == Total(opens, d) + One(ShellHas(d)) + One(ConsoleHas(d))
Counted(d) ==
    /\ ref_count[d] <= Held(d)
    /\ d \notin robbed => ref_count[d] = Held(d)
Flagged(d) ==
    /\ ref_count[d] > 0 =>
          /\ d \in running /\ d \in activated
          /\ "OPEN" \in open_flag[d] \/ \E t \in Threads : At(t, "count") /\ pc[t].obj = d
    /\ d \in Standalone => ref_count[d] <= 1
Spare(d) == ref_count[d] = 0 /\ d \notin {input, console, opened} /\ Total(opens, d) = 0
Device(d) == Counted(d) /\ Flagged(d) /\ (Kept(d) \/ Spare(d))

\* Outside rt_console_set_device the console has its device open, or none.
ConsoleOK == (\A t \in Threads : ~Consoling(t)) => opened \in {Nobody, console}

\* The input of the shell indicates, and the shell does not wait beside it.
InputOK ==
    /\ input # Nobody /\ (\A t \in Threads : pc[t].at \notin {"take", "indicate"}) =>
          input \in rx_indicate
    /\ \A t \in Threads : At(t, "wait") =>
          /\ app.inputs[t] # {} /\ input # Nobody
          /\ rx_sem = 0 /\ input \notin robbed => bytes[input] = 0

DevInv ==
    /\ ObjInv /\ Disciplined /\ CountTypes
    /\ Apart /\ (\A t \in Threads : Called(t)) /\ (\A d \in Devs : Device(d))
    /\ ConsoleOK /\ InputOK

-----------------------------------------------------------------------------
(* A step of one thread.                                                   *)

Same(d) ==
    /\ ref_count'[d] = ref_count[d] /\ open_flag'[d] = open_flag[d]
    /\ d \in activated' <=> d \in activated
    /\ d \in running' <=> d \in running
    /\ d \in robbed' <=> d \in robbed
    /\ \A u \in Threads : opens'[u][d] = opens[u][d]
    /\ type'[d] = type[d] /\ Linked(d)' = Linked(d)

\* It is about devices of D, which no other call is about.
Within(t, D) ==
    /\ UNCHANGED app /\ ObjInv' /\ CountTypes'
    /\ \A u \in Threads \ {t} : /\ pc'[u] = pc[u] /\ old_flag'[u] = old_flag[u]
                                /\ D \cap Owns(u) = {} /\ Owns(t)' \cap Owns(u) = {}
    /\ \A d \in Devs \ D : Same(d)
    /\ input' = input \/ Shelling(t)
    /\ console' = console \/ Consoling(t)
    /\ opened' = opened \/ app.consoles[t] # {}
    /\ At(t, "count") => pc[t].obj \in D
    /\ At(t, "fields")' => pc'[t].obj \in D

\* Where others are in their calls stays as it is.
LEMMA OthersStay ==
    ASSUME DevInv, NEW t \in Threads, NEW D \in SUBSET Devs, Within(t, D),
           NEW u \in Threads \ {t}
    PROVE  /\ Shelling(u)' = Shelling(u) /\ Consoling(u)' = Consoling(u)
           /\ Shelling(u) => input' = input
           /\ Consoling(u) => console' = console /\ opened' = opened
           /\ Owns(u)' = Owns(u)
<1>1. pc'[u] = pc[u]
  BY DEF Within
<1>2. Shelling(u)' = Shelling(u) /\ Consoling(u)' = Consoling(u)
  BY <1>1 DEF Shelling, Consoling
<1>3. Callers(u) /\ Callers(t)
  BY DEF DevInv, Called
<1>4. Shelling(u) => input' = input
  BY <1>3 DEF Within, Callers, DevInv, Disciplined
<1>5. Consoling(u) => console' = console /\ opened' = opened
  BY <1>3 DEF Within, Callers, DevInv, Disciplined
<1>6. Owns(u)' = Owns(u)
  <2> SUFFICES ASSUME NEW d \in Devs PROVE d \in Owns(u)' <=> d \in Owns(u)
    BY DEF Owns
  <2> QED BY <1>1, <1>2, <1>4, <1>5 DEF Owns
<1> QED BY <1>2, <1>4, <1>5, <1>6

\* What a thread holds is what it was while it is about none of D.
LEMMA StaysKept ==
    ASSUME DevInv, NEW t \in Threads, NEW D \in SUBSET Devs, Within(t, D),
           NEW d \in Devs \ D, Kept(d)
    PROVE  Kept(d)'
<1>1. Same(d)
  BY DEF Within
<1>2. ASSUME NEW u \in Threads, At(u, "fields")' PROVE pc'[u].obj # d
  <2>1. CASE u = t
    BY <1>2, <2>1 DEF Within
  <2>2. CASE u # t
    BY <1>2, <2>2 DEF Within, Kept, At
  <2> QED BY <2>1, <2>2
<1> QED BY <1>1, <1>2 DEF Kept, Same

\* What holds of the calls of the others still does.
LEMMA OthersCalled ==
    ASSUME DevInv, NEW t \in Threads, NEW D \in SUBSET Devs, Within(t, D),
           NEW u \in Threads \ {t}
    PROVE  Called(u)'
<1>1. pc'[u] = pc[u] /\ app' = app /\ old_flag'[u] = old_flag[u] /\ D \cap Owns(u) = {}
  BY DEF Within
<1>2. /\ Shelling(u)' = Shelling(u) /\ Consoling(u)' = Consoling(u)
      /\ Shelling(u) => input' = input
      /\ Consoling(u) => console' = console /\ opened' = opened
      /\ Owns(u)' = Owns(u)
  BY OthersStay
<1>3. Callers(u) /\ Holds(u) /\ Progress(u)
  BY DEF DevInv, Called
<1>4. Callers(u)'
  BY <1>1, <1>2, <1>3 DEF Callers
<1>5. Holds(u)'
  <2> SUFFICES ASSUME pc[u].at \notin Working \cup {"fields"}, NEW d \in Owns(u) PROVE Kept(d)'
    BY <1>1, <1>2 DEF Holds
  <2>1. d \in Devs \ D /\ Kept(d)
    BY <1>1, <1>3 DEF Holds, Owns
  <2> QED BY <2>1, StaysKept
<1>6. Progress(u)'
  <2> DEFINE d == pc[u].obj
  <2>1. Place(pc[u].at, d, pc[u].then)
    BY DEF DevInv, ObjInv, TypeInv, PcOK
  <2>2. pc[u].at \in {"fields", "open", "count", "indicate", "write"} => d \in Owns(u)
    BY <2>1 DEF Place, Viewing, Owns
  <2>3. At(u, "close") => Closing(u)' = Closing(u) /\ Closing(u) \in Owns(u)
    <3>1. At(u, "close") => d \in Devs /\ pc[u].then \in {"ready", "quiet", "reopen"}
      BY <2>1 DEF Place, Viewing, At
    <3>2. CASE pc[u].then = "quiet"
      BY <1>1, <1>2, <1>3, <3>2 DEF Closing, Shelling, Owns, At, Progress
    <3>3. CASE pc[u].then = "reopen"
      BY <1>1, <1>2, <1>3, <3>3 DEF Closing, Consoling, Owns, At, Progress
    <3>4. CASE At(u, "close") /\ pc[u].then = "ready"
      BY <1>1, <3>1, <3>4 DEF Closing, Owns, At, Viewing
    <3> QED BY <3>1, <3>2, <3>3, <3>4
  <2>4. \A e \in Owns(u) : Same(e)
    BY <1>1 DEF Within, Owns
  <2>5. At(u, "write") => console' = console
    <3>1. SUFFICES ASSUME At(u, "write"), Consoling(t) PROVE FALSE
      BY DEF Within
    <3>2. d \in Owns(u) /\ console = d
      BY <1>3, <2>2, <3>1 DEF Progress, At
    <3>3. d \in Owns(t)
      BY <3>1, <3>2 DEF Owns
    <3> QED BY <3>2, <3>3 DEF DevInv, Apart
  <2>6. /\ At(u, "fields") => type'[d] # "none"
        /\ pc[u].at \in {"open", "count"} => d \in activated'
        /\ At(u, "count") => d \in running' /\ (d \in Standalone => ref_count'[d] = 0)
        /\ At(u, "write") => console' = d /\ (ref_count'[d] > 0 => "OPEN" \in old_flag'[u])
    BY <1>1, <1>3, <2>2, <2>4, <2>5 DEF Progress, Same, At
  <2>7. /\ Shelling(u) /\ pc[u].at # "indicate" => d # input'
        /\ At(u, "indicate") => input' = d
    BY <1>2, <1>3 DEF Progress, Shelling, At
  <2>8. At(u, "close") => /\ Closing(u)' \in Devs
                          /\ ref_count'[Closing(u)'] = 0
    BY <1>3, <2>3, <2>4 DEF Progress, Same
  <2>9. Consoling(u)' /\ opened' # Nobody => At(u, "console")' /\ opened' = pc'[u].obj
    BY <1>1, <1>2, <1>3 DEF Progress, At
  <2> QED BY <1>1, <1>2, <2>6, <2>7, <2>8, <2>9 DEF Progress, At
<1> QED BY <1>4, <1>5, <1>6 DEF Called

\* No two calls are about one device.
LEMMA StaysApart ==
    ASSUME DevInv, NEW t \in Threads, NEW D \in SUBSET Devs, Within(t, D)
    PROVE  Apart'
<1> SUFFICES ASSUME NEW u \in Threads, NEW v \in Threads, u # v
             PROVE  Owns(u)' \cap Owns(v)' = {}
  BY DEF Apart
<1>1. \A w \in Threads \ {t} : Owns(w)' = Owns(w) /\ Owns(t)' \cap Owns(w) = {}
  BY OthersStay DEF Within
<1>2. CASE u = t \/ v = t
  BY <1>1, <1>2
<1>3. CASE u # t /\ v # t
  BY <1>1, <1>3 DEF DevInv, Apart
<1> QED BY <1>2, <1>3

\* The sum of the opens of a device, before and after.
LEMMA Sums ==
    ASSUME DevInv, CountTypes', NEW t \in Threads, NEW d \in Devs,
           \A u \in Threads \ {t} : opens'[u][d] = opens[u][d]
    PROVE  /\ Total(opens, d) \in Nat /\ Total(opens, d)' \in Nat
           /\ opens[t][d] \in Nat /\ opens'[t][d] \in Nat
           /\ ref_count[d] \in Nat /\ ref_count'[d] \in Nat
           /\ Total(opens, d)' - opens'[t][d] = Total(opens, d) - opens[t][d]
<1>1. /\ opens \in [Threads -> [Objs -> Nat]] /\ opens' \in [Threads -> [Objs -> Nat]]
      /\ ref_count \in [Objs -> Nat] /\ ref_count' \in [Objs -> Nat]
      /\ IsFiniteSet(Threads) /\ d \in Objs
  BY DEF DevInv, CountTypes, Disciplined, Devs
<1>2. Total(opens', d) - opens'[t][d] = Total(opens, d) - opens[t][d]
  BY <1>1, TotalChange
<1>3. Total(opens', d) \in Nat /\ Total(opens, d) \in Nat
  BY <1>1, TotalIs
<1>4. Total(opens, d)' = Total(opens', d)
  OBVIOUS
<1> QED BY <1>1, <1>2, <1>3, <1>4

\* The shell and the console have what they had.
HasAsBefore(d) == ShellHas(d)' = ShellHas(d) /\ ConsoleHas(d)' = ConsoleHas(d)

\* A device outside D is as it was.
LEMMA OtherDevices ==
    ASSUME DevInv, NEW t \in Threads, NEW D \in SUBSET Devs, Within(t, D),
           NEW d \in Devs \ D, HasAsBefore(d),
           input' = d => input' = input \/ Kept(d),
           console' = d => console' = console \/ Kept(d)
    PROVE  Device(d)'
<1>1. Same(d) /\ d \in Objs
  BY DEF Within, Devs
<1>2. Device(d)
  BY DEF DevInv
<1>3. Total(opens, d)' = Total(opens, d)
  <2>1. CountTypes' /\ \A u \in Threads : opens'[u][d] = opens[u][d]
    BY <1>1 DEF Within, Same
  <2>2. /\ Total(opens, d) \in Nat /\ Total(opens, d)' \in Nat /\ opens[t][d] \in Nat
        /\ Total(opens, d)' - opens'[t][d] = Total(opens, d) - opens[t][d]
    BY <2>1, Sums
  <2>3. opens'[t][d] = opens[t][d]
    BY <2>1
  <2> QED BY ONLY <2>2, <2>3
<1>6. Counted(d)'
  <2>1. Held(d)' = Held(d)
    BY <1>3 DEF Held, HasAsBefore
  <2> QED BY <1>1, <1>2, <2>1 DEF Device, Counted, Same
<1>4. Flagged(d)'
  <2>1. ASSUME NEW u \in Threads, At(u, "count"), pc[u].obj = d
        PROVE  At(u, "count")' /\ pc'[u].obj = d
    BY <2>1 DEF Within, At
  <2> QED BY <1>1, <1>2, <2>1 DEF Device, Flagged, Same
<1>5. (Kept(d) \/ Spare(d))'
  <2>1. Kept(d) => Kept(d)'
    BY StaysKept
  <2>2. CASE Spare(d) /\ ~Kept(d)
    BY <1>1, <1>3, <2>2 DEF Spare, Same, HasAsBefore, ConsoleHas
  <2> QED BY <1>2, <2>1, <2>2 DEF Device
<1> QED BY <1>4, <1>5, <1>6 DEF Device

\* The shell and the console, where a step is none of theirs.
LEMMA ShellBeside ==
    ASSUME NEW t \in Threads, \A u \in Threads \ {t} : pc'[u] = pc[u],
           Taken(t)' <=> Taken(t), Gone(t)' <=> Gone(t),
           Taken(t) => pc'[t].obj = pc[t].obj, UNCHANGED input, NEW d
    PROVE  ShellHas(d)' = ShellHas(d)
<1>1. \A u \in Threads \ {t} : Gone(u)' = Gone(u) /\ Taken(u)' = Taken(u)
  BY DEF Gone, Taken
<1>2. \A u \in Threads : /\ Gone(u)' <=> Gone(u)
                         /\ (pc'[u].obj = d /\ Taken(u)') <=> (pc[u].obj = d /\ Taken(u))
  BY <1>1
<1> QED BY <1>2 DEF ShellHas

\* It ends the call of the console, or leaves what the console has open.
LEMMA ConsoleBeside ==
    ASSUME DevInv, NEW t \in Threads, \A u \in Threads \ {t} : pc'[u] = pc[u],
           UNCHANGED console, Consoling(t)' \/ (~Consoling(t) /\ UNCHANGED opened)
    PROVE  ConsoleOK'
<1> SUFFICES ASSUME \A u \in Threads : ~Consoling(u)' PROVE opened' \in {Nobody, console'}
  BY DEF ConsoleOK
<1>1. \A u \in Threads \ {t} : Consoling(u)' = Consoling(u)
  BY DEF Consoling
<1>2. ~Consoling(t) /\ UNCHANGED opened
  OBVIOUS
<1> QED BY <1>1, <1>2 DEF DevInv, ConsoleOK

\* What the shell hears, where a step is not about it.
LEMMA InputBeside ==
    ASSUME DevInv, NEW t \in Threads, \A u \in Threads \ {t} : pc'[u] = pc[u],
           pc[t].at \notin {"take", "indicate"}, pc'[t].at \notin {"take", "indicate", "wait"},
           UNCHANGED <<app, input, rx_indicate, rx_sem, bytes>>,
           input \notin robbed' => input \notin robbed
    PROVE  InputOK'
<1>1. \A u \in Threads : At(u, "wait")' => At(u, "wait")
  BY DEF At
<1>2. \A u \in Threads :
          pc'[u].at \in {"take", "indicate"} <=> pc[u].at \in {"take", "indicate"}
  OBVIOUS
<1> QED BY <1>1, <1>2 DEF DevInv, InputOK

\* What remains to be shown of a step: its own call, and the devices of D.
LEMMA StepKeeps ==
    ASSUME DevInv, NEW t \in Threads, NEW D \in SUBSET Devs, Within(t, D),
           Called(t)', \A d \in D : Device(d)', \A d \in Devs \ D : HasAsBefore(d),
           \A d \in Devs \ D : input' = d => input' = input \/ Kept(d),
           \A d \in Devs \ D : console' = d => console' = console \/ Kept(d),
           ConsoleOK', InputOK'
    PROVE  DevInv'
<1>1. \A u \in Threads : Called(u)'
  BY OthersCalled
<1>2. \A d \in Devs : Device(d)'
  BY OtherDevices
<1>3. Disciplined'
  BY DEF DevInv, Disciplined, Within
<1> QED BY <1>1, <1>2, <1>3, StaysApart DEF DevInv, Within

-----------------------------------------------------------------------------
(* Steps that are about containers.                                        *)

Aways == {"ready"} \cup Working \cup Viewing

\* Out of its calls on devices a thread is about none.
LEMMA NobodysOwn ==
    ASSUME ObjectsAssumption, DevInv, NEW t \in Threads,
           pc[t].at \in {"ready", "wait"} \cup Viewing
    PROVE  Owns(t) = {} /\ ~Shelling(t) /\ ~Consoling(t) /\ ~Taken(t) /\ ~Gone(t)
<1>1. Place(pc[t].at, pc[t].obj, pc[t].then)
  BY DEF DevInv, ObjInv, TypeInv, PcOK
<1>2. ~Shelling(t) /\ ~Consoling(t) /\ ~Taken(t) /\ ~Gone(t)
  BY DEF Shelling, Consoling, Taken, Gone, Viewing
<1>3. pc[t].at \in {"ready", "wait"} => pc[t].obj \notin Devs
  BY <1>1 DEF Place, Viewing, ObjectsAssumption, Devs
<1> QED BY <1>2, <1>3 DEF Owns

\* The same of the next state.
LEMMA NobodysOwnNext ==
    ASSUME ObjectsAssumption, ObjInv', NEW t \in Threads,
           pc'[t].at \in {"ready", "wait"} \cup Viewing
    PROVE  /\ Owns(t)' = {} /\ ~Shelling(t)' /\ ~Consoling(t)' /\ ~Taken(t)' /\ ~Gone(t)'
           /\ pc'[t].at \in {"ready", "wait"} => pc'[t].obj = Nobody
<1>1. Place(pc'[t].at, pc'[t].obj, pc'[t].then)
  BY DEF ObjInv, TypeInv, PcOK
<1>2. ~Shelling(t)' /\ ~Consoling(t)' /\ ~Taken(t)' /\ ~Gone(t)'
  BY DEF Shelling, Consoling, Taken, Gone, Viewing
<1>3. pc'[t].at \in {"ready", "wait"} => pc'[t].obj \notin Devs /\ pc'[t].obj = Nobody
  BY <1>1 DEF Place, Viewing, ObjectsAssumption, Devs
<1> QED BY <1>2, <1>3 DEF Owns

\* A step that adds or takes away devices nobody uses.
LEMMA ContainerStep ==
    ASSUME ObjectsAssumption, DevInv, ObjInv', NEW t \in Threads, NEW D \in SUBSET Devs,
           UNCHANGED <<app, devices, shell>>,
           \A u \in Threads \ {t} : pc'[u] = pc[u],
           pc[t].at \in Aways, pc'[t].at \in Aways \cup {"fields"},
           pc'[t].at = "fields" => type'[pc'[t].obj] # "none",
           \A d \in Devs \ D : type'[d] = type[d] /\ Linked(d)' = Linked(d),
           \A d \in D : Spare(d) /\ \A u \in Threads \ {t} : d \notin Owns(u),
           Owns(t)' \subseteq D
    PROVE  DevInv'
<1>1. CountTypes'
  BY DEF DevInv, CountTypes, devices, shell
<1>2. /\ ~Taken(t) /\ ~Taken(t)' /\ ~Gone(t) /\ ~Gone(t)'
      /\ Shelling(t)' = Shelling(t) /\ ~Shelling(t)
      /\ Consoling(t)' = Consoling(t) /\ ~Consoling(t) /\ ~Consoling(t)'
      /\ ~At(t, "console") /\ ~At(t, "console")'
  BY DEF Taken, Gone, Shelling, Consoling, Aways, Working, Viewing, At
<1>3. At(t, "fields")' => pc'[t].obj \in D
  <2>1. Place(pc'[t].at, pc'[t].obj, pc'[t].then)
    BY DEF ObjInv, TypeInv, PcOK
  <2>2. At(t, "fields")' => pc'[t].obj \in Owns(t)'
    BY <2>1 DEF Place, Viewing, Owns, At
  <2> QED BY <2>2
<1>4. Within(t, D)
  <2>1. \A d \in Devs \ D : Same(d)
    BY DEF Same, devices, shell
  <2>2. ~At(t, "count")
    BY DEF Aways, Working, Viewing, At
  <2> QED BY <1>1, <1>2, <1>3, <2>1, <2>2 DEF Within, shell
<1>5. Called(t)'
  <2>1. Callers(t)'
    BY <1>2 DEF Callers
  <2>2. Holds(t)'
    <3>1. CASE pc'[t].at \in {"ready"} \cup Viewing
      BY <3>1, NobodysOwnNext DEF Holds
    <3>2. CASE pc'[t].at \notin {"ready"} \cup Viewing
      BY <3>2 DEF Holds, Aways
    <3> QED BY <3>1, <3>2
  <2>3. Progress(t)'
    BY <1>2 DEF Progress, At, Aways, Working, Viewing
  <2> QED BY <2>1, <2>2, <2>3 DEF Called
<1>6. \A d \in Devs : HasAsBefore(d)
  BY <1>2, ShellBeside DEF HasAsBefore, ConsoleHas, shell
<1>7. ASSUME NEW d \in D PROVE Device(d)'
  <2>1. Counted(d)'
    BY <1>6, <1>7 DEF DevInv, Device, Counted, Held, HasAsBefore, devices, shell
  <2>2. ref_count'[d] = 0 /\ Spare(d)'
    BY <1>7 DEF Spare, devices, shell
  <2>3. Flagged(d)'
    BY <2>2 DEF Flagged
  <2> QED BY <2>1, <2>2, <2>3 DEF Device
<1>8. InputOK'
  BY InputBeside DEF Aways, Working, Viewing, shell
<1>9. ConsoleOK'
  BY <1>2, ConsoleBeside DEF shell
<1> QED BY <1>4, <1>5, <1>6, <1>7, <1>8, <1>9, StepKeeps DEF shell

\* Where a thread is, in the steps of Objects.
LEMMA ListingKeepsDevices ==
    ASSUME ObjectsAssumption, DevInv, ObjInv', NEW t \in Threads,
           Command(t) \/ ListingStep(t), UNCHANGED <<devices, shell>>
    PROVE  DevInv'
<1>1. /\ UNCHANGED containers /\ UNCHANGED app
      /\ pc[t].at \in {"ready"} \cup Viewing /\ pc'[t].at \in {"ready"} \cup Viewing
      /\ \A u \in Threads \ {t} : pc'[u] = pc[u]
  <2>1. DOMAIN pc = Threads
    BY DEF DevInv, ObjInv, TypeInv, PcOK
  <2>2. CASE Command(t)
    <3>1. PICK k \in Classes : StartListing(t, k)
      BY <2>2 DEF ObjectsAssumption, Command, list_thread, list_sem, list_event, list_mutex,
         list_mailbox, list_msgqueue, list_memheap, list_mempool, list_timer, list_device
    <3> QED BY <2>1, <3>1 DEF StartListing, At, Viewing
  <2>3. CASE ListingStep(t)
    BY <2>1, <2>3 DEF ListingStep, GetNext, GetNextGone, GetNextNull, TestObject, PrintObject,
       ShowNext, EndListing, At, Viewing, Goto, Ready
  <2> QED BY <2>2, <2>3
<1>2. Owns(t)' = {}
  BY <1>1, NobodysOwnNext
<1>3. \A d \in Devs : type'[d] = type[d] /\ Linked(d)' = Linked(d)
  BY <1>1 DEF containers, Linked
<1> QED BY <1>1, <1>2, <1>3, ContainerStep DEF Aways, Viewing

\* What a thread links and unlinks.
LEMMA Links ==
    ASSUME ObjectsAssumption, ObjInv, NEW t \in Threads, Link(t)
    PROVE  /\ pc[t].obj \in Objs /\ ~Linked(pc[t].obj)
           /\ \A p \in Objs : Linked(p)' <=> (Linked(p) \/ p = pc[t].obj)
<1> DEFINE o == pc[t].obj
           k == Class[o]
<1>1. At(t, "insert") /\ object_list' = [object_list EXCEPT ![k] = <<o>> \o @]
  BY DEF Link
<1>2. o \in Objs /\ ~Linked(o)
  BY <1>1, WorksAlone DEF ObjInv, WorkOK, Work, At, Working
<1>3. k \in Classes /\ object_list[k] \in Seq(Objs) /\ DOMAIN object_list = Classes
  BY <1>2 DEF ObjectsAssumption, ObjInv, TypeInv, DataOK
<1>4. Range(<<o>> \o object_list[k]) = Range(object_list[k]) \cup {o}
  BY <1>2, <1>3, ConsRange DEF ObjInv, ListsOK, Linked
<1>5. /\ object_list'[k] = <<o>> \o object_list[k]
      /\ \A c \in Classes \ {k} : object_list'[c] = object_list[c]
  BY <1>1, <1>3
<1>6. \A p \in Objs : Linked(p)' <=> (Linked(p) \/ p = o)
  BY <1>4, <1>5 DEF Linked, ObjectsAssumption
<1> QED BY <1>2, <1>6

LEMMA Unlinks ==
    ASSUME ObjectsAssumption, ObjInv, NEW t \in Threads, Unlink(t)
    PROVE  /\ pc[t].obj \in Objs /\ type[pc[t].obj] = "none"
           /\ \A p \in Objs : Linked(p)' <=> (Linked(p) /\ p # pc[t].obj)
<1> DEFINE o == pc[t].obj
           k == Class[o]
           r == RemoveFirst(object_list[k], o)
<1>1. At(t, "remove") /\ object_list' = [object_list EXCEPT ![k] = RemoveFirst(@, o)]
  BY DEF Unlink
<1>2. o \in Objs /\ type[o] = "none" /\ Linked(o)
  BY <1>1, WorksAlone DEF ObjInv, WorkOK, Work, At, Working
<1>3. /\ k \in Classes /\ object_list[k] \in Seq(Objs) /\ IsInjective(object_list[k])
      /\ DOMAIN object_list = Classes
  BY <1>2 DEF ObjectsAssumption, ObjInv, TypeInv, DataOK, ListsOK
<1>4. Range(r) = Range(object_list[k]) \ {o}
  BY <1>3, RemoveFirstRange
<1>5. object_list'[k] = r /\ \A c \in Classes \ {k} : object_list'[c] = object_list[c]
  BY <1>1, <1>3
<1> HIDE DEF r
<1>6. \A p \in Objs : Linked(p)' <=> (Linked(p) /\ p # o)
  <2>1. \A p \in Objs : Class[p] \in Classes
    BY DEF ObjectsAssumption
  <2>2. \A c \in Classes \ {k} : o \notin Range(object_list[c])
    BY <1>2 DEF ObjInv, ListsOK
  <2> QED BY <1>4, <1>5, <2>1, <2>2 DEF Linked
<1> QED BY <1>2, <1>6

\* The steps of Objects, which end in the list or out of it.
LEMMA ObjectsKeepDevices ==
    ASSUME ObjectsAssumption, DevInv, ObjInv', NEW t \in Threads, ObjectStep(t),
           UNCHANGED <<devices, shell>>
    PROVE  DevInv'
<1> DEFINE here == pc[t].obj
<1>0. /\ DOMAIN pc = Threads /\ UNCHANGED app
      /\ Place(pc[t].at, here, pc[t].then) /\ Place(pc'[t].at, pc'[t].obj, pc'[t].then)
  BY DEF DevInv, ObjInv, TypeInv, PcOK, ObjectStep, InitObject, AllocateObject, DetachObject,
     DeleteObject, EndObject, Link, Unlink, Free
<1>1. ASSUME NEW o \in Objs, NEW n \in Names,
             \/ At(t, "ready") /\ o \in app.inits[t] /\ InitObject(t, o, n, "ready")
             \/ AllocateObject(t, o, n)
      PROVE  DevInv'
  <2>1. o \notin Devs
    BY <1>1 DEF DevInv, Disciplined, AllocateObject
  <2>2. /\ At(t, "ready") /\ Goto(t, "insert", o, "ready") /\ UNCHANGED object_list
        /\ \A d \in Devs : type'[d] = type[d]
    <3>1. /\ type' = [type EXCEPT ![o] = Class[o]]
          /\ At(t, "ready") /\ Goto(t, "insert", o, "ready") /\ UNCHANGED object_list
      BY <1>1 DEF InitObject, AllocateObject
    <3> QED BY <2>1, <3>1
  <2>3. /\ pc'[t].at = "insert" /\ pc'[t].obj = o
        /\ \A u \in Threads \ {t} : pc'[u] = pc[u]
    BY <1>0, <2>2 DEF Goto
  <2>4. Owns(t)' = {}
    BY <2>1, <2>3 DEF Owns, Shelling, Consoling, Viewing
  <2>5. \A d \in Devs : Linked(d)' = Linked(d)
    BY <2>2 DEF Linked
  <2> QED BY <1>0, <2>2, <2>3, <2>4, <2>5, ContainerStep DEF Aways, At, Working
<1>2. ASSUME NEW o \in Objs, DetachObject(t, o) \/ DeleteObject(t, o) PROVE DevInv'
  <2>1. o \notin Devs
    BY <1>2 DEF DevInv, Disciplined, DetachObject, DeleteObject
  <2>2. /\ At(t, "ready") /\ UNCHANGED <<name, object_list>>
        /\ Goto(t, "remove", o, "ready") \/ Goto(t, "remove", o, "free")
        /\ \A d \in Devs : type'[d] = type[d]
    <3>1. /\ type' = [type EXCEPT ![o] = "none"] /\ At(t, "ready")
          /\ Goto(t, "remove", o, "ready") \/ Goto(t, "remove", o, "free")
          /\ UNCHANGED <<name, object_list>>
      BY <1>2 DEF DetachObject, DeleteObject, EndObject
    <3> QED BY <2>1, <3>1
  <2>3. /\ pc'[t].at = "remove" /\ pc'[t].obj = o
        /\ \A u \in Threads \ {t} : pc'[u] = pc[u]
    BY <1>0, <2>2 DEF Goto
  <2>4. Owns(t)' = {}
    BY <2>1, <2>3 DEF Owns, Shelling, Consoling, Viewing
  <2>5. \A d \in Devs : Linked(d)' = Linked(d)
    BY <2>2 DEF Linked
  <2> QED BY <1>0, <2>2, <2>3, <2>4, <2>5, ContainerStep DEF Aways, At, Working
<1>3. ASSUME pc[t].at \in {"insert", "remove"}, here \in Devs PROVE Spare(here)
  <2>1. ~Kept(here)
    BY <1>3 DEF DevInv, ObjInv, WorkOK, Work, At, Kept
  <2> QED BY <1>3, <2>1 DEF DevInv, Device
<1>4. ASSUME pc[t].at \in {"insert", "remove"}, UNCHANGED type,
             Goto(t, pc[t].then, here, "ready"),
             \A d \in Devs \ {here} : Linked(d)' = Linked(d)
      PROVE  DevInv'
  <2> DEFINE D == {here} \cap Devs
  <2>1. pc[t].then \in {"ready", "free", "fields"}
    BY <1>0, <1>4 DEF Place, Viewing
  <2>2. /\ pc'[t].at \in {"ready", "free", "fields"} /\ pc'[t].obj \in {here, Nobody}
        /\ \A u \in Threads \ {t} : pc'[u] = pc[u]
    BY <1>0, <1>4, <2>1 DEF Goto
  <2>6. pc'[t].at = "fields" => type'[pc'[t].obj] # "none"
    <3> SUFFICES ASSUME pc'[t].at = "fields" PROVE type'[pc'[t].obj] # "none"
      OBVIOUS
    <3>1. pc[t].then = "fields" /\ pc'[t].obj = here
      BY <1>0, <1>4, <2>1 DEF Goto
    <3>2. At(t, "insert")
      BY <1>0, <1>4, <3>1 DEF Place, Viewing, At
    <3> QED BY <1>4, <3>1, <3>2 DEF DevInv, ObjInv, WorkOK, Work
  <2>3. Owns(t)' \subseteq D
    <3>1. Nobody \notin Devs
      BY DEF ObjectsAssumption, Devs
    <3> QED BY <2>2, <3>1 DEF Owns, Shelling, Consoling
  <2>4. D \subseteq Owns(t)
    BY <1>4 DEF Owns, Viewing
  <2>5. \A d \in D : Spare(d) /\ \A u \in Threads \ {t} : d \notin Owns(u)
    BY <1>3, <1>4, <2>4 DEF DevInv, Apart
  <2>7. \A d \in Devs \ D : type'[d] = type[d] /\ Linked(d)' = Linked(d)
    BY <1>4
  <2> HIDE DEF D
  <2>8. D \in SUBSET Devs
    BY DEF D
  <2> QED BY <1>0, <1>4, <2>2, <2>3, <2>5, <2>6, <2>7, <2>8, ContainerStep DEF Aways, Working
<1>5. CASE Link(t)
  <2>1. \A d \in Devs : Linked(d)' <=> (Linked(d) \/ d = here)
    BY <1>5, Links DEF DevInv, Devs
  <2>2. /\ At(t, "insert") /\ Goto(t, pc[t].then, here, "ready") /\ UNCHANGED type
    BY <1>5 DEF Link, Return
  <2>6. \A d \in Devs \ {here} : Linked(d)' = Linked(d)
    BY <2>1 DEF Linked
  <2>7. pc[t].at \in {"insert", "remove"}
    BY <2>2 DEF At
  <2> QED BY ONLY <1>4, <2>2, <2>6, <2>7
<1>6. CASE Unlink(t)
  <2>1. \A d \in Devs : Linked(d)' <=> (Linked(d) /\ d # here)
    BY <1>6, Unlinks DEF DevInv, Devs
  <2>2. /\ At(t, "remove") /\ Goto(t, pc[t].then, here, "ready") /\ UNCHANGED type
    BY <1>6 DEF Unlink, Return
  <2>6. \A d \in Devs \ {here} : Linked(d)' = Linked(d)
    BY <2>1 DEF Linked
  <2>7. pc[t].at \in {"insert", "remove"}
    BY <2>2 DEF At
  <2> QED BY ONLY <1>4, <2>2, <2>6, <2>7
<1>7. CASE Free(t)
  <2>1. /\ At(t, "free") /\ UNCHANGED containers /\ pc'[t].at = "ready"
        /\ \A u \in Threads \ {t} : pc'[u] = pc[u]
    BY <1>0, <1>7 DEF Free, Ready, Goto
  <2>2. Owns(t)' = {}
    BY <2>1, NobodysOwnNext
  <2>3. \A d \in Devs : type'[d] = type[d] /\ Linked(d)' = Linked(d)
    BY <2>1 DEF containers, Linked
  <2> QED BY <1>0, <2>1, <2>2, <2>3, ContainerStep DEF Aways, At, Working
<1> QED BY <1>1, <1>2, <1>5, <1>6, <1>7 DEF ObjectStep

-----------------------------------------------------------------------------
(* Whose a device is.                                                      *)

\* A call that is away from a device is not about it.
LEMMA AwayOwnsNot ==
    ASSUME NEW u \in Threads, NEW d \in Devs, Away(u, d)
    PROVE  d \notin Owns(u)
BY DEF Away, Owns, Shelling, Consoling, Swapping

\* A device another call is about is registered, or the call is registering it.
LEMMA OwnedIsKept ==
    ASSUME DevInv, NEW u \in Threads, NEW d \in Owns(u)
    PROVE  Kept(d) \/ (pc[u].at \in Working \cup {"fields"} /\ pc[u].obj = d)
<1>1. Holds(u)
  BY DEF DevInv, Called
<1>2. Shelling(u) \/ Consoling(u) => pc[u].at \notin Working \cup {"fields"}
  BY DEF Shelling, Consoling, Working
<1> QED BY <1>1, <1>2 DEF Holds, Owns

\* What rt_object_find finds: an object of the list with that name, if there is one.
LEMMA FoundIs ==
    ASSUME ObjectsAssumption, DevInv, NEW n \in Names, NEW k \in Classes
    PROVE  LET named == {i \in DOMAIN object_list[k] : name[object_list[k][i]] = n}
           IN IF named = {} THEN Found(k, n) = Nobody
              ELSE /\ Found(k, n) \in Range(object_list[k]) /\ Found(k, n) # Nobody
                   /\ name[Found(k, n)] = n
<1> DEFINE list == object_list[k]
           named == {i \in DOMAIN list : name[list[i]] = n}
<1>1. list \in Seq(Objs)
  BY DEF DevInv, ObjInv, TypeInv, DataOK
<1>2. CASE named = {}
  BY <1>2 DEF Found
<1>3. CASE named # {}
  <2>1. named \in SUBSET Nat
    BY <1>1
  <2>2. Min(named) \in named
    <3> HIDE DEF named
    <3> QED BY <1>3, <2>1, HasLeast
  <2>3. Found(k, n) = list[Min(named)]
    BY <1>3 DEF Found
  <2>4. list[Min(named)] \in Range(list) /\ list[Min(named)] \in Objs
    <3>1. Min(named) \in DOMAIN list
      BY <2>2
    <3>2. \A i \in DOMAIN list : list[i] \in Range(list) /\ list[i] \in Objs
      BY <1>1 DEF Range
    <3> HIDE DEF named, list
    <3> QED BY <3>1, <3>2
  <2>5. name[list[Min(named)]] = n
    BY <2>2
  <2> QED BY ONLY <1>3, <2>3, <2>4, <2>5, ObjectsAssumption DEF ObjectsAssumption
<1> QED BY <1>2, <1>3

\* A device that can be found and that no call is about is registered.
LEMMA FoundIsKept ==
    ASSUME ObjectsAssumption, DevInv, NEW d \in Devs, Findable(d),
           \A u \in Threads : d \notin Owns(u)
    PROVE  Kept(d)
<1>1. PICK n \in Names : Found("Device", n) = d
  BY DEF Findable
<1>2. d # Nobody /\ d \in Objs /\ Class[d] = "Device" /\ "Device" \in Classes
  BY DEF ObjectsAssumption, Devs
<1>3. Linked(d)
  BY <1>1, <1>2, FoundIs DEF Linked
<1>4. \A u \in Threads : pc[u].obj = d => pc[u].at \in Viewing
  BY DEF Owns
<1>5. Settled(d)
  BY <1>4 DEF Settled, Viewing
<1>6. type[d] # "none"
  BY <1>2, <1>3, <1>5 DEF DevInv, ObjInv, RestOK
<1>7. \A u \in Threads : At(u, "fields") => pc[u].obj # d
  BY <1>4 DEF At, Viewing
<1> QED BY <1>3, <1>6, <1>7 DEF Kept

\* The input of the shell and the console are registered.
LEMMA InUseIsKept ==
    ASSUME DevInv, NEW d \in Devs,
           d \in {input, console} \/ ref_count[d] # 0 \/ Total(opens, d) # 0
    PROVE  Kept(d)
BY DEF DevInv, Device, Spare

-----------------------------------------------------------------------------
(* What the shell and the console have, by what their thread does.         *)

\* The shell has its input, until it has closed it, and the new device.
LEMMA ShellOf ==
    ASSUME DevInv, NEW t \in Threads, app.inputs[t] # {}, NEW d
    PROVE  ShellHas(d) <=> (input = d /\ ~Gone(t)) \/ (pc[t].obj = d /\ Taken(t))
<1>1. ASSUME NEW u \in Threads \ {t} PROVE ~Gone(u) /\ ~Taken(u)
  <2>1. ~Shelling(u)
    BY DEF DevInv, Disciplined, Called, Callers
  <2> QED BY <2>1 DEF Shelling, Gone, Taken
<1> QED BY <1>1 DEF ShellHas

LEMMA ShellOfNext ==
    ASSUME DevInv, NEW t \in Threads, app.inputs[t] # {}, NEW d,
           \A u \in Threads \ {t} : pc'[u] = pc[u]
    PROVE  ShellHas(d)' <=> (input' = d /\ ~Gone(t)') \/ (pc'[t].obj = d /\ Taken(t)')
<1>1. ASSUME NEW u \in Threads \ {t} PROVE ~Gone(u)' /\ ~Taken(u)'
  <2>1. ~Shelling(u) /\ pc'[u] = pc[u]
    BY DEF DevInv, Disciplined, Called, Callers
  <2> QED BY <2>1 DEF Shelling, Gone, Taken
<1> QED BY <1>1 DEF ShellHas

\* The console has its device at most, until it is closed, and then the new one.
LEMMA ConsoleOf ==
    ASSUME DevInv, NEW t \in Threads, app.consoles[t] # {}
    PROVE  opened # Nobody => \/ ~Consoling(t) /\ opened = console
                              \/ At(t, "console") /\ opened = pc[t].obj
<1>1. ASSUME NEW u \in Threads \ {t} PROVE ~Consoling(u)
  BY DEF DevInv, Disciplined, Called, Callers
<1>2. CASE Consoling(t)
  BY <1>2 DEF DevInv, Called, Progress
<1>3. CASE ~Consoling(t)
  BY <1>1, <1>3 DEF DevInv, ConsoleOK
<1> QED BY <1>2, <1>3

-----------------------------------------------------------------------------
(* A step of a call on devices.                                            *)

\* A thread goes on, and no other.
LEMMA Goes ==
    ASSUME DevInv, NEW t \in Threads, NEW l, NEW o, NEW then, Goto(t, l, o, then)
    PROVE  /\ pc'[t].at = l /\ pc'[t].then = then
           /\ pc'[t].obj = IF l = "ready" THEN Nobody ELSE o
           /\ \A u \in Threads \ {t} : pc'[u] = pc[u]
BY DEF Goto, DevInv, ObjInv, TypeInv, PcOK

\* Where a thread is.
LEMMA Placed ==
    ASSUME DevInv, NEW t \in Threads
    PROVE  Place(pc[t].at, pc[t].obj, pc[t].then)
BY DEF DevInv, ObjInv, TypeInv, PcOK

\* A thread that is out of its call.
LEMMA OutCalled ==
    ASSUME ObjectsAssumption, ObjInv', NEW t \in Threads,
           pc'[t].at \in {"ready"} \/ (At(t, "wait"))'
    PROVE  Called(t)' /\ Owns(t)' = {} /\ ~Shelling(t)' /\ ~Consoling(t)'
           /\ ~Taken(t)' /\ ~Gone(t)' /\ ~At(t, "console")'
<1>1. pc'[t].at \in {"ready", "wait"}
  BY DEF At
<1>2. /\ Owns(t)' = {} /\ ~Shelling(t)' /\ ~Consoling(t)' /\ ~Taken(t)' /\ ~Gone(t)'
  BY <1>1, NobodysOwnNext
<1>3. Called(t)'
  BY <1>1, <1>2 DEF Called, Callers, Holds, Progress, At
<1>4. ~At(t, "console")'
  BY <1>1 DEF At
<1> QED BY <1>2, <1>3, <1>4

\* Its call is about devices no other is about; containers stay.
CallStep(t, D) ==
    /\ UNCHANGED <<app, containers>>
    /\ \A u \in Threads \ {t} : pc'[u] = pc[u] /\ old_flag'[u] = old_flag[u]
    /\ pc'[t].at \notin {"insert", "fields"}
    /\ D \subseteq Devs
    /\ \A d \in D \cup Owns(t)' : d \in Owns(t) \/ Exclusive(t, d)
    /\ \A d \in Devs \ D :
          /\ ref_count'[d] = ref_count[d] /\ open_flag'[d] = open_flag[d]
          /\ (d \in activated' <=> d \in activated) /\ (d \in running' <=> d \in running)
          /\ (d \in robbed' <=> d \in robbed)
          /\ \A u \in Threads : opens'[u][d] = opens[u][d]
    /\ input' = input \/ Shelling(t)
    /\ console' = console \/ Consoling(t)
    /\ opened' = opened \/ app.consoles[t] # {}
    /\ At(t, "count") => pc[t].obj \in D
    /\ CountTypes'

\* Such a step is within its devices, and what is registered stays so.
LEMMA CallStepIs ==
    ASSUME DevInv, ObjInv', NEW t \in Threads, NEW D, CallStep(t, D)
    PROVE  /\ Within(t, D) /\ D \in SUBSET Devs
           /\ \A d \in Devs : Kept(d) => Kept(d)'
<1>1. \A d \in D \cup Owns(t)' : \A u \in Threads \ {t} : d \notin Owns(u)
  <2> SUFFICES ASSUME NEW d \in D \cup Owns(t)', NEW u \in Threads \ {t} PROVE d \notin Owns(u)
    OBVIOUS
  <2>1. d \in Devs
    BY DEF CallStep, Owns
  <2>2. CASE d \in Owns(t)
    BY <2>2 DEF DevInv, Apart
  <2>3. CASE Exclusive(t, d)
    BY <2>1, <2>3, AwayOwnsNot DEF Exclusive
  <2> QED BY <2>2, <2>3 DEF CallStep
<1>2. \A d \in Devs : type'[d] = type[d] /\ Linked(d)' = Linked(d)
  BY DEF CallStep, containers, Linked
<1>3. Within(t, D)
  BY <1>1, <1>2 DEF Within, Same, CallStep, At
<1>6. ASSUME NEW d \in Devs, Kept(d) PROVE Kept(d)'
  <2>1. \A u \in Threads : At(u, "fields")' => At(u, "fields") /\ pc'[u].obj = pc[u].obj
    BY DEF CallStep, At
  <2> QED BY <1>2, <1>6, <2>1 DEF Kept
<1> QED BY <1>3, <1>6 DEF CallStep

\* What is registered stays so.
LEMMA KeptStays ==
    ASSUME NEW t \in Threads, UNCHANGED containers, \A u \in Threads \ {t} : pc'[u] = pc[u],
           pc'[t].at # "fields", NEW d \in Devs, Kept(d)
    PROVE  Kept(d)'
<1>1. \A u \in Threads : At(u, "fields")' => At(u, "fields") /\ pc'[u].obj = pc[u].obj
  BY DEF At
<1> QED BY <1>1 DEF Kept, containers, Linked

-----------------------------------------------------------------------------
(* Steps that count nothing: a call begins, an initialization, a refusal.  *)

\* What remains to be shown of them.
LEMMA BeginsOrEnds ==
    ASSUME ObjectsAssumption, DevInv, ObjInv', NEW t \in Threads, NEW e \in Devs,
           UNCHANGED <<app, containers, open_flag, ref_count, opens, running, shell>>,
           activated' \in {activated, activated \cup {e}},
           \A u \in Threads \ {t} : pc'[u] = pc[u],
           pc[t].at \notin {"take", "indicate", "count"},
           pc'[t].at \notin {"insert", "fields", "take", "indicate", "wait"},
           \A d \in {e} \cup Owns(t)' : d \in Owns(t) \/ Exclusive(t, d),
           Called(t)', \A d \in Devs : HasAsBefore(d), Consoling(t)' \/ ~Consoling(t)
    PROVE  DevInv'
<1>1. CountTypes'
  BY DEF DevInv, CountTypes, shell
<1>2. \A d \in Devs \ {e} : d \in activated' <=> d \in activated
  OBVIOUS
<1>3. CallStep(t, {e})
  BY <1>1, <1>2 DEF CallStep, shell, At
<1>4. /\ Within(t, {e}) /\ {e} \in SUBSET Devs
      /\ \A d \in Devs : Kept(d) => Kept(d)'
  BY <1>3, CallStepIs
<1>5. Device(e)'
  <2>1. Device(e) /\ HasAsBefore(e)
    BY DEF DevInv
  <2>2. Total(opens, e)' = Total(opens, e)
    OBVIOUS
  <2>3. Counted(e)'
    BY <2>1, <2>2 DEF Device, Counted, Held, HasAsBefore, shell
  <2>4. Flagged(e)'
    <3>1. ASSUME NEW u \in Threads, At(u, "count"), pc[u].obj = e
          PROVE  At(u, "count")' /\ pc'[u].obj = e
      BY <3>1 DEF At
    <3> QED BY <2>1, <3>1 DEF Device, Flagged
  <2>5. (Kept(e) \/ Spare(e))'
    BY <1>4, <2>1 DEF Device, Spare, shell
  <2> QED BY <2>3, <2>4, <2>5 DEF Device
<1>6. InputOK' /\ ConsoleOK'
  BY InputBeside, ConsoleBeside DEF shell
<1> QED BY <1>4, <1>5, <1>6, StepKeeps DEF shell

\* What a call is about when it begins.
LEMMA BeginsWith ==
    ASSUME ObjectsAssumption, DevInv, NEW t \in Threads, At(t, "ready"), NEW d \in Devs,
           Exclusive(t, d)
    PROVE  /\ Owns(t) = {} /\ ~Shelling(t) /\ ~Consoling(t) /\ ~Taken(t) /\ ~Gone(t)
           /\ pc[t].at = "ready" /\ ~At(t, "console") /\ pc[t].obj # d
           /\ \A u \in Threads : d \notin Owns(u)
           /\ Findable(d) => Kept(d)
<1>1. Owns(t) = {} /\ ~Shelling(t) /\ ~Consoling(t) /\ ~Taken(t) /\ ~Gone(t)
  BY NobodysOwn DEF At
<1>2. \A u \in Threads : d \notin Owns(u)
  BY <1>1, AwayOwnsNot DEF Exclusive
<1>3. pc[t].obj # d
  BY Placed DEF At, Place, ObjectsAssumption, Devs, Viewing
<1> QED BY <1>1, <1>2, <1>3, FoundIsKept DEF At

LEMMA DeviceInitKeeps ==
    ASSUME ObjectsAssumption, DevInv, ObjInv', NEW t \in Threads, NEW d \in Devs,
           DeviceInit(t, d)
    PROVE  DevInv'
<1>1. /\ At(t, "ready") /\ Exclusive(t, d) /\ Goto(t, "ready", d, "ready")
      /\ activated' \in {activated, activated \cup {d}}
      /\ UNCHANGED <<app, containers, open_flag, ref_count, opens, running, shell>>
  BY DEF DeviceInit, Activate
<1>2. pc'[t].at = "ready" /\ \A u \in Threads \ {t} : pc'[u] = pc[u]
  BY <1>1, Goes
<1>3. /\ Owns(t) = {} /\ ~Taken(t) /\ ~Gone(t) /\ ~Consoling(t) /\ ~At(t, "console")
      /\ pc[t].at = "ready"
  BY <1>1, BeginsWith
<1>4. /\ Called(t)' /\ Owns(t)' = {} /\ ~Taken(t)' /\ ~Gone(t)' /\ ~Consoling(t)'
      /\ ~At(t, "console")'
  BY <1>2, OutCalled
<1>5. \A e \in Devs : HasAsBefore(e)
  BY <1>1, <1>2, <1>3, <1>4, ShellBeside DEF HasAsBefore, ConsoleHas, shell
<1> QED BY <1>1, <1>2, <1>3, <1>4, <1>5, BeginsOrEnds

\* rt_device_open begins, by an application or the shell.
LEMMA OpensBegin ==
    ASSUME ObjectsAssumption, DevInv, ObjInv', NEW t \in Threads, NEW d \in Devs,
           At(t, "ready"), Exclusive(t, d), Findable(d),
           NEW then \in {"ready", "swap"}, Activate(t, d, "open", then, "ready"),
           then = "swap" => /\ app.inputs[t] # {} /\ d # input
                            /\ input # Nobody => Exclusive(t, input),
           UNCHANGED <<app, containers, open_flag, ref_count, opens, running, shell>>
    PROVE  DevInv'
<1>1. /\ activated' \in {activated, activated \cup {d}}
      /\ \/ Goto(t, "open", d, then) /\ activated' = activated \cup {d}
         \/ Goto(t, "ready", d, "ready")
  BY DEF Activate
<1>2. /\ Owns(t) = {} /\ ~Taken(t) /\ ~Gone(t) /\ ~Consoling(t) /\ ~At(t, "console")
      /\ pc[t].at = "ready" /\ Kept(d)
  BY BeginsWith
<1>3. /\ \A u \in Threads \ {t} : pc'[u] = pc[u]
      /\ \/ pc'[t].at = "ready"
         \/ /\ pc'[t].at = "open" /\ pc'[t].then = then /\ pc'[t].obj = d /\ d \in activated'
  BY <1>1, Goes
<1>4. CASE pc'[t].at = "ready"
  <2>1. /\ Called(t)' /\ Owns(t)' = {} /\ ~Taken(t)' /\ ~Gone(t)' /\ ~Consoling(t)'
        /\ ~At(t, "console")'
    BY <1>4, OutCalled
  <2>2. \A e \in Devs : HasAsBefore(e)
    BY <1>2, <1>3, <2>1, ShellBeside DEF HasAsBefore, ConsoleHas, shell
  <2> QED BY <1>1, <1>2, <1>3, <1>4, <2>1, <2>2, BeginsOrEnds
<1>5. CASE /\ pc'[t].at = "open" /\ pc'[t].then = then /\ pc'[t].obj = d /\ d \in activated'
  <2>1. /\ ~Taken(t)' /\ ~Gone(t)' /\ ~Consoling(t)' /\ ~At(t, "console")'
        /\ Shelling(t)' <=> then = "swap"
    BY <1>5 DEF Taken, Gone, Consoling, Shelling, At
  <2>2. \A e \in Owns(t)' : e = d \/ (then = "swap" /\ e = input)
    BY <1>5, <2>1 DEF Owns, shell
  <2>3. \A e \in Devs : HasAsBefore(e)
    BY <1>2, <1>3, <2>1, ShellBeside DEF HasAsBefore, ConsoleHas, shell
  <2>4. \A e \in {d} \cup Owns(t)' : Exclusive(t, e)
    BY <2>2 DEF Owns, ObjectsAssumption, Devs
  <2>5. \A e \in Devs : Kept(e) => Kept(e)'
    <3>1. \A u \in Threads : At(u, "fields")' => At(u, "fields") /\ pc'[u].obj = pc[u].obj
      BY <1>3, <1>5 DEF At
    <3> QED BY <3>1 DEF Kept, containers, Linked
  <2>6. Callers(t)'
    BY <2>1 DEF Callers
  <2>7. Holds(t)'
    <3> SUFFICES ASSUME NEW e \in Owns(t)' PROVE Kept(e)'
      BY DEF Holds
    <3>1. e \in Devs /\ (e = d \/ e = input)
      BY <2>2 DEF Owns
    <3> QED BY <1>2, <2>5, <3>1, InUseIsKept
  <2>8. Progress(t)'
    BY <1>5, <2>1 DEF Progress, At, shell
  <2>9. Called(t)'
    BY <2>6, <2>7, <2>8 DEF Called
  <2> QED BY <1>1, <1>2, <1>3, <1>5, <2>3, <2>4, <2>9, BeginsOrEnds
<1> QED BY <1>3, <1>4, <1>5

LEMMA OpenKeeps ==
    ASSUME ObjectsAssumption, DevInv, ObjInv', NEW t \in Threads, NEW d \in Devs,
           Open(t, d) \/ SetDevice(t, d)
    PROVE  DevInv'
<1>1. CASE Open(t, d)
  BY <1>1, OpensBegin DEF Open
<1>2. CASE SetDevice(t, d)
  <2>1. app.inputs[t] # {}
    BY <1>2 DEF SetDevice
  <2> QED BY <1>2, <2>1, OpensBegin DEF SetDevice
<1> QED BY <1>1, <1>2

\* The initialization of the new console may fail: it is the console none the less.
LEMMA OpenConsoleKeeps ==
    ASSUME ObjectsAssumption, DevInv, ObjInv', NEW t \in Threads, OpenConsole(t)
    PROVE  DevInv'
<1>0. PICK d \in Devs : d = pc[t].obj
  BY Placed DEF OpenConsole, At, Place, Viewing
<1>1. /\ At(t, "reopen") /\ pc[t].at = "reopen" /\ pc[t].then = "ready" /\ d \in Owns(t)
  BY <1>0, Placed DEF OpenConsole, At, Place, Viewing, Owns
<1>2. /\ Callers(t) /\ Holds(t) /\ Consoling(t) /\ ~Shelling(t) /\ ~Taken(t) /\ ~Gone(t)
      /\ opened = Nobody
  BY <1>1 DEF DevInv, Called, Consoling, Shelling, Taken, Gone, At, Progress
<1>3. /\ activated' \in {activated, activated \cup {d}}
      /\ \/ Goto(t, "open", d, "console") /\ activated' = activated \cup {d}
         \/ Goto(t, "console", d, "ready")
      /\ UNCHANGED <<app, containers, open_flag, ref_count, opens, running, shell>>
  BY <1>0 DEF OpenConsole, Activate
<1>4. /\ \A u \in Threads \ {t} : pc'[u] = pc[u]
      /\ pc'[t].obj = d
      /\ \/ pc'[t].at = "open" /\ pc'[t].then = "console" /\ d \in activated'
         \/ pc'[t].at = "console"
  BY <1>3, Goes
<1>5. UNCHANGED <<input, console, opened>>
  BY <1>3 DEF shell
<1>6. /\ ~Taken(t)' /\ ~Gone(t)' /\ Consoling(t)' /\ ~Shelling(t)'
  BY <1>4 DEF Taken, Gone, Consoling, Shelling, At
<1>7. Owns(t)' = Owns(t)
  BY <1>0, <1>1, <1>2, <1>4, <1>5, <1>6 DEF Owns, Viewing
<1>8. \A e \in Devs : HasAsBefore(e)
  BY <1>2, <1>4, <1>5, <1>6, ShellBeside DEF HasAsBefore, ConsoleHas
<1>9. \A e \in Devs : Kept(e) => Kept(e)'
  <2>1. \A u \in Threads : At(u, "fields")' => At(u, "fields") /\ pc'[u].obj = pc[u].obj
    BY <1>4 DEF At
  <2> QED BY <1>3, <2>1 DEF Kept, containers, Linked
<1>10. Called(t)'
  <2>1. Callers(t)'
    BY <1>0, <1>2, <1>3, <1>4, <1>6 DEF Callers
  <2>2. Holds(t)'
    BY <1>1, <1>2, <1>7, <1>9 DEF Holds, Owns, Working
  <2>3. Progress(t)'
    BY <1>2, <1>4, <1>5, <1>6 DEF Progress, At
  <2> QED BY <2>1, <2>2, <2>3 DEF Called
<1>11. \A e \in {d} \cup Owns(t)' : e \in Owns(t)
  BY <1>1, <1>7
<1>12. pc[t].at \notin {"take", "indicate", "count"}
       /\ pc'[t].at \notin {"insert", "fields", "take", "indicate", "wait"}
  BY <1>1, <1>4
<1> QED BY <1>3, <1>4, <1>6, <1>8, <1>10, <1>11, <1>12, BeginsOrEnds

\* A refusal ends the call, or the console goes on without the device.
LEMMA OpenRefusedKeeps ==
    ASSUME ObjectsAssumption, DevInv, ObjInv', NEW t \in Threads, OpenRefused(t)
    PROVE  DevInv'
<1>0. PICK d \in Devs : d = pc[t].obj
  BY Placed DEF OpenRefused, At, Place, Viewing
<1>1. /\ At(t, "open") /\ pc[t].at = "open" /\ d \in Owns(t)
      /\ UNCHANGED <<app, containers, devices, shell>>
  BY <1>0 DEF OpenRefused, At, Owns, Viewing
<1>2. UNCHANGED <<activated, open_flag, ref_count, opens, running, input, console, opened>>
  BY <1>1 DEF devices, shell
<1>3. ~Taken(t) /\ ~Gone(t)
  BY <1>1 DEF Taken, Gone
<1>4. CASE pc[t].then = "console"
  <2>1. Goto(t, "console", d, "ready")
    BY <1>0, <1>4 DEF OpenRefused, Return
  <2>2. /\ pc'[t].at = "console" /\ pc'[t].obj = d
        /\ \A u \in Threads \ {t} : pc'[u] = pc[u]
    BY <2>1, Goes
  <2>3. Callers(t) /\ Holds(t) /\ Consoling(t) /\ ~Shelling(t) /\ opened = Nobody
    BY <1>1, <1>4 DEF DevInv, Called, Consoling, Shelling, At, Progress
  <2>4. ~Taken(t)' /\ ~Gone(t)' /\ Consoling(t)' /\ ~Shelling(t)'
    BY <2>2 DEF Taken, Gone, Consoling, Shelling, At
  <2>5. Owns(t)' = Owns(t)
    BY <1>0, <1>1, <1>2, <2>2, <2>3, <2>4 DEF Owns, Viewing
  <2>6. \A e \in Devs : HasAsBefore(e)
    BY <1>2, <1>3, <2>2, <2>4, ShellBeside DEF HasAsBefore, ConsoleHas
  <2>7. \A e \in Devs : Kept(e) => Kept(e)'
    BY <1>1, <2>2, KeptStays
  <2>8. Called(t)'
    <3>1. Callers(t)'
      BY <1>0, <1>1, <2>2, <2>3, <2>4 DEF Callers
    <3>2. Holds(t)'
      BY <1>1, <2>3, <2>5, <2>7 DEF Holds, Owns, Working
    <3>3. Progress(t)'
      BY <1>2, <2>2, <2>3, <2>4 DEF Progress, At
    <3> QED BY <3>1, <3>2, <3>3 DEF Called
  <2>9. \A e \in {d} \cup Owns(t)' : e \in Owns(t)
    BY <1>1, <2>5
  <2>10. pc[t].at \notin {"take", "indicate", "count"}
         /\ pc'[t].at \notin {"insert", "fields", "take", "indicate", "wait"}
    BY <1>1, <2>2
  <2> QED BY <1>1, <1>2, <2>2, <2>4, <2>6, <2>8, <2>9, <2>10, BeginsOrEnds
<1>5. CASE pc[t].then # "console"
  <2>1. Goto(t, "ready", Nobody, "ready")
    BY <1>5 DEF OpenRefused, Ready
  <2>2. pc'[t].at = "ready" /\ \A u \in Threads \ {t} : pc'[u] = pc[u]
    BY <2>1, Goes
  <2>3. ~Consoling(t)
    BY <1>1, <1>5 DEF Consoling
  <2>4. Called(t)' /\ Owns(t)' = {} /\ ~Taken(t)' /\ ~Gone(t)'
    BY <2>2, OutCalled
  <2>5. \A e \in Devs : HasAsBefore(e)
    BY <1>2, <1>3, <2>2, <2>4, ShellBeside DEF HasAsBefore, ConsoleHas
  <2>6. pc[t].at \notin {"take", "indicate", "count"}
        /\ pc'[t].at \notin {"insert", "fields", "take", "indicate", "wait"}
    BY <1>1, <2>2
  <2> QED BY <1>1, <1>2, <2>2, <2>3, <2>4, <2>5, <2>6, BeginsOrEnds
<1> QED BY <1>4, <1>5

-----------------------------------------------------------------------------
(* Steps about one device, that the shell and the console are not about.   *)

\* What remains to be shown of them.
LEMMA OneDevice ==
    ASSUME ObjectsAssumption, DevInv, ObjInv', NEW t \in Threads, NEW e \in Devs,
           CallStep(t, {e}), UNCHANGED <<input, console, rx_indicate, rx_sem, bytes>>,
           Consoling(t)' \/ (~Consoling(t) /\ UNCHANGED opened),
           input \notin robbed' => input \notin robbed,
           pc[t].at \notin {"take", "indicate"},
           pc'[t].at \notin {"take", "indicate", "wait"},
           Called(t)', Counted(e)', Flagged(e)', Kept(e) \/ Spare(e)',
           \A d \in Devs \ {e} : HasAsBefore(d)
    PROVE  DevInv'
<1>1. /\ Within(t, {e}) /\ {e} \in SUBSET Devs
      /\ \A d \in Devs : Kept(d) => Kept(d)'
  BY CallStepIs
<1>2. Device(e)'
  BY <1>1 DEF Device
<1>3. InputOK' /\ ConsoleOK'
  BY InputBeside, ConsoleBeside DEF CallStep
<1> QED BY <1>1, <1>2, <1>3, StepKeeps

\* A device whose opens did not change.
LEMMA CountStays ==
    ASSUME DevInv, NEW d \in Devs, UNCHANGED opens, ref_count'[d] = ref_count[d],
           d \in robbed' <=> d \in robbed, HasAsBefore(d)
    PROVE  Counted(d)'
<1>1. Total(opens, d)' = Total(opens, d)
  OBVIOUS
<1> QED BY <1>1 DEF DevInv, Device, Counted, Held, HasAsBefore

\* The fields of a new device: nobody has it open.
LEMMA RegisterFieldsKeeps ==
    ASSUME ObjectsAssumption, DevInv, ObjInv', NEW t \in Threads, RegisterFields(t)
    PROVE  DevInv'
<1>0. PICK d \in Devs : d = pc[t].obj
  BY Placed DEF RegisterFields, At, Place, Viewing
<1>1. At(t, "fields") /\ d \in Devs /\ d \in Objs /\ d \in Owns(t) /\ pc[t].at = "fields"
  BY <1>0, Placed DEF RegisterFields, At, Place, Viewing, Owns, Devs
<1>2. /\ activated' = activated \ {d} /\ ref_count' = [ref_count EXCEPT ![d] = 0]
      /\ open_flag' = [open_flag EXCEPT ![d] = {}]
      /\ Goto(t, "ready", Nobody, "ready")
      /\ robbed' = robbed \ {d}
      /\ UNCHANGED <<app, containers, opens, running, rx_indicate, bytes, console, opened,
                     old_flag, input, rx_sem>>
  BY <1>0 DEF RegisterFields, Ready
<1>3. pc'[t].at = "ready" /\ \A u \in Threads \ {t} : pc'[u] = pc[u]
  BY <1>2, Goes
<1>4. CountTypes'
  BY <1>1, <1>2 DEF DevInv, CountTypes
<1>5. Spare(d)
  BY <1>0, <1>1 DEF DevInv, Device, Kept
<1>6. /\ Called(t)' /\ Owns(t)' = {} /\ ~Taken(t)' /\ ~Gone(t)' /\ ~Consoling(t)'
      /\ ~At(t, "console")'
  BY <1>3, OutCalled
<1>7. /\ ~Taken(t) /\ ~Gone(t) /\ ~Consoling(t) /\ ~At(t, "console")
  BY <1>0, <1>1 DEF Taken, Gone, Consoling, At
<1>8. \A e \in Devs : HasAsBefore(e)
  BY <1>2, <1>3, <1>6, <1>7, ShellBeside DEF HasAsBefore, ConsoleHas
<1>9. ref_count'[d] = 0 /\ ref_count[d] = 0
  BY <1>1, <1>2, <1>5 DEF DevInv, CountTypes, Spare
<1>10. CallStep(t, {d})
  <2>1. \A e \in Devs \ {d} : /\ ref_count'[e] = ref_count[e] /\ open_flag'[e] = open_flag[e]
                              /\ e \in activated' <=> e \in activated
                              /\ e \in robbed' <=> e \in robbed
    BY <1>2 DEF DevInv, CountTypes, Devs
  <2> QED BY <1>0, <1>1, <1>2, <1>3, <1>4, <1>6, <2>1 DEF CallStep, At
<1>11. Flagged(d)' /\ Spare(d)'
  BY <1>2, <1>5, <1>9 DEF Flagged, Spare
<1>12. Counted(d)'
  <2>2. ~ShellHas(d) /\ ~ConsoleHas(d)
    <3>1. ASSUME NEW u \in Threads, pc[u].obj = d PROVE ~Taken(u)
      <4>1. CASE u = t
        BY <1>7, <4>1
      <4>2. CASE u # t
        <5>1. d \notin Owns(u)
          BY <1>1, <4>2 DEF DevInv, Apart
        <5>2. pc[u].at \in Viewing
          BY <3>1, <5>1 DEF Owns
        <5> QED BY <5>2 DEF Taken, Gone, Viewing
      <4> QED BY <4>1, <4>2
    <3>2. d \notin {input, opened}
      BY <1>5 DEF Spare
    <3> QED BY <3>1, <3>2 DEF ShellHas, ConsoleHas
  <2>3. Total(opens, d)' = 0
    BY <1>11 DEF Spare
  <2>4. HasAsBefore(d)
    BY <1>8
  <2> QED BY <1>9, <2>2, <2>3, <2>4 DEF Counted, Held, HasAsBefore, One
<1>13. input \notin robbed' => input \notin robbed
  BY <1>2, <1>5 DEF Spare
<1> QED BY <1>1, <1>2, <1>3, <1>6, <1>7, <1>8, <1>10, <1>11, <1>12, <1>13, OneDevice

\* The driver is open, and its device is open once, if it stands alone.
LEMMA OpenDriverKeeps ==
    ASSUME ObjectsAssumption, DevInv, ObjInv', NEW t \in Threads, OpenDriver(t)
    PROVE  DevInv'
<1>0. PICK d \in Devs : d = pc[t].obj
  BY Placed DEF OpenDriver, At, Place, Viewing
<1>1. /\ At(t, "open") /\ d \in Devs /\ d \in Objs /\ d \in Owns(t) /\ pc[t].at = "open"
      /\ pc[t].then \in {"ready", "swap", "console"}
  BY <1>0, Placed DEF OpenDriver, At, Place, Viewing, Owns, Devs
<1>2. /\ ~(d \in Standalone /\ "OPEN" \in open_flag[d])
      /\ running' = running \cup {d} /\ open_flag' = [open_flag EXCEPT ![d] = Flags(t)]
      /\ Goto(t, "count", d, pc[t].then)
      /\ UNCHANGED <<app, containers, activated, ref_count, opens, shell>>
  BY <1>0 DEF OpenDriver
<1>3. /\ pc'[t].at = "count" /\ pc'[t].obj = d /\ pc'[t].then = pc[t].then
      /\ \A u \in Threads \ {t} : pc'[u] = pc[u]
  BY <1>2, Goes
<1>4. CountTypes'
  BY <1>1, <1>2 DEF DevInv, CountTypes, shell
<1>5. /\ ~Taken(t) /\ ~Gone(t) /\ ~Taken(t)' /\ ~Gone(t)'
      /\ (Consoling(t)' <=> Consoling(t)) /\ (Shelling(t)' <=> Shelling(t))
      /\ ~At(t, "console") /\ ~At(t, "console")'
  BY <1>0, <1>1, <1>3 DEF Taken, Gone, Consoling, Shelling, At
<1>6. \A e \in Devs : HasAsBefore(e)
  BY <1>2, <1>3, <1>5, ShellBeside DEF HasAsBefore, ConsoleHas, shell
<1>7. Owns(t)' = Owns(t)
  BY <1>0, <1>1, <1>2, <1>3, <1>5 DEF Owns, shell, Viewing
<1>8. CallStep(t, {d})
  <2>1. \A e \in Devs \ {d} : open_flag'[e] = open_flag[e]
    BY <1>2 DEF DevInv, CountTypes, Devs
  <2> QED BY <1>0, <1>1, <1>2, <1>3, <1>4, <1>7, <2>1 DEF CallStep, shell, At
<1>9. Callers(t) /\ Holds(t) /\ Progress(t) /\ Flagged(d) /\ Kept(d)
  BY <1>0, <1>1 DEF DevInv, Called, Holds, Device, Working
<1>10. d \in Standalone => ref_count[d] = 0
  <2> SUFFICES ASSUME d \in Standalone, ref_count[d] # 0 PROVE FALSE
    OBVIOUS
  <2>1. ref_count[d] \in Nat
    BY <1>1 DEF DevInv, CountTypes
  <2>2. PICK u \in Threads : At(u, "count") /\ pc[u].obj = d
    BY <1>2, <1>9, <2>1 DEF Flagged
  <2>3. d \in Owns(u) /\ u # t
    BY <1>1, <2>2 DEF Owns, At, Viewing
  <2> QED BY <1>1, <2>3 DEF DevInv, Apart
<1>11. Called(t)'
  <2>1. Callers(t)'
    BY <1>0, <1>2, <1>3, <1>5, <1>9 DEF Callers
  <2>2. Holds(t)'
    <3>1. \A e \in Owns(t) : Kept(e)'
      BY <1>1, <1>8, <1>9, CallStepIs DEF Holds, Working, Owns
    <3> QED BY <1>7, <3>1 DEF Holds
  <2>3. Progress(t)'
    BY <1>0, <1>1, <1>2, <1>3, <1>5, <1>9, <1>10 DEF Progress, At, shell
  <2> QED BY <2>1, <2>2, <2>3 DEF Called
<1>12. Flagged(d)'
  <2>1. At(t, "count")' /\ pc'[t].obj = d /\ d \in running' /\ d \in activated'
    BY <1>0, <1>2, <1>3, <1>1, <1>9 DEF At, Progress
  <2> QED BY <1>2, <1>9, <2>1 DEF Flagged
<1>13. Counted(d)'
  BY <1>1, <1>2, <1>6, CountStays DEF shell
<1>14. /\ UNCHANGED <<input, console, rx_indicate, rx_sem, bytes, opened, robbed>>
       /\ Consoling(t)' \/ (~Consoling(t) /\ UNCHANGED opened)
  BY <1>2, <1>5 DEF shell
<1> QED BY <1>1, <1>3, <1>6, <1>8, <1>9, <1>11, <1>12, <1>13, <1>14, OneDevice

\* The open is counted, for a thread, the shell or the console.
LEMMA CountKeeps ==
    ASSUME ObjectsAssumption, DevInv, ObjInv', NEW t \in Threads, Count(t)
    PROVE  DevInv'
<1> DEFINE then == pc[t].then
<1>0. PICK d \in Devs : d = pc[t].obj
  BY Placed DEF Count, At, Place, Viewing
<1>1. /\ At(t, "count") /\ d \in Devs /\ d \in Objs /\ d \in Owns(t) /\ pc[t].at = "count"
      /\ then \in {"ready", "swap", "console"}
  BY <1>0, Placed DEF Count, At, Place, Viewing, Owns, Devs
<1>2. /\ open_flag' = [open_flag EXCEPT ![d] = @ \cup {"OPEN"}]
      /\ ref_count' = [ref_count EXCEPT ![d] = @ + 1]
      /\ opens' = IF then = "ready" THEN [opens EXCEPT ![t][d] = @ + 1] ELSE opens
      /\ Goto(t, then, d, "ready")
      /\ opened' = IF then = "console" THEN d ELSE opened
      /\ UNCHANGED <<app, containers, activated, running, rx_indicate, bytes, console,
                     robbed, old_flag, input, rx_sem>>
  BY <1>0 DEF Count, Return
<1>3. /\ pc'[t].at = then
      /\ then # "ready" => pc'[t].obj = d
      /\ then = "ready" => pc'[t].obj = Nobody
      /\ \A u \in Threads \ {t} : pc'[u] = pc[u]
  BY <1>2, Goes
<1>4. CountTypes' /\ ref_count \in [Objs -> Nat] /\ opens \in [Threads -> [Objs -> Nat]]
      /\ DOMAIN open_flag = Objs
  BY <1>1, <1>2 DEF DevInv, CountTypes
<1>5. /\ ref_count'[d] = ref_count[d] + 1 /\ "OPEN" \in open_flag'[d]
      /\ \A e \in Devs \ {d} : /\ ref_count'[e] = ref_count[e]
                               /\ open_flag'[e] = open_flag[e]
                               /\ \A u \in Threads : opens'[u][e] = opens[u][e]
      /\ \A u \in Threads \ {t} : opens'[u][d] = opens[u][d]
      /\ opens'[t][d] = opens[t][d] + One(then = "ready")
  <2>1. \A e \in Devs : e \in Objs
    BY DEF Devs
  <2>2. CASE then = "ready"
    BY <1>1, <1>2, <1>4, <2>1, <2>2 DEF One
  <2>3. CASE then # "ready"
    <3>1. opens[t][d] \in Nat
      BY <1>1, <1>4
    <3> QED BY <1>1, <1>2, <1>4, <2>1, <2>3, <3>1 DEF One
  <2> QED BY <2>2, <2>3
<1>6. /\ ~Taken(t) /\ ~Gone(t) /\ ~Gone(t)' /\ ~At(t, "console")
      /\ (Taken(t)' <=> then = "swap") /\ (At(t, "console")' <=> then = "console")
      /\ (Shelling(t) <=> then = "swap") /\ (Shelling(t)' <=> then = "swap")
      /\ (Consoling(t) <=> then = "console") /\ (Consoling(t)' <=> then = "console")
  BY <1>0, <1>1, <1>3 DEF Taken, Gone, Consoling, Shelling, At
<1>7. \A e \in Owns(t)' : e \in Owns(t)
  BY <1>0, <1>1, <1>2, <1>3, <1>6 DEF Owns, shell, Viewing, ObjectsAssumption, Devs
<1>8. Callers(t) /\ Holds(t) /\ Progress(t) /\ Flagged(d) /\ Counted(d) /\ Kept(d)
  BY <1>0, <1>1 DEF DevInv, Called, Holds, Device, Working
<1>16. then = "console" => app.consoles[t] # {} /\ opened = Nobody
  BY <1>6, <1>8 DEF Callers, Progress
<1>9. CallStep(t, {d})
  BY <1>0, <1>1, <1>2, <1>3, <1>4, <1>5, <1>7, <1>16 DEF CallStep, At
<1>10. Called(t)'
  <2>1. Callers(t)'
    BY <1>0, <1>2, <1>3, <1>6, <1>8 DEF Callers
  <2>2. Holds(t)'
    <3>1. \A e \in Owns(t) : Kept(e)'
      BY <1>1, <1>8, <1>9, CallStepIs DEF Holds, Working, Owns
    <3> QED BY <1>7, <3>1 DEF Holds
  <2>3. Progress(t)'
    BY <1>0, <1>1, <1>2, <1>3, <1>6, <1>8 DEF Progress, At
  <2> QED BY <2>1, <2>2, <2>3 DEF Called
<1>11. Flagged(d)'
  <2>1. d \in running' /\ d \in activated' /\ (d \in Standalone => ref_count'[d] <= 1)
    BY <1>0, <1>1, <1>2, <1>5, <1>8 DEF At, Progress
  <2> QED BY <1>5, <2>1 DEF Flagged
<1>12. /\ \A e \in Devs \ {d} : ShellHas(e)' = ShellHas(e)
       /\ One(ShellHas(d)') = One(ShellHas(d)) + One(then = "swap")
  <2>1. CASE then # "swap"
    <3>1. \A e \in Devs : ShellHas(e)' = ShellHas(e)
      BY <1>2, <1>3, <1>6, <2>1, ShellBeside
    <3>2. One(ShellHas(d)') = One(ShellHas(d))
      BY <3>1
    <3> QED BY <2>1, <3>1, <3>2 DEF One
  <2>2. CASE then = "swap"
    <3>1. app.inputs[t] # {} /\ d # input
      BY <1>0, <1>1, <1>6, <1>8, <2>2 DEF Callers, Progress, At
    <3>2. \A e \in Devs : ShellHas(e) <=> input = e
      BY <1>6, <3>1, ShellOf
    <3>3. \A e \in Devs : ShellHas(e)' <=> input = e \/ d = e
      BY <1>2, <1>3, <1>6, <2>2, <3>1, ShellOfNext
    <3>4. \A e \in Devs \ {d} : ShellHas(e)' = ShellHas(e)
      BY <3>2, <3>3 DEF ShellHas
    <3>5. ShellHas(d)' /\ ~ShellHas(d)
      BY <3>1, <3>2, <3>3
    <3> QED BY <2>2, <3>4, <3>5 DEF One
  <2> QED BY <2>1, <2>2
<1>13. /\ \A e \in Devs \ {d} : ConsoleHas(e)' = ConsoleHas(e)
       /\ One(ConsoleHas(d)') = One(ConsoleHas(d)) + One(then = "console")
  <2>1. CASE then # "console"
    <3>1. \A e \in Devs : ConsoleHas(e)' = ConsoleHas(e)
      BY <1>2, <2>1 DEF ConsoleHas
    <3>2. One(ConsoleHas(d)') = One(ConsoleHas(d))
      BY <3>1
    <3> QED BY <2>1, <3>1, <3>2 DEF One
  <2>2. CASE then = "console"
    <3>1. /\ \A e \in Devs : ~ConsoleHas(e)
          /\ \A e \in Devs \ {d} : ~ConsoleHas(e)'
          /\ ConsoleHas(d)'
      BY <1>2, <1>16, <2>2 DEF ConsoleHas, Devs, ObjectsAssumption
    <3>2. \A e \in Devs \ {d} : ConsoleHas(e)' = ConsoleHas(e)
      BY <3>1 DEF ConsoleHas
    <3> QED BY <2>2, <3>1, <3>2 DEF One
  <2> QED BY <2>1, <2>2
<1>14. Counted(d)'
  <2>1. /\ Total(opens, d) \in Nat /\ Total(opens, d)' \in Nat
        /\ opens[t][d] \in Nat /\ opens'[t][d] \in Nat
        /\ ref_count[d] \in Nat /\ ref_count'[d] \in Nat
        /\ Total(opens, d)' - opens'[t][d] = Total(opens, d) - opens[t][d]
    BY <1>4, <1>5, Sums
  <2>2. \A b : One(b) \in Nat
    BY DEF One
  <2>3. One(then = "ready") + One(then = "swap") + One(then = "console") = 1
    BY <1>1 DEF One
  <2>4. Held(d)' = Held(d) + 1 /\ Held(d) \in Nat
    <3>1. /\ Held(d) = Total(opens, d) + One(ShellHas(d)) + One(ConsoleHas(d))
          /\ Held(d)' = Total(opens, d)' + One(ShellHas(d)') + One(ConsoleHas(d)')
      BY DEF Held
    <3> QED BY ONLY <1>5, <1>12, <1>13, <2>1, <2>2, <2>3, <3>1
  <2>5. ref_count'[d] = ref_count[d] + 1 /\ (d \in robbed' <=> d \in robbed)
    BY <1>2, <1>5
  <2> QED BY <1>8, <2>1, <2>4, <2>5 DEF Counted
<1>15. \A e \in Devs \ {d} : HasAsBefore(e)
  BY <1>12, <1>13 DEF HasAsBefore
<1>17. Consoling(t)' \/ (~Consoling(t) /\ UNCHANGED opened)
  BY <1>2, <1>6
<1> QED BY <1>1, <1>2, <1>3, <1>8, <1>9, <1>10, <1>11, <1>14, <1>15, <1>17, OneDevice

\* The device a thread closes is one its call is about.
LEMMA ClosingIs ==
    ASSUME DevInv, NEW t \in Threads, At(t, "close")
    PROVE  /\ Closing(t) \in Owns(t) /\ Closing(t) \in Devs
           /\ pc[t].at = "close" /\ pc[t].obj \in Devs /\ pc[t].obj \in Owns(t)
           /\ pc[t].then \in {"ready", "quiet", "reopen"} /\ ref_count[Closing(t)] = 0
<1>1. /\ pc[t].at = "close" /\ pc[t].obj \in Devs /\ Closing(t) \in Devs
      /\ pc[t].then \in {"ready", "quiet", "reopen"} /\ ref_count[Closing(t)] = 0
  BY Placed DEF At, Place, Viewing, DevInv, Called, Progress
<1>2. CASE pc[t].then = "quiet"
  BY <1>1, <1>2 DEF Closing, Shelling, Owns, At, Viewing
<1>3. CASE pc[t].then = "reopen"
  BY <1>1, <1>3 DEF Closing, Consoling, Owns, At, Viewing
<1>4. CASE pc[t].then = "ready"
  BY <1>1, <1>4 DEF Closing, Owns, At, Viewing
<1> QED BY <1>1, <1>2, <1>3, <1>4

\* A thread that has a device open gives one of its opens back.
LEMMA CloseKeeps ==
    ASSUME ObjectsAssumption, DevInv, ObjInv', NEW t \in Threads, NEW d \in Devs, Close(t, d)
    PROVE  DevInv'
<1>1. /\ At(t, "ready") /\ Exclusive(t, d) /\ opens[t][d] > 0 /\ d \in Objs
      /\ opens' = [opens EXCEPT ![t][d] = @ - 1]
      /\ ref_count' = [ref_count EXCEPT ![d] = IF @ > 0 THEN @ - 1 ELSE @]
      /\ UNCHANGED <<app, containers, activated, open_flag, running, shell>>
  BY DEF Close, Devs
<1>2. /\ Owns(t) = {} /\ ~Taken(t) /\ ~Gone(t) /\ ~Consoling(t) /\ ~Shelling(t)
      /\ ~At(t, "console") /\ pc[t].at = "ready"
  BY <1>1, BeginsWith
<1>3. /\ ref_count \in [Objs -> Nat] /\ opens \in [Threads -> [Objs -> Nat]]
      /\ Counted(d) /\ Flagged(d)
  BY DEF DevInv, CountTypes, Device
<1>4. CountTypes'
  <2>1. opens[t][d] \in Nat /\ opens[t][d] - 1 \in Nat
    BY <1>1, <1>3
  <2>2. opens' \in [Threads -> [Objs -> Nat]]
    BY <1>1, <1>3, <2>1
  <2>3. ref_count' \in [Objs -> Nat]
    BY <1>1, <1>3
  <2> QED BY <1>1, <2>2, <2>3 DEF DevInv, CountTypes, shell
<1>5. /\ opens'[t][d] = opens[t][d] - 1
      /\ \A u \in Threads \ {t} : opens'[u][d] = opens[u][d]
      /\ \A e \in Devs \ {d} : /\ ref_count'[e] = ref_count[e]
                               /\ \A u \in Threads : opens'[u][e] = opens[u][e]
  BY <1>1, <1>3 DEF Devs
<1>6. /\ Total(opens, d) \in Nat /\ Total(opens, d)' \in Nat
      /\ opens[t][d] \in Nat /\ opens'[t][d] \in Nat
      /\ ref_count[d] \in Nat /\ ref_count'[d] \in Nat
      /\ Total(opens, d)' - opens'[t][d] = Total(opens, d) - opens[t][d]
  BY <1>4, <1>5, Sums
<1>7. /\ ref_count[d] > 0 => ref_count'[d] = ref_count[d] - 1
      /\ ref_count[d] = 0 => ref_count'[d] = 0
  BY <1>1, <1>3
<1>8. Kept(d)
  <2>1. Total(opens, d) # 0
    BY ONLY <1>5, <1>6
  <2> QED BY <2>1, InUseIsKept
<1>9. /\ \A u \in Threads \ {t} : pc'[u] = pc[u]
      /\ \/ pc'[t].at = "ready"
         \/ /\ pc'[t].at = "close" /\ pc'[t].obj = d /\ pc'[t].then = "ready"
            /\ ref_count'[d] = 0
  <2>1. CASE ref_count[d] = 1
    BY <1>7, <2>1, Goes DEF Close
  <2>2. CASE ref_count[d] # 1
    BY <1>2, <2>2 DEF Close
  <2> QED BY <2>1, <2>2
<1>10. /\ ~Taken(t)' /\ ~Gone(t)' /\ ~Consoling(t)' /\ ~Shelling(t)' /\ ~At(t, "console")'
       /\ Owns(t)' \subseteq {d}
  <2>1. CASE pc'[t].at = "ready"
    BY <2>1, OutCalled
  <2>2. CASE pc'[t].at = "close" /\ pc'[t].obj = d /\ pc'[t].then = "ready"
    BY <2>2 DEF Taken, Gone, Consoling, Shelling, At, Owns
  <2> QED BY <1>9, <2>1, <2>2
<1>11. \A e \in Devs : HasAsBefore(e)
  BY <1>1, <1>2, <1>9, <1>10, ShellBeside DEF HasAsBefore, ConsoleHas, shell
<1>12. CallStep(t, {d})
  BY <1>1, <1>2, <1>4, <1>5, <1>9, <1>10 DEF CallStep, shell, At
<1>13. Called(t)'
  <2>1. CASE pc'[t].at = "ready"
    BY <2>1, OutCalled
  <2>2. CASE /\ pc'[t].at = "close" /\ pc'[t].obj = d /\ pc'[t].then = "ready"
             /\ ref_count'[d] = 0
    <3>1. Callers(t)'
      BY <1>10 DEF Callers
    <3>2. Holds(t)'
      BY <1>8, <1>10, <1>12, CallStepIs DEF Holds
    <3>3. Closing(t)' = d
      BY <2>2 DEF Closing
    <3>4. Progress(t)'
      BY <1>10, <2>2, <3>3 DEF Progress, At
    <3> QED BY <3>1, <3>2, <3>4 DEF Called
  <2> QED BY <1>9, <2>1, <2>2
<1>14. Counted(d)'
  <2>1. HasAsBefore(d) /\ (d \in robbed' <=> d \in robbed)
    BY <1>1, <1>11 DEF shell
  <2>2. Held(d) - 1 = Held(d)' /\ Held(d) \in Nat /\ Held(d)' \in Nat
    <3>1. \A b : One(b) \in Nat
      BY DEF One
    <3>2. /\ Held(d) = Total(opens, d) + One(ShellHas(d)) + One(ConsoleHas(d))
          /\ Held(d)' = Total(opens, d)' + One(ShellHas(d)) + One(ConsoleHas(d))
      BY <2>1 DEF Held, HasAsBefore
    <3> QED BY ONLY <1>5, <1>6, <3>1, <3>2
  <2>3. /\ ref_count[d] <= Held(d)
        /\ d \notin robbed => ref_count[d] = Held(d)
    BY <1>3 DEF Counted
  <2>4. /\ ref_count'[d] <= Held(d)'
        /\ ref_count[d] = Held(d) => ref_count'[d] = Held(d)'
    BY ONLY <1>6, <1>7, <2>2, <2>3
  <2> QED BY <2>1, <2>3, <2>4 DEF Counted
<1>15. Flagged(d)'
  <2>1. ASSUME NEW u \in Threads, At(u, "count"), pc[u].obj = d
        PROVE  At(u, "count")' /\ pc'[u].obj = d
    BY <1>2, <1>9, <2>1 DEF At
  <2>2. /\ ref_count'[d] > 0 => ref_count[d] > 0
        /\ d \in Standalone => ref_count'[d] <= 1
    BY <1>3, <1>6, <1>7 DEF Flagged
  <2> QED BY <1>1, <1>3, <2>1, <2>2 DEF Flagged
<1>16. UNCHANGED <<input, console, rx_indicate, rx_sem, bytes, opened, robbed>>
  BY <1>1 DEF shell
<1> QED BY <1>2, <1>8, <1>9, <1>11, <1>12, <1>13, <1>14, <1>15, <1>16, OneDevice

\* The driver of a device that nobody has open is closed, or fails to.
LEMMA CloseDriverKeeps ==
    ASSUME ObjectsAssumption, DevInv, ObjInv', NEW t \in Threads, CloseDriver(t)
    PROVE  DevInv'
<1>0. PICK d \in Devs : d = Closing(t)
  BY ClosingIs DEF CloseDriver
<1>1. /\ At(t, "close") /\ pc[t].at = "close" /\ d \in Owns(t) /\ ref_count[d] = 0
      /\ pc[t].then \in {"ready", "quiet", "reopen"} /\ d \in Objs
  BY <1>0, ClosingIs DEF CloseDriver, Devs
<1>2. /\ \/ /\ running' = running \ {d}
            /\ open_flag' = [open_flag EXCEPT ![d] = {}]
         \/ UNCHANGED <<running, open_flag>>
      /\ Goto(t, pc[t].then, pc[t].obj, "ready")
      /\ UNCHANGED <<app, containers, activated, ref_count, opens, shell>>
  BY <1>0 DEF CloseDriver, Return
<1>3. /\ pc'[t].at = pc[t].then
      /\ pc[t].then # "ready" => pc'[t].obj = pc[t].obj
      /\ pc[t].then = "ready" => pc'[t].obj = Nobody
      /\ \A u \in Threads \ {t} : pc'[u] = pc[u]
  BY <1>2, Goes
<1>4. CountTypes'
  BY <1>1, <1>2 DEF DevInv, CountTypes, shell
<1>5. /\ Taken(t)' <=> Taken(t)
      /\ Gone(t)' <=> Gone(t)
      /\ Taken(t) => pc'[t].obj = pc[t].obj
      /\ Shelling(t)' <=> Shelling(t)
      /\ Consoling(t)' <=> Consoling(t)
      /\ ~At(t, "console") /\ ~At(t, "console")'
  BY <1>1, <1>3 DEF Taken, Gone, Consoling, Shelling, At
<1>6. \A e \in Devs : HasAsBefore(e)
  BY <1>2, <1>3, <1>5, ShellBeside DEF HasAsBefore, ConsoleHas, shell
<1>7. \A e \in Owns(t)' : e \in Owns(t)
  BY <1>1, <1>2, <1>3, <1>5 DEF Owns, shell, Viewing, ObjectsAssumption, Devs
<1>8. CallStep(t, {d})
  <2>1. \A e \in Devs \ {d} : /\ open_flag'[e] = open_flag[e]
                              /\ e \in running' <=> e \in running
    BY <1>2 DEF DevInv, CountTypes, Devs
  <2> QED BY <1>1, <1>2, <1>3, <1>4, <1>7, <2>1 DEF CallStep, shell, At
<1>9. Callers(t) /\ Holds(t) /\ Progress(t) /\ Flagged(d) /\ Kept(d)
  BY <1>1 DEF DevInv, Called, Holds, Device, Working
<1>10. Called(t)'
  <2>1. CASE pc[t].then = "ready"
    BY <1>3, <2>1, OutCalled
  <2>2. CASE pc[t].then # "ready"
    <3>1. Callers(t)'
      BY <1>2, <1>3, <1>5, <1>9, <2>2 DEF Callers
    <3>2. Holds(t)'
      <4>1. \A e \in Owns(t) : Kept(e)'
        BY <1>1, <1>8, <1>9, CallStepIs DEF Holds, Working, Owns
      <4> QED BY <1>7, <4>1 DEF Holds
    <3>3. Progress(t)'
      BY <1>1, <1>2, <1>3, <1>5, <1>9, <2>2 DEF Progress, At, shell
    <3> QED BY <3>1, <3>2, <3>3 DEF Called
  <2> QED BY <2>1, <2>2
<1>11. Flagged(d)'
  BY <1>1, <1>2 DEF Flagged
<1>12. Counted(d)'
  BY <1>1, <1>2, <1>6, CountStays DEF shell
<1>13. /\ UNCHANGED <<input, console, rx_indicate, rx_sem, bytes, opened, robbed>>
       /\ Consoling(t)' \/ (~Consoling(t) /\ UNCHANGED opened)
  BY <1>2, <1>5 DEF shell
<1> QED BY <1>1, <1>3, <1>6, <1>8, <1>9, <1>10, <1>11, <1>12, <1>13, OneDevice

\* The flags of the console that rt_kprintf saves have RT_DEVICE_OFLAG_OPEN.
LEMMA KprintfKeeps ==
    ASSUME ObjectsAssumption, DevInv, ObjInv', NEW t \in Threads, Kprintf(t)
    PROVE  DevInv'
<1>0. PICK d \in Devs : d = console
  BY DEF Kprintf, DevInv, ObjInv, TypeInv, DataOK
<1>1. /\ At(t, "ready") /\ Exclusive(t, d) /\ d \in Objs
      /\ old_flag' = [old_flag EXCEPT ![t] = open_flag[d]]
      /\ open_flag' = [open_flag EXCEPT ![d] = @ \cup {"STREAM"}]
      /\ Goto(t, "write", d, "ready")
      /\ UNCHANGED <<app, containers, activated, ref_count, opens, running, rx_indicate, bytes,
                     console, opened, robbed, input, rx_sem>>
  BY <1>0 DEF Kprintf, Devs
<1>2. /\ Owns(t) = {} /\ ~Taken(t) /\ ~Gone(t) /\ ~Consoling(t) /\ ~Shelling(t)
      /\ ~At(t, "console") /\ pc[t].at = "ready"
  BY <1>1, BeginsWith
<1>3. /\ pc'[t].at = "write" /\ pc'[t].obj = d /\ pc'[t].then = "ready"
      /\ \A u \in Threads \ {t} : pc'[u] = pc[u]
  BY <1>1, Goes
<1>4. CountTypes' /\ DOMAIN open_flag = Objs /\ DOMAIN old_flag = Threads
  BY <1>1 DEF DevInv, CountTypes
<1>5. /\ ~Taken(t)' /\ ~Gone(t)' /\ ~Consoling(t)' /\ ~Shelling(t)' /\ ~At(t, "console")'
      /\ Owns(t)' \subseteq {d}
  BY <1>3 DEF Taken, Gone, Consoling, Shelling, At, Owns
<1>6. \A e \in Devs : HasAsBefore(e)
  BY <1>1, <1>2, <1>3, <1>5, ShellBeside DEF HasAsBefore, ConsoleHas
<1>7. Kept(d) /\ Flagged(d) /\ d \in Devs
  BY <1>0, InUseIsKept DEF DevInv, Device
<1>8. CallStep(t, {d})
  <2>1. \A e \in Devs \ {d} : open_flag'[e] = open_flag[e]
    BY <1>1, <1>4 DEF Devs
  <2>2. \A u \in Threads \ {t} : old_flag'[u] = old_flag[u]
    BY <1>1, <1>4
  <2> QED BY <1>1, <1>2, <1>3, <1>4, <1>5, <2>1, <2>2 DEF CallStep, At
<1>9. ref_count[d] > 0 => "OPEN" \in open_flag[d]
  <2>1. \A u \in Threads : ~(At(u, "count") /\ pc[u].obj = d)
    BY <1>1, <1>2 DEF Exclusive, Away, At
  <2> QED BY <1>7, <2>1 DEF Flagged
<1>10. Called(t)'
  <2>1. Callers(t)'
    BY <1>5 DEF Callers
  <2>2. Holds(t)'
    BY <1>5, <1>7, <1>8, CallStepIs DEF Holds
  <2>3. old_flag'[t] = open_flag[d]
    BY <1>1, <1>4
  <2>4. Progress(t)'
    BY <1>0, <1>1, <1>3, <1>5, <1>9, <2>3 DEF Progress, At
  <2> QED BY <2>1, <2>2, <2>4 DEF Called
<1>11. Flagged(d)'
  <2>1. ref_count[d] > 0 => "OPEN" \in open_flag'[d]
    BY <1>1, <1>4, <1>9
  <2> QED BY <1>1, <1>7, <2>1 DEF Flagged
<1>12. Counted(d)'
  BY <1>1, <1>6, CountStays
<1> QED BY <1>1, <1>2, <1>3, <1>6, <1>7, <1>8, <1>10, <1>11, <1>12, OneDevice

LEMMA KprintfEndKeeps ==
    ASSUME ObjectsAssumption, DevInv, ObjInv', NEW t \in Threads, KprintfEnd(t)
    PROVE  DevInv'
<1>0. PICK d \in Devs : d = pc[t].obj
  BY Placed DEF KprintfEnd, At, Place, Viewing
<1>1. /\ pc[t].at = "write" /\ At(t, "write") /\ d \in Owns(t) /\ d \in Objs
  BY <1>0 DEF KprintfEnd, At, Owns, Viewing, Devs
<1>2. /\ Holds(t) /\ Progress(t) /\ Kept(d) /\ Flagged(d)
  BY <1>1 DEF DevInv, Called, Holds, Working, Device
<1>3. console = d /\ (ref_count[d] > 0 => "OPEN" \in old_flag[t])
  BY <1>0, <1>1, <1>2 DEF Progress
<1>4. /\ open_flag' = [open_flag EXCEPT ![d] = old_flag[t]]
      /\ old_flag' = [old_flag EXCEPT ![t] = {}]
      /\ Goto(t, "ready", Nobody, "ready")
      /\ UNCHANGED <<app, containers, activated, ref_count, opens, running, rx_indicate, bytes,
                     console, opened, robbed, input, rx_sem>>
  BY <1>3 DEF KprintfEnd, Ready
<1>5. pc'[t].at = "ready" /\ \A u \in Threads \ {t} : pc'[u] = pc[u]
  BY <1>4, Goes
<1>6. CountTypes' /\ DOMAIN open_flag = Objs /\ DOMAIN old_flag = Threads
  BY <1>4 DEF DevInv, CountTypes
<1>7. /\ Called(t)' /\ Owns(t)' = {} /\ ~Taken(t)' /\ ~Gone(t)' /\ ~Consoling(t)'
      /\ ~At(t, "console")'
  BY <1>5, OutCalled
<1>8. /\ ~Taken(t) /\ ~Gone(t) /\ ~Consoling(t) /\ ~At(t, "console")
  BY <1>1 DEF Taken, Gone, Consoling, At
<1>9. \A e \in Devs : HasAsBefore(e)
  BY <1>4, <1>5, <1>7, <1>8, ShellBeside DEF HasAsBefore, ConsoleHas
<1>10. CallStep(t, {d})
  <2>1. \A e \in Devs \ {d} : open_flag'[e] = open_flag[e]
    BY <1>4, <1>6 DEF Devs
  <2>2. \A u \in Threads \ {t} : old_flag'[u] = old_flag[u]
    BY <1>4, <1>6
  <2> QED BY <1>1, <1>4, <1>5, <1>6, <1>7, <2>1, <2>2 DEF CallStep, At
<1>11. Flagged(d)'
  <2>1. ref_count[d] > 0 => "OPEN" \in open_flag'[d]
    BY <1>1, <1>3, <1>4, <1>6
  <2> QED BY <1>2, <1>4, <2>1 DEF Flagged
<1>12. Counted(d)'
  BY <1>4, <1>9, CountStays
<1> QED BY <1>1, <1>2, <1>4, <1>5, <1>7, <1>8, <1>9, <1>10, <1>11, <1>12, OneDevice

-----------------------------------------------------------------------------
(* Steps of the console and of the shell.                                  *)

\* The shell or the console gives a device up.
LEMMA GivenUp ==
    ASSUME DevInv, CountTypes', NEW d \in Devs, UNCHANGED opens,
           d \in robbed' <=> d \in robbed,
           ref_count' = [ref_count EXCEPT ![d] = IF @ > 0 THEN @ - 1 ELSE @],
           One(ShellHas(d)) + One(ConsoleHas(d)) = One(ShellHas(d)') + One(ConsoleHas(d)') + 1
    PROVE  Counted(d)'
<1>1. /\ ref_count \in [Objs -> Nat] /\ d \in Objs /\ Counted(d)
      /\ IsFiniteSet(Threads) /\ opens \in [Threads -> [Objs -> Nat]]
  BY DEF DevInv, CountTypes, Device, Devs, Disciplined
<1>2. Total(opens, d) \in Nat /\ Total(opens, d)' = Total(opens, d)
  BY <1>1, TotalIs
<1>3. \A b : One(b) \in Nat
  BY DEF One
<1>4. Held(d) - 1 = Held(d)' /\ Held(d) \in Nat /\ Held(d)' \in Nat
  <2>1. /\ Held(d) = Total(opens, d) + One(ShellHas(d)) + One(ConsoleHas(d))
        /\ Held(d)' = Total(opens, d) + One(ShellHas(d)') + One(ConsoleHas(d)')
    BY <1>2 DEF Held
  <2> QED BY ONLY One(ShellHas(d)) + One(ConsoleHas(d))
                      = One(ShellHas(d)') + One(ConsoleHas(d)') + 1,
                  <1>2, <1>3, <2>1
<1>5. /\ ref_count[d] \in Nat
      /\ ref_count[d] > 0 => ref_count'[d] = ref_count[d] - 1
      /\ ref_count[d] = 0 => ref_count'[d] = 0
  BY <1>1
<1>6. /\ ref_count[d] <= Held(d)
      /\ d \notin robbed => ref_count[d] = Held(d)
  BY <1>1 DEF Counted
<1>7. /\ ref_count'[d] <= Held(d)'
      /\ ref_count[d] = Held(d) => ref_count'[d] = Held(d)'
  BY ONLY <1>4, <1>5, <1>6
<1> QED BY <1>6, <1>7 DEF Counted

\* What rt_device_close does to the counts.
LEMMA Uncounted ==
    ASSUME DevInv, NEW d \in Devs,
           ref_count' = [ref_count EXCEPT ![d] = IF @ > 0 THEN @ - 1 ELSE @]
    PROVE  /\ ref_count[d] \in Nat /\ ref_count'[d] \in Nat
           /\ ref_count[d] > 0 => ref_count'[d] = ref_count[d] - 1
           /\ ref_count[d] = 0 => ref_count'[d] = 0
           /\ \A e \in Devs \ {d} : ref_count'[e] = ref_count[e]
<1>1. ref_count \in [Objs -> Nat] /\ d \in Objs
  BY DEF DevInv, CountTypes, Devs
<1> QED BY <1>1 DEF Devs

\* The old console is given up, the new one found.
LEMMA SetConsoleKeeps ==
    ASSUME ObjectsAssumption, DevInv, ObjInv', NEW t \in Threads, NEW d \in Devs,
           SetConsole(t, d)
    PROVE  DevInv'
<1>1. /\ At(t, "ready") /\ Exclusive(t, d) /\ d \in app.consoles[t] /\ Findable(d)
      /\ UNCHANGED <<app, containers, opens, activated, open_flag, running, rx_indicate,
                     bytes, console, old_flag, input, rx_sem>>
  BY DEF SetConsole, devices, shell
<1>2. /\ Owns(t) = {} /\ ~Taken(t) /\ ~Gone(t) /\ ~Consoling(t) /\ ~Shelling(t)
      /\ ~At(t, "console") /\ pc[t].at = "ready" /\ Kept(d)
  BY <1>1, BeginsWith
<1>3. /\ \A u \in Threads \ {t} : pc'[u] = pc[u]
      /\ pc'[t].obj = d
      /\ \/ pc'[t].at = "reopen" /\ pc'[t].then = "ready"
         \/ pc'[t].at = "close" /\ pc'[t].then = "reopen" /\ console # Nobody
                                /\ ref_count[console] = 1
  <2>1. \/ Goto(t, "reopen", d, "ready")
        \/ Goto(t, "close", d, "reopen") /\ console # Nobody /\ ref_count[console] = 1
    BY DEF SetConsole
  <2> QED BY <2>1, Goes
<1>4. /\ ~Taken(t)' /\ ~Gone(t)' /\ Consoling(t)' /\ ~Shelling(t)' /\ ~At(t, "console")'
      /\ \A e \in Owns(t)' : e = d \/ e = console
  <2>1. /\ ~Taken(t)' /\ ~Gone(t)' /\ Consoling(t)' /\ ~Shelling(t)' /\ ~At(t, "console")'
    BY <1>3 DEF Taken, Gone, Consoling, Shelling, At
  <2> QED BY <1>1, <1>3, <2>1 DEF Owns
<1>5. \A e \in Owns(t)' : Exclusive(t, e) /\ Kept(e)
  <2> SUFFICES ASSUME NEW e \in Owns(t)', e # d PROVE Exclusive(t, e) /\ Kept(e)
    BY <1>1, <1>2
  <2>1. e = console /\ e \in Devs
    BY <1>4 DEF Owns
  <2>2. console # Nobody
    BY <2>1 DEF Devs, ObjectsAssumption
  <2> QED BY <2>1, <2>2, InUseIsKept DEF SetConsole
<1>6. /\ opened \in {Nobody, console} /\ opened' = Nobody /\ app.consoles[t] # {}
      /\ \A e \in Devs : ShellHas(e)' = ShellHas(e)
  <2>1. app.consoles[t] # {}
    BY <1>1
  <2>2. opened \in {Nobody, console}
    BY <1>2, <2>1, ConsoleOf
  <2>3. opened' = Nobody
    BY <2>2 DEF SetConsole, shell
  <2>4. \A e \in Devs : ShellHas(e)' = ShellHas(e)
    BY <1>1, <1>2, <1>3, <1>4, ShellBeside
  <2> QED BY <2>1, <2>2, <2>3, <2>4
<1>7. \A e \in Devs : e # console => HasAsBefore(e)
  <2> SUFFICES ASSUME NEW e \in Devs, e # console PROVE ConsoleHas(e)' = ConsoleHas(e)
    BY <1>6 DEF HasAsBefore
  <2> QED BY <1>6 DEF ConsoleHas, Devs, ObjectsAssumption
<1>8. \A e \in Devs : Kept(e) => Kept(e)'
  BY <1>1, <1>3, KeptStays
<1>9. Callers(t)' /\ Holds(t)'
  <2>1. Callers(t)'
    BY <1>1, <1>3, <1>4 DEF Callers
  <2>2. \A e \in Owns(t)' : e \in Devs
    BY DEF Owns
  <2> QED BY <1>5, <1>8, <2>1, <2>2 DEF Holds
<1>10. CASE console = Nobody
  <2>1. /\ UNCHANGED <<ref_count, opened, robbed>> /\ pc'[t].at = "reopen"
        /\ UNCHANGED shell
    BY <1>3, <1>10 DEF SetConsole, devices, shell
  <2>2. Progress(t)'
    BY <1>4, <1>6, <2>1 DEF Progress, At
  <2>3. Called(t)'
    BY <1>9, <2>2 DEF Called
  <2>4. \A e \in Devs : HasAsBefore(e)
    BY <1>7, <1>10 DEF Devs, ObjectsAssumption
  <2>5. \A e \in {d} \cup Owns(t)' : Exclusive(t, e)
    BY <1>1, <1>5
  <2>6. activated' \in {activated, activated \cup {d}}
    BY <1>1
  <2> QED BY <1>1, <1>2, <1>3, <2>1, <2>3, <2>4, <2>5, <2>6, BeginsOrEnds
<1>11. CASE console # Nobody
  <2>0. PICK o \in Devs : o = console
    BY <1>11 DEF DevInv, ObjInv, TypeInv, DataOK
  <2>1. /\ ref_count' = [ref_count EXCEPT ![o] = IF @ > 0 THEN @ - 1 ELSE @]
        /\ robbed' = IF opened # o /\ ref_count[o] > 0 THEN robbed \cup {o} ELSE robbed
        /\ Exclusive(t, o) /\ o \in Objs
    BY <1>11, <2>0 DEF SetConsole, Devs
  <2>2. CountTypes' /\ ref_count \in [Objs -> Nat]
    BY <1>1, <2>1 DEF DevInv, CountTypes
  <2>3. /\ ref_count[o] \in Nat /\ ref_count'[o] \in Nat
        /\ ref_count[o] > 0 => ref_count'[o] = ref_count[o] - 1
        /\ ref_count[o] = 0 => ref_count'[o] = 0
        /\ \A e \in Devs \ {o} : ref_count'[e] = ref_count[e]
    BY <2>1, Uncounted
  <2>4. Counted(o)'
    <3>1. CASE opened = o
      <4>1. ConsoleHas(o) /\ ~ConsoleHas(o)' /\ ShellHas(o)' = ShellHas(o)
        BY <1>6, <3>1 DEF ConsoleHas, Devs, ObjectsAssumption
      <4>2. One(ShellHas(o)) + One(ConsoleHas(o)) = One(ShellHas(o)') + One(ConsoleHas(o)') + 1
        BY <4>1 DEF One
      <4>3. o \in robbed' <=> o \in robbed
        BY <2>1, <3>1
      <4> QED BY <1>1, <2>1, <2>2, <4>2, <4>3, GivenUp
    <3>2. CASE opened # o
      <4>1. ConsoleHas(o)' = ConsoleHas(o) /\ ShellHas(o)' = ShellHas(o)
        BY <1>6, <3>2 DEF ConsoleHas, Devs, ObjectsAssumption
      <4>2. Total(opens, o)' = Total(opens, o) /\ Total(opens, o) \in Nat
        BY <1>1, <2>1, TotalIs DEF DevInv, CountTypes, Disciplined
      <4>3. Held(o)' = Held(o) /\ Held(o) \in Nat
        BY <4>1, <4>2 DEF Held, One
      <4>4. /\ ref_count[o] <= Held(o)
            /\ o \notin robbed => ref_count[o] = Held(o)
        BY DEF DevInv, Device, Counted
      <4>5. ref_count'[o] <= Held(o)
        BY ONLY <2>3, <4>3, <4>4
      <4>6. o \notin robbed' => o \notin robbed /\ ref_count'[o] = ref_count[o]
        BY <2>1, <2>3, <3>2
      <4> QED BY <4>3, <4>4, <4>5, <4>6 DEF Counted
    <3> QED BY <3>1, <3>2
  <2>5. CallStep(t, {o})
    <3>1. \A e \in Devs \ {o} : e \in robbed' <=> e \in robbed
      BY <2>1
    <3> QED BY <1>1, <1>2, <1>3, <1>5, <1>6, <2>1, <2>2, <2>3, <3>1 DEF CallStep, At
  <2>6. Progress(t)'
    <3>1. CASE pc'[t].at = "reopen"
      BY <1>4, <1>6, <3>1 DEF Progress, At
    <3>2. CASE /\ pc'[t].at = "close" /\ pc'[t].then = "reopen" /\ ref_count[o] = 1
      <4>1. Closing(t)' = o
        BY <1>1, <2>0, <3>2 DEF Closing
      <4> QED BY <1>4, <1>6, <2>3, <3>2, <4>1 DEF Progress, At
    <3> QED BY <1>3, <2>0, <3>1, <3>2
  <2>7. Called(t)'
    BY <1>9, <2>6 DEF Called
  <2>8. Flagged(o)'
    <3>1. ASSUME NEW u \in Threads, At(u, "count"), pc[u].obj = o
          PROVE  At(u, "count")' /\ pc'[u].obj = o
      BY <1>2, <1>3, <3>1 DEF At
    <3>2. /\ Flagged(o) /\ (ref_count'[o] > 0 => ref_count[o] > 0)
          /\ o \in Standalone => ref_count'[o] <= 1
      BY <2>3 DEF DevInv, Device, Flagged
    <3> QED BY <1>1, <3>1, <3>2 DEF Flagged
  <2>9. Kept(o)
    BY <2>0, InUseIsKept
  <2>10. \A e \in Devs \ {o} : HasAsBefore(e)
    BY <1>7, <2>0
  <2>11. UNCHANGED <<input, console, rx_indicate, rx_sem, bytes>>
    BY <1>1
  <2>12. input \notin robbed' => input \notin robbed
    BY <2>1
  <2> QED BY <1>2, <1>3, <1>4, <2>4, <2>5, <2>7, <2>8, <2>9, <2>10, <2>11, <2>12, OneDevice
<1> QED BY <1>10, <1>11

\* The old input is given up, with the new one open already.
LEMMA CloseOldKeeps ==
    ASSUME ObjectsAssumption, DevInv, ObjInv', NEW t \in Threads, CloseOld(t)
    PROVE  DevInv'
<1>0. PICK d \in Devs : d = pc[t].obj
  BY Placed DEF CloseOld, At, Place, Viewing
<1>1. /\ At(t, "swap") /\ pc[t].at = "swap" /\ d \in Owns(t)
      /\ UNCHANGED <<app, containers, opens, activated, open_flag, running, shell>>
  BY <1>0 DEF CloseOld, Uncount, At, Owns, Viewing, devices
<1>2. /\ Taken(t) /\ ~Gone(t) /\ ~Consoling(t) /\ Shelling(t) /\ ~At(t, "console")
  BY <1>1 DEF Taken, Gone, Consoling, Shelling, At
<1>3. Callers(t) /\ Holds(t) /\ d # input
  BY <1>0, <1>1, <1>2 DEF DevInv, Called, Progress
<1>4. /\ \A u \in Threads \ {t} : pc'[u] = pc[u]
      /\ pc'[t].obj = d
      /\ \/ pc'[t].at = "take" /\ pc'[t].then = "ready" /\ input = Nobody
         \/ pc'[t].at = "quiet" /\ pc'[t].then = "ready" /\ input # Nobody
         \/ pc'[t].at = "close" /\ pc'[t].then = "quiet" /\ input # Nobody
                                /\ ref_count[input] = 1
  <2>1. \/ Goto(t, "take", d, "ready") /\ input = Nobody
        \/ Goto(t, "quiet", d, "ready") /\ input # Nobody
        \/ Goto(t, "close", d, "quiet") /\ input # Nobody /\ ref_count[input] = 1
    BY <1>0 DEF CloseOld, Uncount
  <2> QED BY <2>1, Goes
<1>5. /\ Taken(t)' /\ Gone(t)' /\ ~Consoling(t)' /\ Shelling(t)' /\ ~At(t, "console")'
  BY <1>4 DEF Taken, Gone, Consoling, Shelling, At
<1>6. \A e \in Owns(t)' : e \in Owns(t)
  BY <1>0, <1>1, <1>2, <1>4, <1>5 DEF Owns, shell, Viewing
<1>7. app.inputs[t] # {}
  BY <1>2, <1>3 DEF Callers
<1>8. /\ \A e : ShellHas(e) <=> e = input \/ e = d
      /\ \A e : ShellHas(e)' <=> e = d
      /\ \A e : ConsoleHas(e)' = ConsoleHas(e)
  <2>1. \A e : ShellHas(e) <=> e = input \/ e = d
    BY <1>0, <1>2, <1>7, ShellOf
  <2>2. \A e : ShellHas(e)' <=> e = d
    BY <1>4, <1>5, <1>7, ShellOfNext
  <2>3. \A e : ConsoleHas(e)' = ConsoleHas(e)
    BY <1>1 DEF ConsoleHas, shell
  <2> QED BY <2>1, <2>2, <2>3
<1>9. \A e \in Devs : e # input => HasAsBefore(e)
  <2> SUFFICES ASSUME NEW e \in Devs, e # input PROVE ShellHas(e)' = ShellHas(e)
    BY <1>8 DEF HasAsBefore
  <2> QED BY <1>8 DEF ShellHas
<1>10. \A e \in Owns(t) : Kept(e)
  BY <1>1, <1>3 DEF Holds, Working
<1>11. Callers(t)'
  BY <1>1, <1>5, <1>7 DEF Callers
<1>12. CASE input = Nobody
  <2>1. UNCHANGED <<ref_count, old_flag, input, console, opened, robbed>> /\ pc'[t].at = "take"
    BY <1>1, <1>4, <1>12 DEF CloseOld, devices, shell
  <2>2. CountTypes'
    BY <1>1, <2>1 DEF DevInv, CountTypes, shell
  <2>3. CallStep(t, {})
    BY <1>1, <1>4, <1>6, <2>1, <2>2 DEF CallStep, At
  <2>4. Within(t, {}) /\ {} \in SUBSET Devs /\ \A e \in Devs : Kept(e) => Kept(e)'
    BY <2>3, CallStepIs
  <2>5. Holds(t)'
    BY <1>6, <1>10, <2>4 DEF Holds, Owns
  <2>6. Progress(t)'
    BY <1>3, <1>4, <1>5, <2>1 DEF Progress, At
  <2>7. Called(t)'
    BY <1>11, <2>5, <2>6 DEF Called
  <2>8. InputOK'
    <3>1. \A u \in Threads : At(u, "wait")' => At(u, "wait")
      BY <1>4, <2>1 DEF At
    <3> QED BY <1>12, <2>1, <3>1 DEF InputOK, DevInv
  <2>9. \A e \in Devs : HasAsBefore(e)
    BY <1>9, <1>12 DEF Devs, ObjectsAssumption
  <2>10. ConsoleOK'
    BY <1>2, <1>4, <2>1, ConsoleBeside
  <2> QED BY <2>1, <2>4, <2>7, <2>8, <2>9, <2>10, StepKeeps
<1>13. CASE input # Nobody
  <2>0. PICK o \in Devs : o = input
    BY <1>13 DEF DevInv, ObjInv, TypeInv, DataOK
  <2>1. /\ ref_count' = [ref_count EXCEPT ![o] = IF @ > 0 THEN @ - 1 ELSE @]
        /\ o \in Owns(t) /\ o \in Objs
    BY <1>2, <1>13, <2>0 DEF CloseOld, Uncount, Devs, Owns
  <2>2. CountTypes' /\ ref_count \in [Objs -> Nat]
    BY <1>1, <2>1 DEF DevInv, CountTypes, shell
  <2>3. /\ ref_count[o] \in Nat /\ ref_count'[o] \in Nat
        /\ ref_count[o] > 0 => ref_count'[o] = ref_count[o] - 1
        /\ ref_count[o] = 0 => ref_count'[o] = 0
        /\ \A e \in Devs \ {o} : ref_count'[e] = ref_count[e]
    BY <2>1, Uncounted
  <2>12. Counted(o)'
    <3>1. ShellHas(o) /\ ~ShellHas(o)' /\ ConsoleHas(o)' = ConsoleHas(o)
      BY <1>3, <1>8, <2>0
    <3>2. One(ShellHas(o)) + One(ConsoleHas(o)) = One(ShellHas(o)') + One(ConsoleHas(o)') + 1
      BY <3>1 DEF One
    <3> QED BY <1>1, <2>1, <2>2, <3>2, GivenUp DEF shell
  <2>4. CallStep(t, {o})
    BY <1>1, <1>4, <1>6, <2>1, <2>2, <2>3 DEF CallStep, shell, At
  <2>5. Progress(t)'
    <3>1. CASE pc'[t].at = "quiet"
      BY <1>1, <1>3, <1>4, <1>5, <3>1 DEF Progress, At, shell
    <3>2. CASE /\ pc'[t].at = "close" /\ pc'[t].then = "quiet" /\ ref_count[o] = 1
      <4>1. Closing(t)' = o
        BY <1>1, <2>0, <3>2 DEF Closing, shell
      <4> QED BY <1>1, <1>3, <1>4, <1>5, <2>3, <3>2, <4>1 DEF Progress, At, shell
    <3> QED BY <1>4, <1>13, <2>0, <3>1, <3>2
  <2>6. Holds(t)'
    BY <1>6, <1>10, <2>4, CallStepIs DEF Holds, Owns
  <2>7. Called(t)'
    BY <1>11, <2>5, <2>6 DEF Called
  <2>8. Flagged(o)'
    <3>1. ASSUME NEW u \in Threads, At(u, "count"), pc[u].obj = o
          PROVE  At(u, "count")' /\ pc'[u].obj = o
      BY <1>1, <1>4, <3>1 DEF At
    <3>2. /\ Flagged(o) /\ (ref_count'[o] > 0 => ref_count[o] > 0)
          /\ o \in Standalone => ref_count'[o] <= 1
      BY <2>3 DEF DevInv, Device, Flagged
    <3> QED BY <1>1, <3>1, <3>2 DEF Flagged
  <2>9. Kept(o)
    BY <2>0, InUseIsKept
  <2>10. \A e \in Devs \ {o} : HasAsBefore(e)
    BY <1>9, <2>0
  <2>11. UNCHANGED <<input, console, rx_indicate, rx_sem, bytes, opened, robbed>>
    BY <1>1 DEF shell
  <2>13. /\ pc[t].at \notin {"take", "indicate"}
         /\ pc'[t].at \notin {"take", "indicate", "wait"}
    BY <1>1, <1>4, <1>13
  <2> QED BY <1>2, <2>4, <2>7, <2>8, <2>9, <2>10, <2>11, <2>12, <2>13, OneDevice
<1> QED BY <1>12, <1>13

\* A step that is about no device: what the shell and the console have may change.
LEMMA NoDevice ==
    ASSUME DevInv, ObjInv', NEW t \in Threads,
           UNCHANGED <<app, containers, devices, opened, robbed, old_flag>>,
           bytes' \in [Objs -> Nat], rx_sem' \in Nat,
           \A u \in Threads \ {t} : pc'[u] = pc[u],
           pc[t].at # "count", pc'[t].at \notin {"insert", "fields"},
           \A d \in Owns(t)' : d \in Owns(t),
           input' = input \/ (Shelling(t) /\ (input' \in Devs => Kept(input'))),
           console' = console \/ (Consoling(t) /\ (console' \in Devs => Kept(console'))),
           Called(t)', \A d \in Devs : HasAsBefore(d), ConsoleOK', InputOK'
    PROVE  DevInv'
<1>1. CountTypes'
  BY DEF DevInv, CountTypes, devices
<1>2. CallStep(t, {})
  BY <1>1 DEF CallStep, devices, At
<1>3. Within(t, {}) /\ {} \in SUBSET Devs
  BY <1>2, CallStepIs
<1>4. /\ \A d \in Devs : input' = d => input' = input \/ Kept(d)
      /\ \A d \in Devs : console' = d => console' = console \/ Kept(d)
  OBVIOUS
<1> QED BY <1>3, <1>4, StepKeeps

\* Who waits for input is the shell.
LEMMA ShellWaits ==
    ASSUME DevInv, NEW t \in Threads, app.inputs[t] # {}, NEW u \in Threads \ {t}
    PROVE  ~At(u, "wait") /\ pc[u].at \notin {"take", "indicate"}
<1>1. app.inputs[u] = {}
  BY DEF DevInv, Disciplined
<1>2. ~At(u, "wait")
  BY <1>1 DEF DevInv, InputOK
<1>3. ~Shelling(u)
  BY <1>1 DEF DevInv, Called, Callers
<1> QED BY <1>2, <1>3 DEF Shelling

LEMMA NewConsoleKeeps ==
    ASSUME ObjectsAssumption, DevInv, ObjInv', NEW t \in Threads, NewConsole(t)
    PROVE  DevInv'
<1>0. PICK d \in Devs : d = pc[t].obj
  BY Placed DEF NewConsole, At, Place, Viewing
<1>1. /\ At(t, "console") /\ pc[t].at = "console" /\ d \in Owns(t) /\ console' = d
      /\ Goto(t, "ready", Nobody, "ready")
      /\ UNCHANGED <<app, containers, devices, rx_indicate, bytes, opened, robbed,
                     old_flag, input, rx_sem>>
  BY <1>0 DEF NewConsole, Ready, At, Owns, Viewing
<1>2. pc'[t].at = "ready" /\ \A u \in Threads \ {t} : pc'[u] = pc[u]
  BY <1>1, Goes
<1>3. /\ Called(t)' /\ Owns(t)' = {} /\ ~Taken(t)' /\ ~Gone(t)' /\ ~Consoling(t)'
      /\ ~At(t, "console")'
  BY <1>2, OutCalled
<1>4. /\ ~Taken(t) /\ ~Gone(t) /\ Consoling(t)
  BY <1>1 DEF Taken, Gone, Consoling
<1>5. Kept(d) /\ app.consoles[t] # {} /\ opened \in {Nobody, d}
  BY <1>0, <1>1, <1>4 DEF DevInv, Called, Callers, Holds, Working, Progress
<1>6. \A e \in Devs : HasAsBefore(e)
  BY <1>1, <1>2, <1>3, <1>4, ShellBeside DEF HasAsBefore, ConsoleHas
<1>9. ConsoleOK'
  BY <1>1, <1>5 DEF ConsoleOK
<1>7. InputOK'
  BY <1>1, <1>2, InputBeside
<1>8. bytes' \in [Objs -> Nat] /\ rx_sem' \in Nat
  BY <1>1 DEF DevInv, CountTypes
<1> QED BY <1>1, <1>2, <1>3, <1>4, <1>5, <1>6, <1>7, <1>8, <1>9, NoDevice

LEMMA QuietKeeps ==
    ASSUME ObjectsAssumption, DevInv, ObjInv', NEW t \in Threads, Quiet(t)
    PROVE  DevInv'
<1>0. PICK d \in Devs : d = pc[t].obj
  BY Placed DEF Quiet, At, Place, Viewing
<1>1. /\ pc[t].at = "quiet" /\ d \in Owns(t) /\ Goto(t, "take", d, "ready")
      /\ UNCHANGED <<app, containers, devices, bytes, console, opened, robbed,
                     old_flag, input, rx_sem>>
  BY <1>0 DEF Quiet, At, Owns, Viewing
<1>2. /\ pc'[t].at = "take" /\ pc'[t].obj = d /\ pc'[t].then = "ready"
      /\ \A u \in Threads \ {t} : pc'[u] = pc[u]
  BY <1>1, Goes
<1>3. /\ Taken(t) /\ Gone(t) /\ Shelling(t) /\ ~Consoling(t) /\ ~At(t, "console")
      /\ Taken(t)' /\ Gone(t)' /\ Shelling(t)' /\ ~Consoling(t)' /\ ~At(t, "console")'
  BY <1>1, <1>2 DEF Taken, Gone, Consoling, Shelling, At
<1>4. \A e \in Devs : HasAsBefore(e)
  BY <1>0, <1>1, <1>2, <1>3, ShellBeside DEF HasAsBefore, ConsoleHas
<1>5. Callers(t) /\ Holds(t) /\ d # input
  BY <1>0, <1>1, <1>3 DEF DevInv, Called, Progress
<1>6. \A e \in Owns(t)' : e \in Owns(t)
  BY <1>0, <1>1, <1>2, <1>3 DEF Owns, Viewing
<1>7. Called(t)'
  <2>1. Callers(t)'
    BY <1>1, <1>3, <1>5 DEF Callers
  <2>2. \A e \in Owns(t) : Kept(e)' /\ e \in Devs
    BY <1>1, <1>2, <1>5, KeptStays DEF Holds, Working, Owns
  <2>3. Progress(t)'
    BY <1>1, <1>2, <1>3, <1>5 DEF Progress, At
  <2> QED BY <1>6, <2>1, <2>2, <2>3 DEF Called, Holds
<1>8. InputOK'
  <2>1. \A u \in Threads : At(u, "wait")' => At(u, "wait")
    BY <1>2 DEF At
  <2> QED BY <1>1, <1>2, <2>1 DEF InputOK, DevInv
<1>9. bytes' \in [Objs -> Nat] /\ rx_sem' \in Nat
  BY <1>1 DEF DevInv, CountTypes
<1>10. ConsoleOK'
  BY <1>1, <1>2, <1>3, ConsoleBeside
<1> QED BY <1>1, <1>2, <1>4, <1>6, <1>7, <1>8, <1>9, <1>10, NoDevice

LEMMA TakeDeviceKeeps ==
    ASSUME ObjectsAssumption, DevInv, ObjInv', NEW t \in Threads, TakeDevice(t)
    PROVE  DevInv'
<1>0. PICK d \in Devs : d = pc[t].obj
  BY Placed DEF TakeDevice, At, Place, Viewing
<1>1. /\ pc[t].at = "take" /\ d \in Owns(t) /\ Goto(t, "indicate", d, "ready") /\ input' = d
      /\ UNCHANGED <<app, containers, devices, rx_indicate, bytes, console, opened,
                     robbed, old_flag, rx_sem>>
  BY <1>0 DEF TakeDevice, At, Owns, Viewing
<1>2. /\ pc'[t].at = "indicate" /\ pc'[t].obj = d /\ pc'[t].then = "ready"
      /\ \A u \in Threads \ {t} : pc'[u] = pc[u]
  BY <1>1, Goes
<1>3. /\ Taken(t) /\ Gone(t) /\ Shelling(t) /\ ~Consoling(t) /\ ~At(t, "console")
      /\ ~Taken(t)' /\ ~Gone(t)' /\ Shelling(t)' /\ ~Consoling(t)' /\ ~At(t, "console")'
  BY <1>1, <1>2 DEF Taken, Gone, Consoling, Shelling, At
<1>4. Callers(t) /\ Holds(t) /\ Kept(d) /\ app.inputs[t] # {}
  BY <1>1, <1>3 DEF DevInv, Called, Callers, Holds, Working
<1>5. \A e \in Devs : HasAsBefore(e)
  <2>1. \A e : ShellHas(e) <=> d = e
    BY <1>0, <1>3, <1>4, ShellOf
  <2>2. \A e : ShellHas(e)' <=> d = e
    BY <1>1, <1>2, <1>3, <1>4, ShellOfNext
  <2>3. \A e : ShellHas(e)' = ShellHas(e)
    BY <2>1, <2>2 DEF ShellHas
  <2>4. \A e : ConsoleHas(e)' = ConsoleHas(e)
    BY <1>1 DEF ConsoleHas
  <2> QED BY <2>3, <2>4 DEF HasAsBefore
<1>6. \A e \in Owns(t)' : e \in Owns(t)
  BY <1>0, <1>1, <1>2, <1>3 DEF Owns, Viewing
<1>7. Called(t)'
  <2>1. Callers(t)'
    BY <1>1, <1>3, <1>4 DEF Callers
  <2>2. \A e \in Owns(t) : Kept(e)' /\ e \in Devs
    BY <1>1, <1>2, <1>4, KeptStays DEF Holds, Working, Owns
  <2>3. Progress(t)'
    BY <1>1, <1>2, <1>3 DEF Progress, At
  <2> QED BY <1>6, <2>1, <2>2, <2>3 DEF Called, Holds
<1>8. InputOK'
  <2>1. \A u \in Threads : ~At(u, "wait")'
    <3> SUFFICES ASSUME NEW u \in Threads PROVE ~At(u, "wait")'
      OBVIOUS
    <3>1. CASE u = t
      BY <1>2, <3>1 DEF At
    <3>2. CASE u # t
      BY <1>2, <1>4, <3>2, ShellWaits DEF At
    <3> QED BY <3>1, <3>2
  <2> QED BY <1>2, <2>1 DEF InputOK
<1>9. bytes' \in [Objs -> Nat] /\ rx_sem' \in Nat
  BY <1>1 DEF DevInv, CountTypes
<1>10. ConsoleOK'
  BY <1>1, <1>2, <1>3, ConsoleBeside
<1> QED BY <1>1, <1>2, <1>3, <1>4, <1>5, <1>6, <1>7, <1>8, <1>9, <1>10, NoDevice

\* Steps of the shell that begin or end outside its calls on devices.
LEMMA ShellEnds ==
    ASSUME ObjectsAssumption, DevInv, ObjInv', NEW t \in Threads,
           pc[t].at \in {"ready", "wait", "indicate"}, pc'[t].at \in {"ready", "wait"},
           \A u \in Threads \ {t} : pc'[u] = pc[u],
           UNCHANGED <<app, containers, devices, console, opened, robbed, old_flag, input>>,
           bytes' \in [Objs -> Nat], rx_sem' \in Nat, InputOK'
    PROVE  DevInv'
<1>1. /\ Called(t)' /\ Owns(t)' = {} /\ ~Taken(t)' /\ ~Gone(t)' /\ ~Consoling(t)'
      /\ ~At(t, "console")'
  BY OutCalled DEF At
<1>2. /\ ~Taken(t) /\ ~Gone(t) /\ ~Consoling(t) /\ ~At(t, "console")
  BY DEF Taken, Gone, Consoling, At
<1>3. \A e \in Devs : HasAsBefore(e)
  BY <1>1, <1>2, ShellBeside DEF HasAsBefore, ConsoleHas
<1>4. ConsoleOK'
  BY <1>2, ConsoleBeside
<1> QED BY <1>1, <1>3, <1>4, NoDevice

LEMMA IndicateKeeps ==
    ASSUME ObjectsAssumption, DevInv, ObjInv', NEW t \in Threads, Indicate(t)
    PROVE  DevInv'
<1>1. /\ pc[t].at = "indicate" /\ Goto(t, "ready", Nobody, "ready")
      /\ rx_indicate' = rx_indicate \cup {pc[t].obj}
      /\ UNCHANGED <<app, containers, devices, bytes, console, opened, robbed,
                     old_flag, input, rx_sem>>
  BY DEF Indicate, Ready, At
<1>2. pc'[t].at = "ready" /\ \A u \in Threads \ {t} : pc'[u] = pc[u]
  BY <1>1, Goes
<1>3. input = pc[t].obj
  BY <1>1 DEF DevInv, Called, Progress, At
<1>4. InputOK'
  <2>1. \A u \in Threads : At(u, "wait")' => At(u, "wait")
    BY <1>2 DEF At
  <2> QED BY <1>1, <1>3, <2>1 DEF InputOK, DevInv
<1>5. bytes' \in [Objs -> Nat] /\ rx_sem' \in Nat
  BY <1>1 DEF DevInv, CountTypes
<1> QED BY <1>1, <1>2, <1>4, <1>5, ShellEnds

LEMMA GetcharKeeps ==
    ASSUME ObjectsAssumption, DevInv, ObjInv', NEW t \in Threads, Getchar(t)
    PROVE  DevInv'
<1>0. PICK d \in Devs : d = input
  BY DEF Getchar, DevInv, ObjInv, TypeInv, DataOK
<1>1. /\ pc[t].at = "ready" /\ app.inputs[t] # {} /\ input # Nobody /\ d \in Objs
      /\ UNCHANGED <<app, containers, devices, rx_indicate, console, opened,
                     robbed, old_flag, input, rx_sem>>
  BY DEF Getchar, At, Devs
<1>2. bytes \in [Objs -> Nat] /\ rx_sem \in Nat /\ rx_sem' \in Nat
  BY <1>1 DEF DevInv, CountTypes
<1>3. \A u \in Threads \ {t} : ~At(u, "wait") /\ pc[u].at \notin {"take", "indicate"}
  BY <1>1, ShellWaits
<1>4. input \in rx_indicate
  BY <1>1, <1>3 DEF DevInv, InputOK
<1>5. CASE bytes[d] > 0 /\ ref_count[d] > 0
  <2>1. bytes' = [bytes EXCEPT ![d] = @ - 1] /\ UNCHANGED pc
    BY <1>0, <1>5 DEF Getchar
  <2>2. bytes' \in [Objs -> Nat]
    BY <1>1, <1>2, <1>5, <2>1
  <2>3. InputOK'
    <3>1. \A u \in Threads : ~At(u, "wait")'
      BY <1>1, <1>3, <2>1 DEF At
    <3> QED BY <1>1, <1>4, <3>1 DEF InputOK
  <2> QED BY <1>1, <1>2, <2>1, <2>2, <2>3, ShellEnds
<1>6. CASE ~(bytes[d] > 0 /\ ref_count[d] > 0)
  <2>1. Goto(t, "wait", Nobody, "ready") /\ UNCHANGED bytes
    BY <1>0, <1>6 DEF Getchar
  <2>2. pc'[t].at = "wait" /\ \A u \in Threads \ {t} : pc'[u] = pc[u]
    BY <2>1, Goes
  <2>3. d \notin robbed => bytes[d] = 0
    <3> SUFFICES ASSUME d \notin robbed PROVE bytes[d] = 0
      OBVIOUS
    <3>1. ShellHas(d)
      <4>1. ~Gone(t)
        BY <1>1 DEF Gone
      <4> QED BY <1>0, <1>1, <4>1, ShellOf
    <3>2. Counted(d)
      BY DEF DevInv, Device
    <3>3. Total(opens, d) \in Nat
      BY <1>1, TotalIs DEF DevInv, CountTypes, Disciplined
    <3>4. ref_count[d] > 0
      BY <3>1, <3>2, <3>3 DEF Counted, Held, One
    <3>5. bytes[d] \in Nat
      BY <1>1, <1>2
    <3> QED BY <1>6, <3>4, <3>5
  <2>4. InputOK'
    <3>1. \A u \in Threads : At(u, "wait")' => u = t
      BY <1>3, <2>2 DEF At
    <3> QED BY <1>0, <1>1, <1>4, <2>1, <2>3, <3>1 DEF InputOK
  <2> QED BY <1>1, <1>2, <2>1, <2>2, <2>4, ShellEnds
<1> QED BY <1>5, <1>6

LEMMA WokenKeeps ==
    ASSUME ObjectsAssumption, DevInv, ObjInv', NEW t \in Threads, Woken(t)
    PROVE  DevInv'
<1>1. /\ At(t, "wait") /\ pc[t].at = "wait" /\ Goto(t, "ready", Nobody, "ready")
      /\ rx_sem > 0 /\ rx_sem' = rx_sem - 1
      /\ UNCHANGED <<app, containers, devices, rx_indicate, bytes, console, opened,
                     robbed, old_flag, input>>
  BY DEF Woken, Ready, At
<1>2. pc'[t].at = "ready" /\ \A u \in Threads \ {t} : pc'[u] = pc[u]
  BY <1>1, Goes
<1>3. app.inputs[t] # {}
  BY <1>1 DEF DevInv, InputOK
<1>4. InputOK'
  <2>1. \A u \in Threads : ~At(u, "wait")'
    BY <1>2, <1>3, ShellWaits DEF At
  <2>2. \A u \in Threads :
          pc'[u].at \in {"take", "indicate"} <=> pc[u].at \in {"take", "indicate"}
    BY <1>1, <1>2
  <2> QED BY <1>1, <2>1, <2>2 DEF InputOK, DevInv
<1>5. bytes' \in [Objs -> Nat] /\ rx_sem' \in Nat
  BY <1>1 DEF DevInv, CountTypes
<1> QED BY <1>1, <1>2, <1>4, <1>5, ShellEnds

\* A step that is about what the shell hears alone.
LEMMA OnlyInput ==
    ASSUME DevInv, ObjInv', CountTypes', InputOK',
           UNCHANGED <<app, containers, pc, devices, console, opened, robbed, old_flag,
                       input>>
    PROVE  DevInv'
<1>1. Disciplined' /\ Apart' /\ ConsoleOK'
  BY DEF DevInv, Disciplined, Apart, Owns, Shelling, Consoling, ConsoleOK
<1>2. \A e \in Devs : Kept(e)' = Kept(e)
  BY DEF Kept, Linked, At, containers
<1>3. \A t \in Threads : Called(t)'
  <2> SUFFICES ASSUME NEW t \in Threads PROVE Called(t)'
    OBVIOUS
  <2>1. Owns(t)' = Owns(t) /\ Closing(t)' = Closing(t) /\ Owns(t) \subseteq Devs
    BY DEF Owns, Shelling, Consoling, Closing
  <2>2. Callers(t) /\ Holds(t) /\ Progress(t)
    BY DEF DevInv, Called
  <2>3. Callers(t)'
    BY <2>2 DEF Callers, Shelling, Consoling
  <2>4. Holds(t)'
    BY <1>2, <2>1, <2>2 DEF Holds
  <2>5. Progress(t)'
    BY <2>1, <2>2 DEF Progress, Shelling, Consoling, At, devices, containers
  <2> QED BY <2>3, <2>4, <2>5 DEF Called
<1>4. \A e \in Devs : Device(e)'
  <2> SUFFICES ASSUME NEW e \in Devs PROVE Device(e)'
    OBVIOUS
  <2>1. Device(e)
    BY DEF DevInv
  <2>2. ShellHas(e)' = ShellHas(e) /\ ConsoleHas(e)' = ConsoleHas(e)
    BY DEF ShellHas, ConsoleHas, Gone, Taken, Consoling, At
  <2>3. Counted(e)'
    BY <2>1, <2>2 DEF Device, Counted, Held, devices
  <2>4. Flagged(e)' /\ (Spare(e)' <=> Spare(e))
    BY <2>1 DEF Device, Flagged, Spare, At, devices
  <2> QED BY <1>2, <2>1, <2>3, <2>4 DEF Device
<1> QED BY <1>1, <1>3, <1>4 DEF DevInv

\* A driver receives: the thread that waits hears of it.
LEMMA ReceiveKeeps ==
    ASSUME ObjectsAssumption, DevInv, ObjInv', NEW d \in Devs, Receive(d)
    PROVE  DevInv'
<1>1. /\ bytes' = [bytes EXCEPT ![d] = @ + 1]
      /\ rx_sem' = IF d \in rx_indicate THEN rx_sem + 1 ELSE rx_sem
      /\ UNCHANGED <<app, containers, pc, devices, rx_indicate, console, opened, robbed,
                     old_flag, input>>
  BY DEF Receive
<1>2. bytes \in [Objs -> Nat] /\ rx_sem \in Nat /\ d \in Objs
  BY DEF DevInv, CountTypes, Devs
<1>3. CountTypes'
  BY <1>1, <1>2 DEF DevInv, CountTypes, devices
<1>4. InputOK'
  <2>1. ASSUME NEW u \in Threads, At(u, "wait"), rx_sem' = 0, input \notin robbed
        PROVE  bytes'[input] = 0
    <3>1. app.inputs[u] # {} /\ input # Nobody /\ (rx_sem = 0 => bytes[input] = 0)
      BY <2>1 DEF DevInv, InputOK
    <3>2. \A v \in Threads : pc[v].at \notin {"take", "indicate"}
      BY <2>1, <3>1, ShellWaits DEF At
    <3>3. input \in rx_indicate /\ input \in Objs
      BY <3>1, <3>2 DEF DevInv, InputOK, ObjInv, TypeInv, DataOK, Devs
    <3>4. d \notin rx_indicate /\ rx_sem = 0
      BY <1>1, <1>2, <2>1
    <3> QED BY <1>1, <1>2, <3>1, <3>3, <3>4
  <2> QED BY <1>1, <2>1 DEF DevInv, InputOK, At
<1> QED BY <1>1, <1>3, <1>4, OnlyInput

-----------------------------------------------------------------------------
(* Devices come and go.                                                    *)

\* A new device: no call is about it.
LEMMA RegisterKeeps ==
    ASSUME ObjectsAssumption, DevInv, ObjInv', NEW t \in Threads, NEW d \in Devs,
           NEW n \in Names, Register(t, d, n)
    PROVE  DevInv'
<1>1. /\ At(t, "ready") /\ pc[t].at = "ready"
      /\ type[d] = "none" /\ Settled(d) /\ d \in Objs
      /\ type' = [type EXCEPT ![d] = Class[d]] /\ name' = [name EXCEPT ![d] = n]
      /\ Goto(t, "insert", d, "fields")
      /\ UNCHANGED <<app, object_list, devices, shell>>
  BY DEF Register, InitObject, At, Devs
<1>2. /\ pc'[t].at = "insert" /\ pc'[t].obj = d /\ pc'[t].then = "fields"
      /\ \A u \in Threads \ {t} : pc'[u] = pc[u]
  BY <1>1, Goes
<1>3. \A e \in Devs \ {d} : type'[e] = type[e] /\ name'[e] = name[e]
  <2>1. type \in [Objs -> Classes \cup {"none"}]
    BY DEF DevInv, ObjInv, TypeInv, DataOK
  <2> QED BY <1>1, <2>1
<1>4. \A e \in Devs : Linked(e)' = Linked(e)
  BY <1>1 DEF Linked
<1>5. ~Kept(d) /\ Spare(d)
  BY <1>1 DEF Kept, DevInv, Device
<1>6. ASSUME NEW u \in Threads \ {t} PROVE d \notin Owns(u)
  <2> SUFFICES ASSUME d \in Owns(u) PROVE FALSE
    OBVIOUS
  <2>1. pc[u].at \in Working \cup {"fields"} /\ pc[u].obj = d
    BY <1>5, OwnedIsKept
  <2>2. ~At(u, "fields")
    BY <1>1, <2>1 DEF DevInv, Called, Progress
  <2> QED BY <1>1, <2>1, <2>2 DEF Settled, Working, At
<1>7. Owns(t)' \subseteq {d}
  BY <1>2 DEF Owns, Shelling, Consoling
<1>9. \A e \in Devs \ {d} : type'[e] = type[e] /\ Linked(e)' = Linked(e)
  BY <1>3, <1>4
<1>10. PICK D \in SUBSET Devs : D = {d}
  OBVIOUS
<1>11. \A e \in D : Spare(e) /\ \A u \in Threads \ {t} : e \notin Owns(u)
  BY <1>5, <1>6, <1>10
<1>12. pc[t].at \in Aways /\ pc'[t].at \in Aways \cup {"fields"}
  BY <1>1, <1>2 DEF Aways, Working
<1>13. UNCHANGED <<app, devices, shell>>
  BY <1>1
<1> QED BY <1>2, <1>7, <1>9, <1>10, <1>11, <1>12, <1>13, ContainerStep

LEMMA UnregisterKeeps ==
    ASSUME ObjectsAssumption, DevInv, ObjInv', NEW t \in Threads, NEW d \in Devs,
           Unregister(t, d)
    PROVE  DevInv'
<1>1. /\ At(t, "ready") /\ pc[t].at = "ready" /\ Exclusive(t, d) /\ d \in Objs
      /\ d \notin {input, console} /\ \A u \in Threads : opens[u][d] = 0
      /\ type' = [type EXCEPT ![d] = "none"] /\ Goto(t, "remove", d, "ready")
      /\ UNCHANGED <<app, name, object_list, devices, shell>>
  BY DEF Unregister, EndObject, At, Devs
<1>2. /\ pc'[t].at = "remove" /\ pc'[t].obj = d /\ pc'[t].then = "ready"
      /\ \A u \in Threads \ {t} : pc'[u] = pc[u]
  BY <1>1, Goes
<1>3. \A e \in Devs : Linked(e)' = Linked(e)
  BY <1>1 DEF Linked
<1>4. \A e \in Devs \ {d} : type'[e] = type[e] /\ Linked(e)' = Linked(e)
  BY <1>1, <1>3 DEF DevInv, ObjInv, TypeInv, DataOK
<1>5. Spare(d) /\ \A u \in Threads \ {t} : d \notin Owns(u)
  <2>1. /\ \A u \in Threads : d \notin Owns(u)
        /\ \A u \in Threads : pc[u].obj = d => pc[u].at \in Viewing
    BY <1>1, BeginsWith DEF Owns
  <2>2. opened # d
    <3> SUFFICES ASSUME opened = d PROVE FALSE
      OBVIOUS
    <3>1. d # Nobody
      BY DEF Devs, ObjectsAssumption
    <3>2. PICK u \in Threads : Consoling(u)
      BY <1>1, <3>1 DEF DevInv, ConsoleOK
    <3>3. At(u, "console") /\ pc[u].obj = d
      BY <3>1, <3>2 DEF DevInv, Called, Progress
    <3> QED BY <2>1, <3>3 DEF At, Viewing
  <2>3. ~ShellHas(d)
    <3>1. \A u \in Threads : pc[u].obj = d => ~Taken(u)
      BY <2>1 DEF Taken, Gone, Viewing
    <3> QED BY <1>1, <3>1 DEF ShellHas
  <2>4. Total(opens, d) = 0
    BY <1>1, TotalIs DEF DevInv, CountTypes, Disciplined
  <2>5. Held(d) = 0
    BY <2>2, <2>3, <2>4 DEF Held, ConsoleHas, One
  <2>6. ref_count[d] = 0
    <3>1. ref_count[d] \in Nat /\ ref_count[d] <= Held(d)
      BY <1>1 DEF DevInv, CountTypes, Device, Counted
    <3> QED BY <2>5, <3>1
  <2> QED BY <1>1, <2>1, <2>2, <2>4, <2>6 DEF Spare
<1>6. Owns(t)' \subseteq {d}
  BY <1>2 DEF Owns, Shelling, Consoling
<1>8. PICK D \in SUBSET Devs : D = {d}
  OBVIOUS
<1>9. \A e \in D : Spare(e) /\ \A u \in Threads \ {t} : e \notin Owns(u)
  BY <1>5, <1>8
<1>10. pc[t].at \in Aways /\ pc'[t].at \in Aways \cup {"fields"}
  BY <1>1, <1>2 DEF Aways, Working
<1>11. UNCHANGED <<app, devices, shell>>
  BY <1>1
<1> QED BY <1>2, <1>4, <1>6, <1>8, <1>9, <1>10, <1>11, ContainerStep

-----------------------------------------------------------------------------
(* Every step.                                                             *)

LEMMA DevInvInit == ASSUME ObjectsAssumption, Init, Disciplined PROVE DevInv
<1>1. ObjInv
  BY ObjInvInit
<1>2. \A t \in Threads : pc[t].at = "ready" /\ pc[t].obj = Nobody
  BY DEF Init, ObjectsInit
<1>3. Nobody \notin Devs /\ Devs \subseteq Objs
  BY DEF ObjectsAssumption, Devs
<1>4. CountTypes
  BY DEF Init, CountTypes
<1>5. /\ \A t \in Threads : Owns(t) = {} /\ ~Shelling(t) /\ ~Consoling(t)
      /\ \A t \in Threads : ~Taken(t) /\ ~At(t, "console")
  BY <1>2, <1>3 DEF Owns, Shelling, Consoling, Taken, Gone, At
<1>6. Apart /\ \A t \in Threads : Called(t)
  BY <1>2, <1>5 DEF Apart, Called, Callers, Holds, Progress, At
<1>7. console = Nobody /\ opened = Nobody /\ input = Nobody /\ \A d \in Objs : ref_count[d] = 0
  BY DEF Init
<1>8. ASSUME NEW d \in Devs PROVE Device(d)
  <2>1. Total(opens, d) = 0
    <3>1. \A t \in Threads : opens[t][d] = 0
      BY <1>3 DEF Init
    <3> QED BY <1>3, <1>4, <3>1, TotalIs DEF Disciplined, CountTypes
  <2>2. ~ShellHas(d) /\ ~ConsoleHas(d)
    BY <1>3, <1>5, <1>7 DEF ShellHas, ConsoleHas
  <2>3. Counted(d)
    BY <1>3, <1>7, <2>1, <2>2 DEF Counted, Held, One
  <2>4. Flagged(d) /\ Spare(d)
    BY <1>3, <1>7, <2>1 DEF Flagged, Spare
  <2> QED BY <2>3, <2>4 DEF Device
<1>9. ConsoleOK
  BY <1>7 DEF ConsoleOK
<1>10. InputOK
  BY <1>2, <1>7 DEF InputOK, At
<1> QED BY <1>1, <1>4, <1>6, <1>8, <1>9, <1>10 DEF DevInv

LEMMA DeviceStepKeepsDevices ==
    ASSUME ObjectsAssumption, DevInv, ObjInv', NEW t \in Threads, DeviceStep(t)
    PROVE  DevInv'
<1>1. CASE RegisterFields(t) \/ OpenRefused(t) \/ OpenDriver(t) \/ Count(t) \/ CloseDriver(t)
  BY <1>1, RegisterFieldsKeeps, OpenRefusedKeeps, OpenDriverKeeps, CountKeeps, CloseDriverKeeps
<1>2. CASE OpenConsole(t) \/ NewConsole(t) \/ Kprintf(t) \/ KprintfEnd(t)
  BY <1>2, OpenConsoleKeeps, NewConsoleKeeps, KprintfKeeps, KprintfEndKeeps
<1>3. CASE \/ CloseOld(t) \/ Quiet(t) \/ TakeDevice(t) \/ Indicate(t) \/ Getchar(t) \/ Woken(t)
  BY <1>3, CloseOldKeeps, QuietKeeps, TakeDeviceKeeps, IndicateKeeps, GetcharKeeps, WokenKeeps
<1>4. ASSUME NEW d \in Devs,
             \/ Unregister(t, d) \/ DeviceInit(t, d) \/ Open(t, d) \/ Close(t, d)
             \/ SetConsole(t, d) \/ SetDevice(t, d)
             \/ \E n \in Names : Register(t, d, n)
      PROVE  DevInv'
  BY <1>4, UnregisterKeeps, DeviceInitKeeps, OpenKeeps, CloseKeeps, SetConsoleKeeps,
     RegisterKeeps
<1> QED BY <1>1, <1>2, <1>3, <1>4 DEF DeviceStep

LEMMA DevInvKept == ASSUME ObjectsAssumption, DevInv, [Next]_vars PROVE DevInv'
<1>1. ObjInv'
  BY ObjInvKept DEF DevInv
<1>2. ASSUME NEW t \in Threads, ObjectStep(t), UNCHANGED <<devices, shell>> PROVE DevInv'
  BY <1>1, <1>2, ObjectsKeepDevices
<1>3. ASSUME NEW t \in Threads, Command(t) \/ ListingStep(t), UNCHANGED <<devices, shell>>
      PROVE  DevInv'
  BY <1>1, <1>3, ListingKeepsDevices
<1>4. ASSUME NEW t \in Threads, DeviceStep(t) PROVE DevInv'
  BY <1>1, <1>4, DeviceStepKeepsDevices
<1>5. ASSUME NEW d \in Devs, Receive(d) PROVE DevInv'
  BY <1>1, <1>5, ReceiveKeeps
<1>6. CASE UNCHANGED vars
  <2>1. CountTypes' /\ InputOK'
    BY <1>6 DEF vars, devices, shell, DevInv, CountTypes, InputOK, At
  <2> QED BY <1>1, <1>6, <2>1, OnlyInput DEF vars, shell
<1> QED BY <1>2, <1>3, <1>4, <1>5, <1>6 DEF Next

\* What the invariant says of a device that no call is about.
LEMMA CountedAtRest ==
    ASSUME ObjectsAssumption, DevInv
    PROVE  OpensAreCounted
<1> SUFFICES ASSUME NEW d \in Devs, \A t \in Threads : Away(t, d)
             PROVE  /\ ref_count[d] <= Holders(d)
                    /\ d \notin robbed => ref_count[d] = Holders(d)
                    /\ ref_count[d] > 0 => /\ "OPEN" \in open_flag[d] /\ d \in running
                                           /\ d \in activated /\ Linked(d)
                    /\ d \in Standalone => ref_count[d] <= 1
  BY DEF OpensAreCounted
<1>1. \A t \in Threads : pc[t].obj # d
  BY DEF Away
<1>2. ShellHas(d) <=> input = d
  <2>1. input = d => \A t \in Threads : ~Gone(t)
    BY DEF Away, Gone, Swapping
  <2> QED BY <1>1, <2>1 DEF ShellHas
<1>3. Counted(d) /\ Flagged(d)
  BY DEF DevInv, Device
<1>4. Holders(d) = Held(d)
  <2>1. /\ One(ShellHas(d)) = IF input = d THEN 1 ELSE 0
        /\ One(ConsoleHas(d)) = IF opened = d THEN 1 ELSE 0
    BY <1>2 DEF One, ConsoleHas
  <2> QED BY <2>1 DEF Holders, Held, Total
<1>5. ref_count[d] > 0 => Linked(d)
  <2>1. ref_count[d] > 0 => ref_count[d] # 0
    OBVIOUS
  <2> QED BY <2>1, InUseIsKept DEF Kept
<1> QED BY <1>1, <1>3, <1>4, <1>5 DEF Counted, Flagged

\* Where one thread is the shell and one sets the console, to whatever devices, the
\* count of a device that no call is about is the number of its opens, or less once
\* the console closed it without having it open; a device that is counted open is
\* open, registered and initialized, with its driver, and a stand-alone one is open
\* once.
THEOREM OpensAreCountedHolds == Spec /\ Disciplined => []OpensAreCounted
<1>1. Init /\ Disciplined => DevInv
  BY ObjectsAssumption, DevInvInit
<1>2. DevInv /\ [Next]_vars => DevInv'
  BY ObjectsAssumption, DevInvKept
<1>3. DevInv => OpensAreCounted
  BY ObjectsAssumption, CountedAtRest
<1> QED BY <1>1, <1>2, <1>3, PTL DEF Spec

\* There the shell does not wait for input beside bytes it could read, however its
\* device changes and whenever the driver receives, unless the console closed it.
THEOREM InputIsHeardHolds == Spec /\ Disciplined => []InputIsHeard
<1>1. Init /\ Disciplined => DevInv
  BY ObjectsAssumption, DevInvInit
<1>2. DevInv /\ [Next]_vars => DevInv'
  BY ObjectsAssumption, DevInvKept
<1>3. DevInv => InputIsHeard
  BY DEF DevInv, InputOK, InputIsHeard
<1> QED BY <1>1, <1>2, <1>3, PTL DEF Spec
=============================================================================
