------------------------- MODULE Interrupts_proofs -------------------------
(***************************************************************************)
(* The interrupts of the machine timer and of the PLIC beside each other:  *)
(* a step of Interrupts is a step of one part and a stutter of the others, *)
(* so that the invariants of the parts stand side by side.  That of the    *)
(* clock is here, those of the reception and of the timers are in          *)
(* UartRx_proofs and Timer_proofs.                                         *)
(*                                                                         *)
(* The tick of the CLINT, for words of any size and ticks of any length,   *)
(* never runs ahead of the time, and, when the low word of mtime does not  *)
(* roll over between the two reads, the next one is near.  Both are about  *)
(* the value that is being put together, which is followed from the first  *)
(* read to the last write: Read is the time as it was read, Target the     *)
(* comparison value that comes of it, and Past what the ticks counted so   *)
(* far stand for.                                                          *)
(***************************************************************************)
EXTENDS Interrupts, TLAPS

TimerP == INSTANCE Timer_proofs WITH pc <- step
UartP  == INSTANCE UartRx_proofs WITH c <- byte

\* No two threads share a timer, and a start is not half a wrap of the tick late.
Alone == TimerP!Alone
Room  == TimerP!Room

ListInv  == TimerP!LInv
OrderInv == TimerP!IInv
ByteInv  == UartP!IInv

-----------------------------------------------------------------------------
(* The tick.                                                               *)

\* The high word of mtime does not come to its last value.
Bounded == /\ MaxTime < (Word - 1) * Word
           /\ \A m \in StartTimes : m <= MaxTime

Past   == start + ticks * TICK_CYCLES
Read   == (mtime \div Word) * Word + lo
Target == hi * Word + Clint!next_lo

Comparing == access = "ones" \/ access = "writehi" \/ access = "writelo"

\* The numbers.
ClintTypeOK ==
    /\ mtime \in Nat /\ mtime <= MaxTime
    /\ cmp_lo \in Nat /\ cmp_hi \in Nat
    /\ lo \in 0..Word-1 /\ hi \in Nat
    /\ start \in Nat /\ ticks \in Nat

\* What is put together is a tick after the last one ...
ClintInv ==
    /\ ClintTypeOK
    /\ Past <= mtime
    /\ access = "hi" => Past <= Read
    /\ Comparing => Past + TICK_CYCLES <= Target
    /\ access = "writelo" => cmp_hi = hi
    /\ access = "run" => Past + TICK_CYCLES <= Clint!mtimecmp

\* ... and no more than a tick from now.
ClintNear ==
    /\ access = "hi" => Read <= mtime
    /\ Comparing => Target <= mtime + TICK_CYCLES
    /\ access = "run" => Clint!mtimecmp <= mtime + TICK_CYCLES

-----------------------------------------------------------------------------
(* Division.                                                               *)

\* The words of a number.
LEMMA Halves ==
    ASSUME NEW w \in Nat \ {0}, NEW n \in Nat
    PROVE  /\ n \div w \in Nat /\ n % w \in 0..w-1
           /\ n = (n \div w) * w + (n % w)
OBVIOUS

\* The high word does not run back.
LEMMA HighGrows ==
    ASSUME NEW w \in Nat \ {0}, NEW n \in Nat
    PROVE  /\ n \div w <= (n + 1) \div w
           /\ (n + 1) % w # 0 => (n + 1) \div w = n \div w
OBVIOUS

\* The sum of two words is a word, or one more and a carry.
LEMMA WordSum ==
    ASSUME NEW w \in Nat \ {0}, NEW a \in 0..w-1, NEW b \in 1..w-1
    PROVE  /\ (a + b) % w \in 0..w-1
           /\ ((a + b) % w) < a => a + b = w + ((a + b) % w)
           /\ ~(((a + b) % w) < a) => a + b = (a + b) % w
OBVIOUS

\* Products and their order.
LEMMA Products ==
    ASSUME NEW a \in Nat, NEW b \in Nat, NEW w \in Nat
    PROVE  /\ a * w \in Nat
           /\ a <= b => a * w <= b * w
           /\ (a + 1) * w = a * w + w
           /\ a * w < b * w => a < b
OBVIOUS

-----------------------------------------------------------------------------
(* The quantities.                                                         *)

LEMMA ClintConstants ==
    ASSUME Clint!ClintAssumption
    PROVE  /\ Word \in Nat \ {0} /\ Word - 1 \in Nat
           /\ TICK_CYCLES \in 1..Word-1 /\ MaxTime \in Nat
BY DEF Clint!ClintAssumption

LEMMA QuantitiesAreNat ==
    ASSUME Clint!ClintAssumption, ClintTypeOK
    PROVE  /\ Past \in Nat /\ Read \in Nat /\ Clint!mtimecmp \in Nat
           /\ Target \in Nat /\ Clint!next_lo \in 0..Word-1 /\ TICK_CYCLES \in Nat
<1>1. lo \in 0..Word-1 /\ TICK_CYCLES \in 1..Word-1 /\ Word \in Nat \ {0}
  BY DEF ClintTypeOK, Clint!ClintAssumption
<1>2. Clint!next_lo \in 0..Word-1
  BY <1>1, WordSum DEF Clint!next_lo
<1>3. Past \in Nat
  BY <1>1, Products DEF Past, ClintTypeOK
<1>4. Read \in Nat
  <2>1. mtime \div Word \in Nat
    BY <1>1, Halves DEF ClintTypeOK
  <2>2. (mtime \div Word) * Word \in Nat
    BY <1>1, <2>1, Products
  <2> QED BY <1>1, <2>2 DEF Read
<1>5. Target \in Nat /\ Clint!mtimecmp \in Nat
  BY <1>1, <1>2, Products DEF Target, Clint!mtimecmp, ClintTypeOK
<1> QED BY <1>1, <1>2, <1>3, <1>4, <1>5

\* The high word that is read, with the carry, makes a tick later.
LEMMA TargetIsATickLater ==
    ASSUME Clint!ClintAssumption, Bounded, ClintTypeOK, Clint!ReadHi
    PROVE  Target' = Read + TICK_CYCLES
<1> DEFINE H == mtime \div Word
<1>1. /\ H \in Nat /\ Word \in Nat \ {0} /\ H * Word <= mtime
      /\ lo \in 0..Word-1 /\ TICK_CYCLES \in 1..Word-1
  BY Halves DEF ClintTypeOK, Clint!ClintAssumption
<1> HIDE DEF H
<1>2. /\ Clint!next_lo \in 0..Word-1
      /\ Clint!next_lo < lo => lo + TICK_CYCLES = Word + Clint!next_lo
      /\ ~(Clint!next_lo < lo) => lo + TICK_CYCLES = Clint!next_lo
  BY <1>1, WordSum DEF Clint!next_lo
<1>3. Read = H * Word + lo /\ H * Word \in Nat
  BY <1>1, Products DEF Read, H
<1>4. /\ hi' = Clint!Carry(H) /\ Clint!next_lo' = Clint!next_lo
      /\ Target' = Clint!Carry(H) * Word + Clint!next_lo
  BY DEF Clint!ReadHi, H, Target, Clint!next_lo
<1>5. CASE Clint!next_lo < lo
  <2>1. H * Word < (Word - 1) * Word /\ Word - 1 \in Nat
    BY <1>1, Products DEF Bounded, ClintTypeOK, Clint!ClintAssumption
  <2>2. H + 1 < Word
    BY <1>1, <2>1, Products
  <2>3. Clint!Carry(H) = H + 1
    BY <1>1, <1>5, <2>2 DEF Clint!Carry
  <2>4. (H + 1) * Word = H * Word + Word
    BY <1>1, Products
  <2> QED BY <1>1, <1>2, <1>3, <1>4, <1>5, <2>3, <2>4
<1>6. CASE ~(Clint!next_lo < lo)
  BY <1>1, <1>2, <1>3, <1>4, <1>6 DEF Clint!Carry
<1> QED BY <1>5, <1>6

-----------------------------------------------------------------------------
(* The steps.                                                              *)

\* The clock runs.  A rollover between the two reads moves Read ahead.
LEMMA ReadGrows ==
    ASSUME Clint!ClintAssumption, ClintTypeOK, Clint!Advance
    PROVE  /\ Read <= Read' /\ Read' \in Nat
           /\ Untorn /\ access = "hi" => Read' = Read
<1> DEFINE H == mtime \div Word
<1>1. Word \in Nat \ {0} /\ mtime \in Nat /\ lo \in Nat
  BY ClintConstants DEF ClintTypeOK
<1>2. mtime' = mtime + 1 /\ lo' = lo
  BY DEF Clint!Advance
<1>3. /\ H \in Nat /\ H' \in Nat /\ H <= H'
      /\ (mtime + 1) % Word # 0 => H' = H
  <2>1. mtime + 1 \in Nat /\ H' = (mtime + 1) \div Word
    BY <1>1, <1>2
  <2>2. (mtime + 1) \div Word \in Nat /\ H \in Nat
    BY <1>1, <2>1, Halves
  <2> QED BY <1>1, <2>1, <2>2, HighGrows
<1>4. Read = H * Word + lo /\ Read' = H' * Word + lo
  BY <1>2 DEF Read
<1>5. Untorn /\ access = "hi" => (mtime + 1) % Word # 0
  BY DEF Clint!Advance
<1> HIDE DEF H
<1>6. H * Word <= H' * Word /\ H * Word \in Nat /\ H' * Word \in Nat
  BY <1>1, <1>3, Products
<1>7. Untorn /\ access = "hi" => Read' = Read
  BY <1>3, <1>4, <1>5
<1> QED BY <1>1, <1>4, <1>6, <1>7

LEMMA AdvanceKeeps ==
    ASSUME Clint!ClintAssumption, ClintInv, Clint!Advance
    PROVE  ClintInv' /\ (Untorn /\ ClintNear => ClintNear')
<1>1. ClintTypeOK /\ mtime \in Nat
  BY DEF ClintInv, ClintTypeOK
<1>2. /\ mtime' = mtime + 1 /\ access' = access /\ cmp_hi' = cmp_hi /\ hi' = hi
      /\ Target' = Target /\ Clint!mtimecmp' = Clint!mtimecmp
  BY DEF Clint!Advance, Target, Clint!next_lo, Clint!mtimecmp
<1>3. ClintTypeOK'
  BY <1>1, ClintConstants DEF ClintTypeOK, Clint!Advance
<1>4. /\ TICK_CYCLES \in Nat /\ Past \in Nat /\ Target \in Nat
      /\ Clint!mtimecmp \in Nat /\ Read \in Nat
  BY <1>1, QuantitiesAreNat
<1>5. Past' = Past \/ (access = "lo" /\ Past' = mtime')
  <2>1. CASE ticks = 0 /\ access = "lo"
    <3>1. start' = mtime' /\ ticks' = 0
      BY <2>1 DEF Clint!Advance
    <3>2. Past' = mtime' + 0 * TICK_CYCLES
      BY <3>1 DEF Past
    <3> QED BY <1>1, <1>2, <1>4, <2>1, <3>2
  <2>2. CASE ~(ticks = 0 /\ access = "lo")
    BY <2>2 DEF Clint!Advance, Past
  <2> QED BY <2>1, <2>2
<1>6. Read <= Read' /\ Read' \in Nat /\ (Untorn /\ access = "hi" => Read' = Read)
  BY <1>1, ReadGrows
<1>7. ClintInv'
  BY <1>1, <1>2, <1>3, <1>4, <1>5, <1>6 DEF ClintInv, Comparing
<1>8. ASSUME Untorn, ClintNear PROVE ClintNear'
  BY <1>1, <1>2, <1>4, <1>6, <1>8 DEF ClintNear, Comparing
<1> QED BY <1>7, <1>8

\* The first read.
LEMMA ReadLoKeeps ==
    ASSUME Clint!ClintAssumption, ClintInv, Clint!ReadLo
    PROVE  ClintInv' /\ ClintNear'
<1>1. ClintTypeOK /\ mtime \in Nat /\ Past <= mtime /\ Word \in Nat \ {0}
  BY ClintConstants DEF ClintInv, ClintTypeOK
<1>2. mtime % Word \in 0..Word-1 /\ mtime = (mtime \div Word) * Word + (mtime % Word)
  BY <1>1, Halves
<1>3. mtime' = mtime /\ access' = "hi" /\ Past' = Past
  BY DEF Clint!ReadLo, Past
<1>4. Read' = mtime
  BY <1>2 DEF Clint!ReadLo, Read
<1>5. ClintTypeOK'
  BY <1>1, <1>2 DEF ClintTypeOK, Clint!ReadLo
<1>6. Past \in Nat
  BY <1>1, QuantitiesAreNat
<1> QED BY <1>1, <1>3, <1>4, <1>5, <1>6 DEF ClintInv, ClintNear, Comparing

\* The second.
LEMMA ReadHiKeeps ==
    ASSUME Clint!ClintAssumption, Bounded, ClintInv, Clint!ReadHi
    PROVE  ClintInv' /\ (ClintNear => ClintNear')
<1>1. ClintTypeOK /\ mtime \in Nat /\ Past <= mtime
  BY DEF ClintInv, ClintTypeOK
<1>2. Target' = Read + TICK_CYCLES
  BY <1>1, TargetIsATickLater
<1>3. Past \in Nat /\ Read \in Nat /\ TICK_CYCLES \in Nat
  BY <1>1, QuantitiesAreNat
<1>4. mtime' = mtime /\ Past' = Past /\ access = "hi" /\ access' = "ones"
  BY DEF Clint!ReadHi, Past
<1>5. ClintTypeOK'
  <2> DEFINE H == mtime \div Word
  <2>1. H \in Nat
    BY <1>1, ClintConstants, Halves
  <2>2. hi' = Clint!Carry(H)
    BY DEF Clint!ReadHi
  <2> HIDE DEF H
  <2>3. (H + 1) % Word \in 0..Word-1
    <3>1. H + 1 \in Nat
      BY <2>1
    <3> QED BY <3>1, ClintConstants, Halves
  <2>4. hi' \in Nat
    BY <2>1, <2>2, <2>3, ClintConstants DEF Clint!Carry
  <2> QED BY <1>1, <2>4 DEF ClintTypeOK, Clint!ReadHi
<1> QED BY <1>1, <1>2, <1>3, <1>4, <1>5 DEF ClintInv, ClintNear, Comparing

\* The three writes.
LEMMA ComparesKeep ==
    ASSUME Clint!ClintAssumption, ClintInv, Clint!WriteOnes \/ Clint!WriteHi \/ Clint!WriteLo
    PROVE  ClintInv' /\ (ClintNear => ClintNear')
<1>1. ClintTypeOK /\ mtime \in Nat /\ Past <= mtime
  BY DEF ClintInv, ClintTypeOK
<1>2. /\ Past \in Nat /\ Target \in Nat /\ Clint!next_lo \in 0..Word-1
      /\ Word \in Nat \ {0} /\ TICK_CYCLES \in Nat
  BY <1>1, QuantitiesAreNat, ClintConstants
<1>3. mtime' = mtime /\ Past' = Past /\ Target' = Target /\ hi' = hi
  BY DEF Clint!WriteOnes, Clint!WriteHi, Clint!WriteLo, Past, Target, Clint!next_lo
<1>4. CASE Clint!WriteOnes
  <2>1. access = "ones" /\ access' = "writehi"
    BY <1>4 DEF Clint!WriteOnes
  <2>2. cmp_lo' \in Nat
    BY <1>4, ClintConstants DEF Clint!WriteOnes
  <2>3. ClintTypeOK'
    BY <1>1, <1>4, <2>2 DEF Clint!WriteOnes, ClintTypeOK
  <2> QED BY <1>1, <1>2, <1>3, <2>1, <2>3 DEF ClintInv, ClintNear, Comparing
<1>5. CASE Clint!WriteHi
  <2>1. access = "writehi" /\ access' = "writelo" /\ cmp_hi' = hi'
    BY <1>5 DEF Clint!WriteHi
  <2>2. ClintTypeOK'
    BY <1>1, <1>5 DEF Clint!WriteHi, ClintTypeOK
  <2> QED BY <1>1, <1>2, <1>3, <2>1, <2>2 DEF ClintInv, ClintNear, Comparing
<1>6. CASE Clint!WriteLo
  <2>1. access = "writelo" /\ access' = "run"
    BY <1>6 DEF Clint!WriteLo
  <2>2. cmp_lo' \in Nat
    BY <1>2, <1>6 DEF Clint!WriteLo
  <2>3. ClintTypeOK'
    BY <1>1, <1>6, <2>2 DEF Clint!WriteLo, ClintTypeOK
  <2>4. Clint!mtimecmp' = Target
    BY <1>6 DEF Clint!WriteLo, ClintInv, Clint!mtimecmp, Target
  <2> QED BY <1>1, <1>2, <1>3, <2>1, <2>3, <2>4 DEF ClintInv, ClintNear, Comparing
<1> QED BY <1>4, <1>5, <1>6

\* The interrupt is not early.
LEMMA TimerIsrKeeps ==
    ASSUME Clint!ClintAssumption, ClintInv, Clint!TimerIsr
    PROVE  ClintInv' /\ ClintNear'
<1>1. ClintTypeOK /\ mtime \in Nat /\ start \in Nat /\ ticks \in Nat
  BY DEF ClintInv, ClintTypeOK
<1>2. Past \in Nat /\ Clint!mtimecmp \in Nat /\ TICK_CYCLES \in Nat
  BY <1>1, QuantitiesAreNat
<1>3. mtime' = mtime /\ access = "run" /\ access' = "lo" /\ Clint!mtimecmp <= mtime
  BY <1>1, <1>2 DEF Clint!TimerIsr
<1>4. Past' = Past + TICK_CYCLES
  <2>1. (ticks + 1) * TICK_CYCLES = ticks * TICK_CYCLES + TICK_CYCLES
        /\ ticks * TICK_CYCLES \in Nat
    BY <1>1, <1>2, Products
  <2>2. start' = start /\ ticks' = ticks + 1
    BY DEF Clint!TimerIsr
  <2> QED BY <1>1, <1>2, <2>1, <2>2 DEF Past
<1>5. ClintTypeOK'
  BY <1>1 DEF ClintTypeOK, Clint!TimerIsr
<1> QED BY <1>1, <1>2, <1>3, <1>4, <1>5 DEF ClintInv, ClintNear, Comparing

-----------------------------------------------------------------------------
(* The invariants.                                                         *)

LEMMA ClintInit ==
    ASSUME Clint!ClintAssumption, Bounded, Clint!Init PROVE ClintInv /\ ClintNear
<1>1. ClintTypeOK
  BY DEF Clint!Init, ClintTypeOK, Clint!ClintAssumption, Bounded
<1>2. Past = mtime
  BY <1>1, ClintConstants DEF Clint!Init, Past, ClintTypeOK
<1> QED BY <1>1, <1>2 DEF Clint!Init, ClintInv, ClintNear, Comparing, ClintTypeOK

LEMMA ClintKeeps ==
    ASSUME Clint!ClintAssumption, Bounded, ClintInv, [Clint!Next]_Clint!vars
    PROVE  ClintInv' /\ (Untorn /\ ClintNear => ClintNear')
<1>1. CASE Clint!Advance
  BY <1>1, AdvanceKeeps
<1>2. CASE \/ Clint!ReadLo \/ Clint!ReadHi
           \/ Clint!WriteOnes \/ Clint!WriteHi \/ Clint!WriteLo \/ Clint!TimerIsr
  BY <1>2, ReadLoKeeps, ReadHiKeeps, ComparesKeep, TimerIsrKeeps
<1>3. CASE UNCHANGED Clint!vars
  <2>1. /\ Past' = Past /\ Read' = Read /\ Target' = Target /\ Clint!mtimecmp' = Clint!mtimecmp
        /\ ClintTypeOK' = ClintTypeOK /\ access' = access /\ mtime' = mtime
        /\ cmp_hi' = cmp_hi /\ hi' = hi
    BY <1>3 DEF Clint!vars, ClintTypeOK, Past, Read, Target, Clint!next_lo, Clint!mtimecmp
  <2> QED BY <2>1 DEF ClintInv, ClintNear, Comparing
<1> QED BY <1>1, <1>2, <1>3 DEF Clint!Next

\* ClintInv says more than Clint!NeverAhead, and ClintNear more than Clint!NextTickIsNear.
LEMMA ClintEnough == (ClintInv => Clint!NeverAhead) /\ (ClintNear => Clint!NextTickIsNear)
BY DEF ClintInv, ClintNear, Clint!NeverAhead, Clint!NextTickIsNear, Past

-----------------------------------------------------------------------------
(* The parts here are those the proofs are about.                          *)

LEMMA Assumptions ==
    Clint!ClintAssumption /\ UartP!UartAssumption /\ TimerP!TimerAssumption
<1>1. Clint!ClintAssumption
  BY InterruptsAssumption
<1>2. UartP!UartAssumption
  BY InterruptsAssumption DEF Uart!UartAssumption, UartP!UartAssumption
<1>3. TimerP!TimerAssumption
  BY InterruptsAssumption DEF Kernel!TimerAssumption, TimerP!TimerAssumption,
     Kernel!Half, TimerP!Half
<1> QED BY <1>1, <1>2, <1>3

LEMMA Inits == Init => Clint!Init /\ UartP!Init /\ TimerP!Init
<1>1. Init => Clint!Init
  BY DEF Init
<1>2. Init => UartP!Init
  BY DEF Init, Uart!Init, UartP!Init, Uart!Indices, UartP!Indices
<1>3. Init => TimerP!Init
  BY DEF Init, Kernel!Init, TimerP!Init, Kernel!Nothing, TimerP!Nothing
<1> QED BY <1>1, <1>2, <1>3

LEMMA ClintSteps == [Next]_vars => [Clint!Next]_Clint!vars
<1>1. UNCHANGED clint => UNCHANGED Clint!vars
  BY DEF clint, Clint!vars
<1> QED BY <1>1 DEF Next, vars

LEMMA UartSteps == [Next]_vars => [UartP!Next]_UartP!vars
<1>1. UNCHANGED uart => UNCHANGED UartP!vars
  BY DEF uart, UartP!vars
<1>2. \A i : Uart!Succ(i) = UartP!Succ(i)
  BY DEF Uart!Succ, UartP!Succ
<1>3. Uart!Getchar => UartP!Getchar
  BY <1>2 DEF Uart!Getchar, UartP!Getchar, Uart!Take, UartP!Take, Uart!Read,
     UartP!Read, Uart!Advance, UartP!Advance
<1>4. ASSUME NEW b \in Bytes, Uart!UartIsr(b) PROVE UartP!UartIsr(b)
  BY <1>2, <1>4 DEF Uart!UartIsr, UartP!UartIsr, Uart!Put, UartP!Put, Uart!Full,
     UartP!Full, Uart!Release, UartP!Release
<1> QED BY <1>1, <1>3, <1>4 DEF Next, vars, Uart!Next, UartP!Next

LEMMA TimerSteps == [Next]_vars => [TimerP!Next]_TimerP!vars
<1>1. \A s, t : Kernel!RemoveFirst(s, t) = TimerP!RemoveFirst(s, t)
  BY DEF Kernel!RemoveFirst, TimerP!RemoveFirst, Kernel!RemoveAt, TimerP!RemoveAt,
     Kernel!SelectInSeq, TimerP!SelectInSeq, Kernel!Min, TimerP!Min
<1>2. \A s, t, stamp : Kernel!Inserted(s, t, stamp) = TimerP!Inserted(s, t, stamp)
  BY DEF Kernel!Inserted, TimerP!Inserted, Kernel!InsertAt, TimerP!InsertAt,
     Kernel!Minus, TimerP!Minus, Kernel!Half, TimerP!Half
<1>3. \A t : /\ Kernel!Stamp(t) = TimerP!Stamp(t) /\ Kernel!Due(t) = TimerP!Due(t)
             /\ Kernel!StartMasked(t) = TimerP!StartMasked(t)
             /\ Kernel!TimerRemove(t) = TimerP!TimerRemove(t)
  BY <1>1, <1>2 DEF Kernel!Stamp, TimerP!Stamp, Kernel!Due, TimerP!Due, Kernel!Minus,
     TimerP!Minus, Kernel!Half, TimerP!Half, Kernel!StartMasked, TimerP!StartMasked,
     Kernel!TimerRemove, TimerP!TimerRemove
<1>4. Kernel!Tick => TimerP!Tick
  BY DEF Kernel!Tick, TimerP!Tick, Kernel!Stamped, TimerP!Stamped, Kernel!Range,
     TimerP!Range, Kernel!Nothing, TimerP!Nothing
<1>5. Kernel!Check => TimerP!Check
  BY <1>3 DEF Kernel!Check, TimerP!Check, Kernel!CheckDone, TimerP!CheckDone,
     Kernel!Expire, TimerP!Expire, Kernel!Restart, TimerP!Restart, Kernel!Callback,
     TimerP!Callback, Kernel!Nothing, TimerP!Nothing
<1>6. ASSUME NEW c \in Callers, Kernel!CallerStep(c) PROVE TimerP!CallerStep(c)
  BY <1>2, <1>3, <1>6 DEF Kernel!CallerStep, TimerP!CallerStep, Kernel!Start,
     TimerP!Start, Kernel!StartStamp, TimerP!StartStamp, Kernel!StartInsert,
     TimerP!StartInsert, Kernel!Stop, TimerP!Stop, Kernel!StopRemove, TimerP!StopRemove,
     Kernel!StopClear, TimerP!StopClear, Kernel!Delete, TimerP!Delete,
     Kernel!DeleteObject, TimerP!DeleteObject, Kernel!SetTime, TimerP!SetTime,
     Kernel!SetPeriodic, TimerP!SetPeriodic, Kernel!Create, TimerP!Create,
     Kernel!TimerInit, TimerP!TimerInit, Kernel!Idle, TimerP!Idle, Kernel!At, TimerP!At,
     Kernel!Goto, TimerP!Goto, Kernel!Nothing, TimerP!Nothing
<1>7. UNCHANGED kernel => UNCHANGED TimerP!vars
  BY DEF kernel, TimerP!vars
<1> QED BY <1>4, <1>5, <1>6, <1>7 DEF Next, vars, Kernel!Next, TimerP!Next

-----------------------------------------------------------------------------
(* The properties.                                                         *)

\* No tick comes early, whether the reads are torn or not: the first comparison
\* and each that rt_hw_timer_isr sets lie a tick after the time that was read.
THEOREM NeverAheadHolds ==
    ASSUME Bounded PROVE Spec => []Clint!NeverAhead
<1>1. Init => ClintInv
  BY Assumptions, Inits, ClintInit
<1>2. ClintInv /\ [Next]_vars => ClintInv'
  BY Assumptions, ClintSteps, ClintKeeps
<1> QED BY <1>1, <1>2, ClintEnough, PTL DEF Spec

\* If the low word does not roll over between the two reads, the comparison value
\* set is never more than TICK_CYCLES ahead either.
THEOREM TicksAreOnTimeHolds ==
    ASSUME Bounded, Untorn PROVE Spec => []TicksAreOnTime
<1>1. Init => ClintInv /\ ClintNear
  BY Assumptions, Inits, ClintInit
<1>2. (ClintInv /\ ClintNear) /\ [Next]_vars => (ClintInv /\ ClintNear)'
  BY Assumptions, ClintSteps, ClintKeeps
<1>3. ClintInv /\ ClintNear => TicksAreOnTime
  BY ClintEnough DEF TicksAreOnTime
<1> QED BY <1>1, <1>2, <1>3, PTL DEF Spec

LEMMA ByteSteps ==
    ASSUME Paced
    PROVE  (Init => ByteInv) /\ (ByteInv /\ [Next]_vars => ByteInv')
<1>1. Init => ByteInv
  BY Assumptions, Inits, UartP!InitIInv DEF ByteInv
<1>2. ByteInv /\ [Next]_vars => ByteInv'
  BY Assumptions, UartSteps, UartP!NextIInv DEF ByteInv
<1> QED BY <1>1, <1>2

\* The tokens are the bytes, for a ring buffer of any size and any bytes ...
THEOREM TokensCountBytesHolds ==
    ASSUME Paced PROVE Spec => []TokensCountBytes
<1>1. ByteInv => TokensCountBytes
  BY DEF ByteInv, UartP!IInv, TokensCountBytes, Uart!TokensCountBytes,
     UartP!TokensCountBytes, Uart!Buffered, UartP!Buffered
<1> QED BY <1>1, ByteSteps, PTL DEF Spec

\* ... and the shell never gets a slot that holds no byte, nor waits beside one.
THEOREM WokenForAByteHolds ==
    ASSUME Paced PROVE Spec => []WokenForAByte
<1>1. ByteInv => WokenForAByte
  <2>1. ByteInv => UartP!WokenForAByte
    BY DEF ByteInv, UartP!IInv, UartP!TypeOK, UartP!TokensCountBytes,
       UartP!WokenForAByte
  <2> QED BY <2>1 DEF WokenForAByte, Uart!WokenForAByte, UartP!WokenForAByte,
          Uart!Buffered, UartP!Buffered
<1> QED BY <1>1, ByteSteps, PTL DEF Spec

\* The list of timers beside the other interrupts: none twice, none deleted, and
\* in agreement with the flags.
THEOREM ListIsExactHolds ==
    ASSUME Alone PROVE Spec => []ListIsExact
<1>1. Init => ListInv
  BY Assumptions, Inits, TimerP!LInit DEF ListInv
<1>2. ListInv /\ [Next]_vars => ListInv'
  BY Assumptions, TimerSteps, TimerP!LNext DEF ListInv, Alone
<1>3. ListInv => ListIsExact
  <2>1. ListInv => TimerP!ListIsExact
    BY TimerP!LEnough DEF ListInv
  <2> QED BY <2>1 DEF ListIsExact, TimerP!ListIsExact, Kernel!ListIsExact,
             TimerP!IsInjective, Kernel!IsInjective, TimerP!Range, Kernel!Range,
             TimerP!Nothing, Kernel!Nothing
<1> QED BY <1>1, <1>2, <1>3, PTL DEF Spec

LEMMA OrderSteps ==
    ASSUME Room, Alone
    PROVE  (Init => OrderInv) /\ (OrderInv /\ [Next]_vars => OrderInv')
<1>1. ASSUME Init PROVE OrderInv
  BY <1>1, Assumptions, Inits, TimerP!LInit, TimerP!OInit DEF OrderInv, TimerP!IInv
<1>2. OrderInv /\ [Next]_vars => OrderInv'
  BY Assumptions, TimerSteps, TimerP!ONext DEF OrderInv, Alone, Room
<1> QED BY <1>1, <1>2

\* It is in the order in which timers are due, across every wrap of the tick.
THEOREM InOrderOfTimeoutHolds ==
    ASSUME Room, Alone PROVE Spec => []InOrderOfTimeout
<1>1. OrderInv => InOrderOfTimeout
  <2>1. OrderInv => TimerP!InOrderOfTimeout
    BY Assumptions, TimerP!OEnough DEF OrderInv, Room
  <2> QED BY <2>1 DEF InOrderOfTimeout, TimerP!InOrderOfTimeout, Kernel!InOrderOfTimeout
<1> QED BY <1>1, OrderSteps, PTL DEF Spec

\* And rt_timer_check calls every timer in the tick it is due in.
THEOREM OnTimeHolds ==
    ASSUME Room, Alone PROVE Spec => OnTime
<1>1. OrderInv => /\ \A t \in Timers : Kernel!Expire(t) => left[t] = 0
                  /\ Kernel!CheckDone => \A t \in Kernel!Range(rt_timer_list) : left[t] > 0
  <2>1. ASSUME OrderInv, NEW t \in Timers, Kernel!Expire(t) PROVE left[t] = 0
    <3>1. TimerP!Expire(t)
      BY <2>1 DEF Kernel!Expire, TimerP!Expire, Kernel!TimerRemove, TimerP!TimerRemove,
         Kernel!RemoveFirst, TimerP!RemoveFirst, Kernel!RemoveAt, TimerP!RemoveAt,
         Kernel!SelectInSeq, TimerP!SelectInSeq, Kernel!Min, TimerP!Min,
         Kernel!Due, TimerP!Due, Kernel!Minus, TimerP!Minus, Kernel!Half, TimerP!Half
    <3> QED BY <2>1, <3>1, Assumptions, TimerP!ExpiredIsDue DEF OrderInv, Room
  <2>2. ASSUME OrderInv, Kernel!CheckDone
        PROVE  \A t \in Kernel!Range(rt_timer_list) : left[t] > 0
    <3>1. TimerP!CheckDone
      BY <2>2 DEF Kernel!CheckDone, TimerP!CheckDone, Kernel!Nothing, TimerP!Nothing,
         Kernel!Due, TimerP!Due, Kernel!Minus, TimerP!Minus, Kernel!Half, TimerP!Half
    <3>2. \A t \in TimerP!Listed : TimerP!offs[t] \in 1..TimerP!Top /\ left[t] = TimerP!offs[t]
      BY <2>2, <3>1, Assumptions, TimerP!RestIsNotDue DEF OrderInv, Room
    <3>3. TimerP!Top \in Nat
      BY Assumptions, TimerP!Sizes DEF Room
    <3>4. \A t \in TimerP!Listed : left[t] > 0
      BY <3>2, <3>3
    <3> QED BY <3>4 DEF TimerP!Listed, TimerP!Range, Kernel!Range
  <2> QED BY <2>1, <2>2
<1> QED BY <1>1, OrderSteps, PTL DEF Spec, OnTime, Kernel!OnTime
=============================================================================
