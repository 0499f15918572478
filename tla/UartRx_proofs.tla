--------------------------- MODULE UartRx_proofs ---------------------------
(***************************************************************************)
(* Proof that the semaphore counts the bytes of the ring buffer and that   *)
(* the reception is a FIFO channel, for any size of the buffer, while no   *)
(* byte comes into a full one.                                             *)
(***************************************************************************)
EXTENDS UartRx, SequenceTheorems, TLAPS

-----------------------------------------------------------------------------
(* The arithmetic of the ring.                                             *)

LEMMA SuccValue ==
    ASSUME UartAssumption, NEW i \in Indices
    PROVE  Succ(i) = IF i + 1 = UART_RX_BUF_SIZE THEN 0 ELSE i + 1
  BY SMTT(30) DEF Succ, Indices, UartAssumption

LEMMA SuccIsIndex ==
    ASSUME UartAssumption PROVE \A i \in Indices : Succ(i) \in Indices
  BY SuccValue DEF Indices, UartAssumption

LEMMA SmallRemainder == ASSUME NEW n \in Nat, NEW m \in Nat, n < m PROVE n % m = n
  BY SMTT(30)

\* The slot of the byte that is k-th in the order of arrival.
Slot(k) == (read_idx + k - 1) % UART_RX_BUF_SIZE

LEMMA WrapValue ==
    ASSUME UartAssumption, NEW i \in Indices, NEW k \in 1..UART_RX_BUF_SIZE
    PROVE  (i + k - 1) % UART_RX_BUF_SIZE
             = IF i + k - 1 < UART_RX_BUF_SIZE THEN i + k - 1
               ELSE i + k - 1 - UART_RX_BUF_SIZE
  BY SMTT(30) DEF Indices, UartAssumption

LEMMA SlotValue ==
    ASSUME UartAssumption, read_idx \in Indices, NEW k \in 1..UART_RX_BUF_SIZE
    PROVE  Slot(k) = IF read_idx + k - 1 < UART_RX_BUF_SIZE THEN read_idx + k - 1
                     ELSE read_idx + k - 1 - UART_RX_BUF_SIZE
  BY WrapValue DEF Slot

LEMMA BufferedRange ==
    ASSUME UartAssumption PROVE TypeOK => Buffered \in 0..UART_RX_BUF_SIZE-1
  BY DEF TypeOK, Buffered, Indices, UartAssumption

\* A buffer that is not full has at least two slots free.
LEMMA NotFull ==
    ASSUME UartAssumption
    PROVE  TypeOK /\ ~Full => Buffered + 1 \in 1..UART_RX_BUF_SIZE-1
  BY SuccValue DEF TypeOK, Full, Buffered, Indices, UartAssumption

-----------------------------------------------------------------------------
\* A shell that waits has left no token.
IInv == /\ TypeOK
        /\ TokensCountBytes
        /\ reader = "waiting" => value = 0

LEMMA InitIInv == ASSUME UartAssumption PROVE Init => IInv
  BY DEF Init, IInv, TypeOK, TokensCountBytes, Buffered, Indices, UartAssumption

LEMMA UartIsrBuffered ==
    ASSUME UartAssumption, TypeOK, Paced, NEW b \in Bytes, UartIsr(b)
    PROVE  Buffered' = Buffered + 1
<1>1. /\ UART_RX_BUF_SIZE \in Nat
      /\ read_idx \in 0..UART_RX_BUF_SIZE-1 /\ write_idx \in 0..UART_RX_BUF_SIZE-1
  BY DEF TypeOK, Indices, UartAssumption
<1>2. ~Full /\ write_idx' = Succ(write_idx) /\ read_idx' = read_idx
  BY DEF UartIsr, Put
<1>3. write_idx' = IF write_idx + 1 = UART_RX_BUF_SIZE THEN 0 ELSE write_idx + 1
  BY <1>1, <1>2, SuccValue DEF Indices
<1>4. read_idx # write_idx'
  BY <1>2 DEF Full
<1> QED
  BY <1>1, <1>2, <1>3, <1>4 DEF Buffered

LEMMA AdvanceBuffered ==
    ASSUME UartAssumption, IInv, Advance PROVE Buffered > 0 /\ Buffered' = Buffered - 1
  BY SuccValue
  DEF Advance, IInv, TypeOK, TokensCountBytes, Buffered, Indices, UartAssumption

LEMMA UartIsrIInv ==
    ASSUME UartAssumption, Paced, NEW b \in Bytes
    PROVE  IInv /\ UartIsr(b) => IInv'
<1> SUFFICES ASSUME IInv, UartIsr(b) PROVE IInv'
  OBVIOUS
<1>1. ~Full
  BY DEF UartIsr
<1>2. /\ buf' = [buf EXCEPT ![write_idx] = b]
      /\ write_idx' = Succ(write_idx) /\ read_idx' = read_idx
      /\ UNCHANGED <<c, got>>
  BY <1>1 DEF UartIsr, Put
<1>3. Buffered' = Buffered + 1
  BY UartIsrBuffered DEF IInv
<1>4. /\ value' \in 0..ValueMod-1
      /\ reader' \in {"idle", "waiting", "read", "advance"}
      /\ TokensCountBytes'
      /\ reader' = "waiting" => value' = 0
  <2>1. Buffered + 1 \in 1..UART_RX_BUF_SIZE-1
    BY <1>1, NotFull DEF IInv
  <2>2. CASE reader = "waiting"
    BY <2>2, <1>3 DEF UartIsr, Release, IInv, TypeOK, TokensCountBytes
  <2>3. CASE reader # "waiting"
    <3>1. value + 1 \in Nat /\ value + 1 < ValueMod
      BY <2>1 DEF IInv, TypeOK, TokensCountBytes, UartAssumption
    <3>2. value' = value + 1 /\ reader' = reader
      BY <2>3, <3>1, SmallRemainder DEF UartIsr, Release, UartAssumption
    <3>3. value' \in 0..ValueMod-1
      BY <3>1, <3>2 DEF UartAssumption
    <3>4. TokensCountBytes'
      BY <1>3, <3>2 DEF IInv, TypeOK, TokensCountBytes
    <3> QED
      BY <2>3, <3>2, <3>3, <3>4 DEF IInv, TypeOK
  <2> QED
    BY <2>2, <2>3
<1>5. TypeOK'
  BY <1>2, <1>4, SuccIsIndex DEF IInv, TypeOK
<1> QED
  BY <1>4, <1>5 DEF IInv

LEMMA GetcharIInv == ASSUME UartAssumption PROVE IInv /\ Getchar => IInv'
<1> SUFFICES ASSUME IInv, Getchar PROVE IInv'
  OBVIOUS
<1>1. CASE Take
  BY <1>1 DEF Take, IInv, TypeOK, TokensCountBytes, Buffered, UartAssumption
<1>2. CASE Read
  BY <1>2 DEF Read, IInv, TypeOK, TokensCountBytes, Buffered
<1>3. CASE Advance
  <2>1. Buffered > 0 /\ Buffered' = Buffered - 1
    BY <1>3, AdvanceBuffered
  <2>2. TypeOK'
    BY <1>3, SuccIsIndex DEF Advance, IInv, TypeOK
  <2> QED
    BY <1>3, <2>1, <2>2 DEF Advance, IInv, TypeOK, TokensCountBytes
<1> QED
  BY <1>1, <1>2, <1>3 DEF Getchar

LEMMA NextIInv ==
    ASSUME UartAssumption, Paced PROVE IInv /\ [Next]_vars => IInv'
<1> SUFFICES ASSUME IInv, [Next]_vars PROVE IInv'
  OBVIOUS
<1>1. CASE Getchar
  BY <1>1, GetcharIInv
<1>2. ASSUME NEW b \in Bytes, UartIsr(b) PROVE IInv'
  BY <1>2, UartIsrIInv
<1>3. CASE UNCHANGED vars
  BY <1>3 DEF vars, IInv, TypeOK, TokensCountBytes, Buffered
<1> QED
  BY <1>1, <1>2, <1>3 DEF Next

LEMMA Inductive ==
    ASSUME UartAssumption, Paced PROVE Spec => []IInv
<1>1. Init => IInv
  BY InitIInv
<1>2. IInv /\ [Next]_vars => IInv'
  BY NextIInv
<1> QED
  BY <1>1, <1>2, PTL DEF Spec

-----------------------------------------------------------------------------
\* The state of the reception stays well-typed for any size of the buffer.
THEOREM TypeCorrect ==
    ASSUME UartAssumption, Paced PROVE Spec => []TypeOK
  BY Inductive, PTL DEF IInv

\* The tokens are the bytes, for any size of the buffer and any bytes.
THEOREM TokensCountBytesHolds ==
    ASSUME UartAssumption, Paced PROVE Spec => []TokensCountBytes
  BY Inductive, PTL DEF IInv

\* The shell never gets a slot that holds no byte, and never waits while the
\* buffer holds one.
THEOREM WokenForAByteHolds ==
    ASSUME UartAssumption, Paced PROVE Spec => []WokenForAByte
<1>1. IInv => WokenForAByte
  BY DEF IInv, TypeOK, TokensCountBytes, WokenForAByte
<1> QED
  BY <1>1, Inductive, PTL

-----------------------------------------------------------------------------
(* The reception implements the channel.                                   *)

\* The byte the shell has read is still in its slot.
ReadIsKept == reader = "advance" => c = buf[read_idx]

LEMMA ReadIsKeptHolds ==
    ASSUME UartAssumption, Paced PROVE Spec => []ReadIsKept
<1>1. Init => ReadIsKept
  BY DEF Init, ReadIsKept
<1>2. IInv /\ ReadIsKept /\ [Next]_vars => ReadIsKept'
  <2> SUFFICES ASSUME IInv, ReadIsKept, [Next]_vars PROVE ReadIsKept'
    OBVIOUS
  <2>1. CASE Getchar
    BY <2>1 DEF Getchar, Take, Read, Advance, ReadIsKept
  <2>2. ASSUME NEW b \in Bytes, UartIsr(b) PROVE ReadIsKept'
    <3> SUFFICES ASSUME reader' = "advance" PROVE c' = buf'[read_idx']
      BY DEF ReadIsKept
    <3>1. reader = "advance" /\ c' = c /\ read_idx' = read_idx
      BY <2>2 DEF UartIsr, Release, IInv, TypeOK
    <3>2. Buffered > 0
      BY <3>1 DEF IInv, TypeOK, TokensCountBytes, UartAssumption
    <3>3. write_idx # read_idx
      BY <3>2 DEF Buffered, IInv, TypeOK, Indices
    <3>4. buf'[read_idx] = buf[read_idx]
      BY <2>2, <3>3 DEF UartIsr, Put, IInv, TypeOK
    <3> QED
      BY <3>1, <3>4 DEF ReadIsKept
  <2>3. CASE UNCHANGED vars
    BY <2>3 DEF vars, ReadIsKept
  <2> QED
    BY <2>1, <2>2, <2>3 DEF Next
<1> QED
  BY <1>1, <1>2, Inductive, PTL DEF Spec

LEMMA PendingValue ==
    ASSUME UartAssumption, IInv
    PROVE  /\ Pending = [k \in 1..Buffered |-> buf[Slot(k)]]
           /\ Pending \in Seq(Bytes \cup {NoByte})
           /\ Len(Pending) = Buffered
<1>1. Buffered \in 0..UART_RX_BUF_SIZE-1 /\ Buffered \in Nat
  BY BufferedRange DEF IInv, UartAssumption
<1>2. Pending = [k \in 1..Buffered |-> buf[Slot(k)]]
  BY DEF Pending, Slot
<1>3. \A k \in 1..Buffered : Slot(k) \in Indices
  BY <1>1, SlotValue DEF IInv, TypeOK, Indices, UartAssumption
<1>4. Pending \in [1..Buffered -> Bytes \cup {NoByte}]
  BY <1>2, <1>3 DEF IInv, TypeOK
<1> QED
  BY <1>1, <1>2, <1>4

PendingOK == Pending \in Seq(Bytes \cup {NoByte}) /\ Len(Pending) = Buffered

LEMMA PendingPrimed == ASSUME UartAssumption PROVE (IInv => PendingOK)'
<1>1. IInv => PendingOK
  BY PendingValue DEF PendingOK
<1> QED
  BY <1>1, PTL

\* A byte that is put is the last one of the channel.
LEMMA PutAppends ==
    ASSUME UartAssumption, IInv, IInv', Paced, NEW b \in Bytes, UartIsr(b)
    PROVE  Pending' = Append(Pending, b)
<1>1. ~Full /\ read_idx' = read_idx /\ buf' = [buf EXCEPT ![write_idx] = b]
  BY DEF UartIsr, Put
<1>2. Buffered \in Nat /\ Buffered + 1 \in 1..UART_RX_BUF_SIZE-1
  BY <1>1, NotFull, BufferedRange DEF IInv, UartAssumption
<1>3. Buffered' = Buffered + 1
  BY UartIsrBuffered DEF IInv
<1>4. Pending' = [k \in 1..Buffered + 1 |-> buf'[Slot(k)]]
  BY <1>1, <1>3 DEF Pending, Slot
<1>5. ASSUME NEW k \in 1..Buffered
      PROVE  Slot(k) \in Indices /\ Slot(k) # write_idx
  <2>1. k \in 1..UART_RX_BUF_SIZE /\ read_idx \in Indices /\ write_idx \in Indices
    BY <1>2 DEF IInv, TypeOK, UartAssumption
  <2> QED
    BY <1>2, <2>1, SlotValue DEF Buffered, Indices, UartAssumption
<1>6. Slot(Buffered + 1) = write_idx
  <2>1. /\ Buffered + 1 \in 1..UART_RX_BUF_SIZE
        /\ read_idx \in Indices /\ write_idx \in Indices
    BY <1>2 DEF IInv, TypeOK, UartAssumption
  <2>2. Slot(Buffered + 1) = IF read_idx + Buffered < UART_RX_BUF_SIZE
                             THEN read_idx + Buffered
                             ELSE read_idx + Buffered - UART_RX_BUF_SIZE
    BY <1>2, <2>1, SlotValue DEF Indices
  <2> QED
    BY <2>1, <2>2 DEF Buffered, Indices, UartAssumption
<1>7. \A k \in 1..Buffered + 1 :
          buf'[Slot(k)] = IF k = Buffered + 1 THEN b ELSE buf[Slot(k)]
  BY <1>1, <1>2, <1>5, <1>6 DEF IInv, TypeOK
<1>8. /\ Append(Pending, b) \in Seq(Bytes \cup {NoByte})
      /\ Len(Append(Pending, b)) = Buffered + 1
      /\ \A k \in 1..Buffered + 1 : Append(Pending, b)[k]
             = IF k = Buffered + 1 THEN b ELSE buf[Slot(k)]
  <2>1. b \in Bytes \cup {NoByte}
    OBVIOUS
  <2>2. \A k \in 1..Buffered : Pending[k] = buf[Slot(k)]
    BY <1>2, PendingValue
  <2> QED
    BY <1>2, <2>1, <2>2, PendingValue, AppendProperties
<1>9. /\ Pending' \in Seq(Bytes \cup {NoByte})
      /\ Len(Pending') = Buffered + 1
  BY <1>3, PendingPrimed DEF PendingOK
<1>10. \A k \in 1..Buffered + 1 : Pending'[k] = Append(Pending, b)[k]
  BY <1>4, <1>7, <1>8
<1> QED
  BY <1>8, <1>9, <1>10, SeqEqual

\* A byte that is taken was the first one.
LEMMA AdvanceTakesHead ==
    ASSUME UartAssumption, IInv, IInv', ReadIsKept, Advance
    PROVE  Pending # <<>> /\ got' = Head(Pending) /\ Pending' = Tail(Pending)
<1>1. /\ read_idx' = Succ(read_idx) /\ got' = buf[read_idx]
      /\ buf' = buf /\ write_idx' = write_idx
  BY DEF Advance, ReadIsKept
<1>2. Buffered \in 1..UART_RX_BUF_SIZE-1 /\ Buffered' = Buffered - 1
  BY AdvanceBuffered, BufferedRange DEF IInv
<1>3. read_idx \in Indices
  BY DEF IInv, TypeOK
<1>4. Slot(1) = read_idx
  BY <1>3, SlotValue DEF Indices, UartAssumption
<1>5. Pending # <<>> /\ Head(Pending) = buf[read_idx]
  BY <1>2, <1>4, PendingValue
<1>6. \A k \in 1..Buffered - 1 : Slot(k)' = Slot(k + 1)
  <2> TAKE k \in 1..Buffered - 1
  <2>1. k \in 1..UART_RX_BUF_SIZE /\ k + 1 \in 1..UART_RX_BUF_SIZE
    BY <1>2 DEF UartAssumption
  <2>2. read_idx' \in Indices
    BY <1>1, <1>3, SuccIsIndex
  <2>3. Slot(k)' = IF read_idx' + k - 1 < UART_RX_BUF_SIZE THEN read_idx' + k - 1
                   ELSE read_idx' + k - 1 - UART_RX_BUF_SIZE
    BY <2>1, <2>2, WrapValue DEF Slot
  <2>4. Slot(k + 1) = IF read_idx + k < UART_RX_BUF_SIZE THEN read_idx + k
                      ELSE read_idx + k - UART_RX_BUF_SIZE
    BY <1>3, <2>1, SlotValue DEF Indices
  <2> QED
    BY <1>1, <1>3, <2>1, <2>3, <2>4, SuccValue DEF Indices, UartAssumption
<1>7. Pending' = [k \in 1..Buffered - 1 |-> buf[Slot(k)']]
  BY <1>1, <1>2 DEF Pending, Slot
<1>8. /\ Tail(Pending) \in Seq(Bytes \cup {NoByte})
      /\ Len(Tail(Pending)) = Buffered - 1
      /\ \A k \in 1..Buffered - 1 : Tail(Pending)[k] = buf[Slot(k + 1)]
  <2>1. \A k \in 1..Buffered - 1 : Pending[k + 1] = buf[Slot(k + 1)]
    BY <1>2, PendingValue
  <2> QED
    BY <1>2, <1>5, <2>1, PendingValue, HeadTailProperties
<1>9. /\ Pending' \in Seq(Bytes \cup {NoByte})
      /\ Len(Pending') = Buffered - 1
  BY <1>2, PendingPrimed DEF PendingOK
<1>10. \A k \in 1..Buffered - 1 : Pending'[k] = Tail(Pending)[k]
  BY <1>6, <1>7, <1>8
<1>11. Pending' = Tail(Pending)
  BY <1>8, <1>9, <1>10, SeqEqual
<1> QED
  BY <1>1, <1>5, <1>11

\* Every step of the reception is a step of the channel, or none, for any size of
\* the buffer; what has arrived is returned by the fairness, which TLC checks.
THEOREM ImplementsChannel ==
    ASSUME UartAssumption, Paced
    PROVE  Spec => Channel!Init /\ [][Channel!Next]_<<Pending, got>>
<1>1. Init => Channel!Init
  <2> SUFFICES ASSUME Init PROVE Channel!Init
    OBVIOUS
  <2>1. IInv /\ Buffered = 0
    BY InitIInv DEF Init, Buffered
  <2> QED
    BY <2>1, PendingValue DEF Init, Channel!Init
<1>2. IInv /\ IInv' /\ ReadIsKept /\ [Next]_vars
        => [Channel!Next]_<<Pending, got>>
  <2> SUFFICES ASSUME IInv, IInv', ReadIsKept, [Next]_vars
               PROVE  [Channel!Next]_<<Pending, got>>
    OBVIOUS
  <2>1. CASE Take \/ Read \/ UNCHANGED vars
    BY <2>1 DEF Take, Read, vars, Pending, Buffered
  <2>2. CASE Advance
    BY <2>2, AdvanceTakesHead DEF Channel!Next, Channel!Get
  <2>3. ASSUME NEW b \in Bytes, UartIsr(b) PROVE Channel!Next
    <3>1. Pending' = Append(Pending, b) /\ got' = got
      BY <2>3, PutAppends DEF UartIsr
    <3>2. Len(Pending) < UART_RX_BUF_SIZE - 1
      BY <2>3, NotFull, BufferedRange, PendingValue
      DEF UartIsr, IInv, UartAssumption
    <3> QED
      BY <3>1, <3>2 DEF Channel!Next, Channel!Put
  <2> QED
    BY <2>1, <2>2, <2>3 DEF Next, Getchar
<1> QED
  BY <1>1, <1>2, Inductive, ReadIsKeptHolds, PTL DEF Spec
=============================================================================
