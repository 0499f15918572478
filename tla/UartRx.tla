------------------------------- MODULE UartRx -------------------------------
(***************************************************************************)
(* Interrupt-driven reception of bsp/uart_irq.c: the ISR puts the byte it  *)
(* reads in a ring buffer and releases a semaphore; the shell's thread     *)
(* takes the semaphore and gets a byte.                                    *)
(*                                                                         *)
(* The semaphore is the one of module Semaphore with its only waiter, the  *)
(* shell: its masked sections are single steps.  The ISR is one step, for  *)
(* it runs with interrupts masked; rb_get runs with interrupts open.       *)
(***************************************************************************)
EXTENDS Integers, Sequences

CONSTANTS
    Bytes,
    NoByte,
    UART_RX_BUF_SIZE,
    Paced,       \* TRUE: no byte comes while the ring buffer is full
    ValueMod     \* 65536: the value of the semaphore is an rt_uint16_t

UartAssumption ==
    /\ NoByte \notin Bytes
    /\ UART_RX_BUF_SIZE \in Nat /\ UART_RX_BUF_SIZE >= 2
    /\ Paced \in BOOLEAN
    /\ ValueMod \in Nat /\ ValueMod >= UART_RX_BUF_SIZE

Indices == 0..UART_RX_BUF_SIZE-1

VARIABLES
    buf, read_idx, write_idx,   \* g_uart_rx
    value,                      \* g_uart_rx_sem.value
    reader,                     \* where the shell is in rt_hw_console_getchar
    c,                          \* the local variable of rb_get
    got                         \* what rt_hw_console_getchar returned last

vars == <<buf, read_idx, write_idx, value, reader, c, got>>

\* uart_irq_init: the indices are the zeroes of static storage.
Init ==
    /\ buf = [i \in Indices |-> NoByte]
    /\ read_idx = 0 /\ write_idx = 0
    /\ value = 0
    /\ reader = "idle" /\ c = NoByte /\ got = NoByte

Succ(i) == (i + 1) % UART_RX_BUF_SIZE

Full == read_idx = Succ(write_idx)

\* Mutant: the index is advanced before the byte is stored.
PutEarly(b) ==
    IF Full THEN UNCHANGED <<buf, write_idx>>
    ELSE buf' = [buf EXCEPT ![Succ(write_idx)] = b] /\ write_idx' = Succ(write_idx)

\* rb_put: a byte that finds the buffer full is dropped.
Put(b) ==
    IF Full THEN UNCHANGED <<buf, write_idx>>
    ELSE buf' = [buf EXCEPT ![write_idx] = b] /\ write_idx' = Succ(write_idx)

\* Mutants: the shell gets the token and the value grows; it is not woken.
ReleaseTwice ==
    /\ reader' = IF reader = "waiting" THEN "read" ELSE reader
    /\ value' = (value + 1) % ValueMod
ReleaseToNobody == value' = (value + 1) % ValueMod /\ UNCHANGED reader

\* rt_sem_release: the waiting shell is resumed and has the token, or the value
\* grows.
Release ==
    IF reader = "waiting"
    THEN reader' = "read" /\ UNCHANGED value
    ELSE value' = (value + 1) % ValueMod /\ UNCHANGED reader

\* uart_isr with a byte in RBR (without one it does nothing).
UartIsr(b) ==
    /\ Paced => ~Full
    /\ Put(b)
    /\ Release
    /\ UNCHANGED <<read_idx, c, got>>

\* rt_hw_console_getchar: rt_sem_take for ever, ...
Take ==
    /\ reader = "idle"
    /\ IF value > 0 THEN value' = value - 1 /\ reader' = "read"
                    ELSE reader' = "waiting" /\ UNCHANGED value
    /\ UNCHANGED <<buf, read_idx, write_idx, c, got>>

\* ... then rb_get, which reads the byte ...
Read ==
    /\ reader = "read"
    /\ c' = buf[read_idx] /\ reader' = "advance"
    /\ UNCHANGED <<buf, read_idx, write_idx, value, got>>

\* ... and advances the index.
Advance ==
    /\ reader = "advance"
    /\ read_idx' = Succ(read_idx) /\ got' = c /\ reader' = "idle"
    /\ UNCHANGED <<buf, write_idx, value, c>>

Getchar == Take \/ Read \/ Advance

Next == Getchar \/ \E b \in Bytes : UartIsr(b)

\* The shell runs whenever it is ready, in the end.
Spec == Init /\ [][Next]_vars /\ WF_vars(Getchar)

-----------------------------------------------------------------------------
(* Properties.                                                             *)

TypeOK ==
    /\ buf \in [Indices -> Bytes \cup {NoByte}]
    /\ read_idx \in Indices /\ write_idx \in Indices
    /\ value \in 0..ValueMod-1
    /\ reader \in {"idle", "waiting", "read", "advance"}
    /\ c \in Bytes \cup {NoByte} /\ got \in Bytes \cup {NoByte}

\* The bytes in the ring buffer, from the read to the write index.
Buffered == IF write_idx >= read_idx THEN write_idx - read_idx
            ELSE write_idx - read_idx + UART_RX_BUF_SIZE

\* The tokens of the semaphore, one of them perhaps with the shell, are the bytes
\* of the buffer: "the value 0 means that the buffer is empty" (uart_irq_init).
TokensCountBytes ==
    Buffered = value + (IF reader \in {"read", "advance"} THEN 1 ELSE 0)

\* The shell is woken to take a byte out of the buffer (the head comment): it
\* never reads a slot no byte is in, and never waits while there are bytes.
WokenForAByte ==
    /\ reader \in {"read", "advance"} => Buffered > 0
    /\ reader = "waiting" => Buffered = 0

\* The ring buffer implements a FIFO channel: nothing is lost, invented, repeated
\* or reordered, and what has arrived is returned.
Pending == [k \in 1..Buffered |-> buf[(read_idx + k - 1) % UART_RX_BUF_SIZE]]

Channel == INSTANCE ByteChannel WITH
    queue <- Pending, Capacity <- UART_RX_BUF_SIZE - 1

IsChannel == Channel!Spec
=============================================================================
