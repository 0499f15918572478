------------------------------ MODULE Interrupts ------------------------------
(* The interrupts rt_hw_trap_handler tells apart by mcause: those of the      *)
(* machine timer, whose handler sets the next one (ClintTimer) and checks the *)
(* timers of the kernel (Timer), and the external ones of the PLIC (Plic), of *)
(* which the one the board installs is the UART's (UartRx).                   *)
(* The parts share nothing but the hart, and an interrupt is late while the   *)
(* hart handles another or has interrupts masked: each part takes one any     *)
(* time after it is asked for, and a behaviour here is one of a part.         *)
EXTENDS Integers, FiniteSets

CONSTANTS
    Word, TICK_CYCLES, StartTimes, MaxTime, Untorn,
    Sources, Drivers, SourceOf, MaxRequests,
    Bytes, NoByte, UART_RX_BUF_SIZE, Paced, ValueMod,
    Timers, Callers, Uses, Restarts, Periodic, Times, TickMod, MaxLate

VARIABLES
    part,                     \* "clint", "plic", "uart" or "timers"
    mtime, cmp_lo, cmp_hi, lo, hi, access, start, ticks,
    enable, priority, pending, claimed, line, on, requests,
    irq_desc_table, pc, current, trap, source,
    buf, read_idx, write_idx, value, reader, byte, got,
    rt_tick, rt_timer_list, live, timeout_tick, init_tick, activated, periodic,
    step, isr, left

Clint    == INSTANCE ClintTimer WITH pc <- access
External == INSTANCE Plic
Uart     == INSTANCE UartRx WITH c <- byte
Kernel   == INSTANCE Timer WITH pc <- step

ASSUME InterruptsAssumption ==
    /\ Clint!ClintAssumption /\ External!PlicAssumption
    /\ Uart!UartAssumption /\ Kernel!TimerAssumption

clint    == <<mtime, cmp_lo, cmp_hi, lo, hi, access, start, ticks>>
external == <<enable, priority, pending, claimed, line, on, requests,
              irq_desc_table, pc, current, trap, source>>
uart     == <<buf, read_idx, write_idx, value, reader, byte, got>>
kernel   == <<rt_tick, rt_timer_list, live, timeout_tick, init_tick, activated,
              periodic, step, isr, left>>
vars     == <<part, clint, external, uart, kernel>>

\* The parts that a behaviour is not about begin in one way only.
Init ==
    /\ part \in {"clint", "plic", "uart", "timers"}
    /\ Clint!Init /\ External!Init /\ Uart!Init /\ Kernel!Init
    /\ part # "clint" =>
          mtime = (CHOOSE m \in StartTimes : TRUE) /\ cmp_lo = 0 /\ cmp_hi = 0
    /\ part # "timers" =>
          init_tick = [t \in Timers |-> CHOOSE n \in Times : TRUE]

Next ==
    /\ UNCHANGED part
    /\ \/ part = "clint" /\ Clint!Next /\ UNCHANGED <<external, uart, kernel>>
       \/ part = "plic" /\ External!Next /\ UNCHANGED <<clint, uart, kernel>>
       \/ part = "uart" /\ Uart!Next /\ UNCHANGED <<clint, external, kernel>>
       \/ part = "timers" /\ Kernel!Next /\ UNCHANGED <<clint, external, uart>>

Dispatch == External!Dispatch /\ UNCHANGED <<part, clint, uart, kernel>>
Getchar  == Uart!Getchar /\ UNCHANGED <<part, clint, external, kernel>>
Check    == Kernel!Check /\ UNCHANGED <<part, clint, external, uart>>

\* The hart takes the interrupts it is asked to take, and goes on in a handler;
\* the shell runs whenever it is ready, in the end.
Spec == /\ Init /\ [][Next]_vars
        /\ WF_vars(part = "plic" /\ Dispatch)
        /\ WF_vars(part = "uart" /\ Getchar)
        /\ WF_vars(part = "timers" /\ Check)

-----------------------------------------------------------------------------
(* Properties.                                                             *)

\* The tick never runs ahead of the time, for all that mtimecmp is written in
\* halves, and the next one is never more than TICK_CYCLES away.
TicksAreOnTime == Clint!NeverAhead /\ Clint!NextTickIsNear

\* A driver that masks its source "destroys no other bits" of the enable register,
\* say the notes.
OtherBitsAreKept == External!OtherBitsAreKept

\* A source that stays unmasked is served again and again.
RequestsAreServed == part = "plic" => External!RequestsAreServed

\* The tokens of the semaphore are the bytes in the ring buffer.
TokensCountBytes == Uart!TokensCountBytes

\* The shell is woken to take a byte out of the buffer, and finds one.
WokenForAByte == Uart!WokenForAByte

\* What the ring buffer and the semaphore do is a FIFO channel.
IsChannel == Uart!IsChannel

\* The list of timers is in the order in which they are due.
InOrderOfTimeout == Kernel!InOrderOfTimeout

\* The flag of a timer tells whether it is in the list, where none is twice and
\* none that was deleted.
ListIsExact == Kernel!ListIsExact

\* rt_timer_check calls every timer in the tick it is due in.
OnTime == Kernel!OnTime

=============================================================================
