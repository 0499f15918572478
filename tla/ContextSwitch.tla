--------------------------- MODULE ContextSwitch ---------------------------
(***************************************************************************)
(* How the port moves the hart from thread to thread: the trap entry and   *)
(* exit of trap_entry.S, the switches of context_gcc.S, the flag and the   *)
(* two pointers with which an interrupt handler asks for a switch          *)
(* (cpuport.c), and the frame a new thread starts from.                    *)
(*                                                                         *)
(* A stack position is <<stack, frames below it>>.  The general registers  *)
(* are one value, the context of the computation they belong to.  Of       *)
(* mstatus the bits MIE and MPIE are kept.                                 *)
(***************************************************************************)
EXTENDS Integers, Sequences

CONSTANTS
    Threads,
    System,      \* the stack below __stack_top, which traps run on
    NoFrame,     \* memory no frame was stored in
    NoContext,   \* the registers while a trap handler uses them
    MaxMask      \* bound on the nesting of masked sections

ASSUME SwitchAssumption ==
    /\ System \notin Threads
    /\ MaxMask \in Nat

Stacks == Threads \cup {System}
Bits   == [mie : BOOLEAN, mpie : BOOLEAN]

\* Where a thread is: in its own code, in a masked section, or just back from
\* rt_hw_context_switch in rt_schedule; the values of mstatus its open masked
\* sections will write back; n stands for all it computes.
Contexts == [thread : Threads, at : {"app", "masked", "switched"},
             levels : Seq(Bits), n : 0..1]

Frames == [regs : Contexts, mpie : BOOLEAN]

StackTop == <<System, 0>>
Below(pos) == <<pos[1], pos[2] + 1>>   \* addi sp, sp, -32 * REGBYTES

\* Mutant: the frame is not popped.
AboveNot(pos) == pos
Above(pos) == <<pos[1], pos[2] - 1>>   \* addi sp, sp,  32 * REGBYTES

VARIABLES
    mode,          \* "boot", "thread" or "handler"
    regs,          \* the general registers and the pc
    sp, mscratch,
    mstatus,
    mem,           \* the frames on the stacks
    thread_sp,     \* thread->sp
    rt_current_thread,
    rt_thread_switch_interrupt_flag,
    rt_interrupt_from_thread,
    rt_interrupt_to_thread,
    last           \* history: what each thread's registers were when it stopped

request == <<rt_thread_switch_interrupt_flag, rt_interrupt_from_thread,
             rt_interrupt_to_thread>>
vars == <<mode, regs, sp, mscratch, mstatus, mem, thread_sp, rt_current_thread,
          request, last>>

Entry(t) == [thread |-> t, at |-> "app", levels |-> <<>>, n |-> 0]

\* rt_hw_stack_init: the first frame of a thread, with MPIE set.
FirstFrame(t) == [regs |-> Entry(t), mpie |-> TRUE]

Init ==
    /\ mode = "boot"
    /\ regs = NoContext
    /\ sp = Below(StackTop)
    /\ mscratch = StackTop              \* start.S
    /\ mstatus \in [mie : {FALSE}, mpie : BOOLEAN]
    /\ mem = [pos \in Stacks \X (0..2) |->
                IF pos[1] \in Threads /\ pos[2] = 1 THEN FirstFrame(pos[1]) ELSE NoFrame]
    /\ thread_sp = [t \in Threads |-> <<t, 1>>]
    /\ rt_current_thread \in Threads
    /\ rt_thread_switch_interrupt_flag = FALSE
    /\ rt_interrupt_from_thread \in Threads   \* 0 in the code, and not read
    /\ rt_interrupt_to_thread \in Threads
    /\ last = [t \in Threads |-> Entry(t)]

-----------------------------------------------------------------------------
\* rt_hw_context_switch_exit from the frame at pos, when mstatus is bits: csrs
\* sets MPIE if the frame has it set, and never clears it; mret copies MPIE to
\* MIE and sets MPIE.
SwitchExit(pos, bits, memory) ==
    /\ mode' = "thread"
    /\ regs' = memory[pos].regs
    /\ sp' = Above(pos)
    /\ mstatus' = [mie |-> bits.mpie \/ memory[pos].mpie, mpie |-> TRUE]

\* rt_hw_context_switch_to, at the end of rt_system_scheduler_start.
SwitchTo ==
    /\ mode = "boot"
    /\ LET pos == thread_sp[rt_current_thread]
       IN SwitchExit(pos, [mie |-> FALSE, mpie |-> mem[pos].mpie], mem)
    /\ UNCHANGED <<mscratch, mem, thread_sp, rt_current_thread, request, last>>

\* A thread computes.
Work ==
    /\ mode = "thread" /\ regs.at # "switched"
    /\ regs' = [regs EXCEPT !.n = 1 - @]
    /\ last' = [last EXCEPT ![rt_current_thread] = regs']
    /\ UNCHANGED <<mode, sp, mscratch, mstatus, mem, thread_sp,
                   rt_current_thread, request>>

\* rt_hw_interrupt_disable: csrrci.
InterruptDisable ==
    /\ mode = "thread" /\ regs.at # "switched" /\ Len(regs.levels) < MaxMask
    /\ regs' = [regs EXCEPT !.at = "masked", !.levels = Append(@, mstatus)]
    /\ mstatus' = [mstatus EXCEPT !.mie = FALSE]
    /\ last' = [last EXCEPT ![rt_current_thread] = regs']
    /\ UNCHANGED <<mode, sp, mscratch, mem, thread_sp, rt_current_thread, request>>

\* Mutant: interrupts are unmasked, whatever the level (csrsi).
InterruptEnableAlways ==
    /\ mode = "thread" /\ regs.at # "app"
    /\ LET n == Len(regs.levels)
       IN regs' = [regs EXCEPT !.at = IF n = 1 THEN "app" ELSE "masked",
                               !.levels = SubSeq(@, 1, n - 1)]
    /\ mstatus' = [mstatus EXCEPT !.mie = TRUE]
    /\ last' = [last EXCEPT ![rt_current_thread] = regs']
    /\ UNCHANGED <<mode, sp, mscratch, mem, thread_sp, rt_current_thread, request>>

\* rt_hw_interrupt_enable of the last level: csrw.
InterruptEnable ==
    /\ mode = "thread" /\ regs.at # "app"
    /\ LET n == Len(regs.levels) IN
       /\ regs' = [regs EXCEPT !.at = IF n = 1 THEN "app" ELSE "masked",
                               !.levels = SubSeq(@, 1, n - 1)]
       /\ mstatus' = regs.levels[n]
    /\ last' = [last EXCEPT ![rt_current_thread] = regs']
    /\ UNCHANGED <<mode, sp, mscratch, mem, thread_sp, rt_current_thread, request>>

\* rt_schedule in a thread chooses another one: rt_hw_context_switch stores the
\* frame of the one below sp, with MIE as the frame's MPIE, and leaves through
\* the frame of the other.
Switch(to) ==
    /\ mode = "thread" /\ regs.at = "masked" /\ to # rt_current_thread
    /\ LET pos    == Below(sp)
           saved  == [regs EXCEPT !.at = "switched"]
           memory == [mem EXCEPT ![pos] = [regs |-> saved, mpie |-> mstatus.mie]]
       IN /\ thread_sp' = [thread_sp EXCEPT ![rt_current_thread] = pos]
          /\ mem' = memory
          /\ last' = [last EXCEPT ![rt_current_thread] = saved]
          /\ SwitchExit(thread_sp[to], mstatus, memory)
    /\ rt_current_thread' = to
    /\ UNCHANGED <<mscratch, request>>

\* rt_thread_create or rt_thread_init builds the first frame of a thread, which
\* may be one that has ended.
StackInit(t) ==
    /\ mode = "thread" /\ t # rt_current_thread
    /\ mem' = [mem EXCEPT ![<<t, 1>>] = FirstFrame(t)]
    /\ thread_sp' = [thread_sp EXCEPT ![t] = <<t, 1>>]
    /\ last' = [last EXCEPT ![t] = Entry(t)]
    /\ UNCHANGED <<mode, regs, sp, mscratch, mstatus, rt_current_thread, request>>

-----------------------------------------------------------------------------
\* The trap and trap_entry up to the call of rt_hw_trap_handler: sp and mscratch
\* change places and the registers are stored on the system stack.
TrapEntry ==
    /\ mode = "thread" /\ mstatus.mie
    /\ mode' = "handler"
    /\ sp' = Below(mscratch)
    /\ mscratch' = sp
    /\ mem' = [mem EXCEPT ![Below(mscratch)] = [regs |-> regs, mpie |-> mstatus.mie]]
    /\ regs' = NoContext
    /\ mstatus' = [mie |-> FALSE, mpie |-> mstatus.mie]
    /\ UNCHANGED <<thread_sp, rt_current_thread, request, last>>

\* Mutant: the thread of the last call, not of the first.
FromThreadLast == rt_current_thread

\* rt_hw_context_switch_interrupt keeps the first from and the last to.
FromThread == IF rt_thread_switch_interrupt_flag
              THEN rt_interrupt_from_thread ELSE rt_current_thread

\* rt_schedule in a handler, as often as the handler wakes threads.
SwitchInterrupt(to) ==
    /\ mode = "handler" /\ to # rt_current_thread
    /\ rt_interrupt_from_thread' = FromThread
    /\ rt_interrupt_to_thread' = to
    /\ rt_thread_switch_interrupt_flag' = TRUE
    /\ rt_current_thread' = to
    /\ UNCHANGED <<mode, regs, sp, mscratch, mstatus, mem, thread_sp, last>>

\* rt_hw_interrupt_exit: no switch was asked for.
InterruptExit ==
    /\ mode = "handler" /\ ~rt_thread_switch_interrupt_flag
    /\ mode' = "thread"
    /\ regs' = mem[sp].regs
    /\ mstatus' = [mie |-> mstatus.mpie \/ mem[sp].mpie, mpie |-> TRUE]
    /\ sp' = mscratch
    /\ mscratch' = Above(sp)
    /\ UNCHANGED <<mem, thread_sp, rt_current_thread, request, last>>

\* A switch was: the frame is copied below the interrupted thread's sp, mscratch
\* is the top of the system stack again, and the hart leaves through the frame
\* of the thread to run.
SwitchExitFromTrap ==
    /\ mode = "handler" /\ rt_thread_switch_interrupt_flag
    /\ LET pos    == Below(mscratch)
           memory == [mem EXCEPT ![pos] = mem[sp]]
           saved  == [thread_sp EXCEPT ![rt_interrupt_from_thread] = pos]
       IN /\ mem' = memory
          /\ thread_sp' = saved
          /\ SwitchExit(saved[rt_interrupt_to_thread], mstatus, memory)
    /\ rt_thread_switch_interrupt_flag' = FALSE
    /\ mscratch' = StackTop
    /\ UNCHANGED <<rt_current_thread, rt_interrupt_from_thread,
                   rt_interrupt_to_thread, last>>

Next ==
    \/ SwitchTo \/ Work \/ InterruptDisable \/ InterruptEnable
    \/ TrapEntry \/ InterruptExit \/ SwitchExitFromTrap
    \/ \E t \in Threads : Switch(t) \/ SwitchInterrupt(t) \/ StackInit(t)

Spec == Init /\ [][Next]_vars

-----------------------------------------------------------------------------
(* Properties.                                                             *)

TypeOK ==
    /\ mode \in {"boot", "thread", "handler"}
    /\ regs \in Contexts \cup {NoContext}
    /\ sp \in Stacks \X (0..2) /\ mscratch \in Stacks \X (0..2)
    /\ mstatus \in Bits
    /\ mem \in [Stacks \X (0..2) -> Frames \cup {NoFrame}]
    /\ thread_sp \in [Threads -> Stacks \X (0..2)]
    /\ rt_current_thread \in Threads
    /\ rt_thread_switch_interrupt_flag \in BOOLEAN
    /\ rt_interrupt_from_thread \in Threads /\ rt_interrupt_to_thread \in Threads
    /\ last \in [Threads -> Contexts]

\* A thread that runs has the registers it stopped with, whoever stopped it and
\* however many switches a handler asked for in between.
ResumesOwnContext ==
    mode = "thread" => regs = last[rt_current_thread]
                       /\ regs.thread = rt_current_thread

\* Threads run on their own stack at the depth they were stopped at, with
\* mscratch ready for the next trap; a handler runs one frame below
\* __stack_top, with the thread's sp in mscratch.
StackDiscipline ==
    /\ mode = "thread" => sp = <<rt_current_thread, 0>> /\ mscratch = StackTop
    /\ mode = "handler" => /\ sp = Below(StackTop)
                           /\ mscratch[1] \in Threads /\ mscratch[2] = 0

\* In a masked section interrupts are masked, also in the one around a call of
\* rt_schedule that gave the hart away (rt_thread_idle_excute), and a thread in
\* its own code is open to them.
MaskedSectionsAreMasked ==
    mode = "thread" => /\ regs.at = "masked" => ~mstatus.mie
                       /\ regs.at = "app" => mstatus.mie
=============================================================================
