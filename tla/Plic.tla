-------------------------------- MODULE Plic --------------------------------
(***************************************************************************)
(* External interrupts: the controller as libcpu/riscv-plic.h uses it, the *)
(* installation, masking and dispatch of libcpu/interrupt.c, and drivers   *)
(* that use them as uart_irq_init does, each from its own thread.          *)
(*                                                                         *)
(* A device asserts its line until its handler has served it.  The PLIC    *)
(* latches a request, hands it to one claim and takes the next one of that *)
(* source when it is completed.  A thread may be preempted between any two *)
(* accesses to the PLIC; the dispatch runs with interrupts masked.         *)
(***************************************************************************)
EXTENDS Integers, FiniteSets

CONSTANTS
    Sources,     \* source numbers, 1..MAX_IRQ_SOURCES-1 in the code
    Drivers,
    SourceOf,    \* [Drivers -> Sources]
    MaxRequests  \* bound on the requests of a device

PlicAssumption ==
    /\ Sources \subseteq Nat \ {0} /\ IsFiniteSet(Sources)
    /\ SourceOf \in [Drivers -> Sources]
    /\ MaxRequests \in Nat

VARIABLES
    enable, priority, pending, \* the registers of the PLIC
    claimed,                   \* sources claimed and not completed
    line,                      \* devices that assert their interrupt line
    on,                        \* devices whose interrupts are enabled
    requests,                  \* how often each device has asked
    irq_desc_table,            \* sources with a handler
    pc, current,               \* of each driver; its copy of the register
    trap,                      \* where the hart is in rt_hw_plic_dispatch
    source                     \* the local of rt_hw_plic_dispatch

plic   == <<enable, priority, pending, claimed>>
device == <<line, on, requests>>
hart   == <<trap, source>>
driver == <<pc, current>>
vars   == <<plic, device, irq_desc_table, hart, driver>>

\* rt_hw_interrupt_init.
Init ==
    /\ enable = {} /\ priority = [s \in Sources |-> 0]
    /\ pending = {} /\ claimed = {}
    /\ line = {} /\ on = {} /\ requests = [s \in Sources |-> 0]
    /\ irq_desc_table = {}
    /\ pc = [d \in Drivers |-> "install"]
    /\ current = [d \in Drivers |-> {}]
    /\ trap = "none" /\ source = 0

-----------------------------------------------------------------------------
(* Drivers.                                                                *)

At(d, label) == trap = "none" /\ pc[d] = label
Goto(d, label) == pc' = [pc EXCEPT ![d] = label]

\* rt_hw_interrupt_install.
Install(d) ==
    /\ At(d, "install") /\ Goto(d, "priority")
    /\ irq_desc_table' = irq_desc_table \cup {SourceOf[d]}
    /\ UNCHANGED <<plic, device, hart, current>>

\* rt_hw_interrupt_umask: the priority, then __plic_irq_enable reads ...
SetPriority(d) ==
    /\ At(d, "priority") /\ Goto(d, "read")
    /\ priority' = [priority EXCEPT ![SourceOf[d]] = 1]
    /\ UNCHANGED <<enable, pending, claimed, device, irq_desc_table, hart, current>>

EnableRead(d) ==
    /\ At(d, "read") /\ Goto(d, "write")
    /\ current' = [current EXCEPT ![d] = enable \cup {SourceOf[d]}]
    /\ UNCHANGED <<plic, device, irq_desc_table, hart>>

\* ... and writes the enable register.
EnableWrite(d) ==
    /\ At(d, "write") /\ Goto(d, "on")
    /\ enable' = current[d]
    /\ UNCHANGED <<priority, pending, claimed, device, irq_desc_table, hart, current>>

\* The driver enables the interrupt of its device (IER).
DeviceOn(d) ==
    /\ At(d, "on") /\ Goto(d, "done")
    /\ on' = on \cup {SourceOf[d]}
    /\ UNCHANGED <<plic, line, requests, irq_desc_table, hart, current>>

\* rt_hw_interrupt_mask: __plic_irq_disable reads and writes.
DisableRead(d) ==
    /\ At(d, "done") /\ Goto(d, "unwrite")
    /\ current' = [current EXCEPT ![d] = enable \ {SourceOf[d]}]
    /\ UNCHANGED <<plic, device, irq_desc_table, hart>>

DisableWrite(d) ==
    /\ At(d, "unwrite") /\ Goto(d, "priority")
    /\ enable' = current[d]
    /\ UNCHANGED <<priority, pending, claimed, device, irq_desc_table, hart, current>>

-----------------------------------------------------------------------------
(* Devices and the gateways of the PLIC.                                   *)

Raise(s) ==
    /\ s \in on \ line /\ requests[s] < MaxRequests
    /\ line' = line \cup {s}
    /\ requests' = [requests EXCEPT ![s] = @ + 1]
    /\ pending' = IF s \in claimed THEN pending ELSE pending \cup {s}
    /\ UNCHANGED <<enable, priority, claimed, on, irq_desc_table, hart, driver>>

\* Sources that interrupt the hart: the threshold is 0.
Interrupting == {s \in pending \cap enable : priority[s] > 0}

-----------------------------------------------------------------------------
(* The hart.                                                               *)

\* The trap; rt_hw_trap_handler calls rt_hw_plic_dispatch.
Trap ==
    /\ trap = "none" /\ Interrupting # {}
    /\ trap' = "claim"
    /\ UNCHANGED <<plic, device, irq_desc_table, source, driver>>

\* __plic_irq_claim: all priorities are 1, the lowest number wins.
Claim ==
    /\ trap = "claim"
    /\ source' = CHOOSE s \in Interrupting : \A r \in Interrupting : s <= r
    /\ pending' = pending \ {source'} /\ claimed' = claimed \cup {source'}
    /\ trap' = "handle"
    /\ UNCHANGED <<enable, priority, device, irq_desc_table, driver>>

\* The handler, if there is one, serves the device.
Handle ==
    /\ trap = "handle" /\ trap' = "complete"
    /\ line' = IF source \in irq_desc_table THEN line \ {source} ELSE line
    /\ UNCHANGED <<plic, on, requests, irq_desc_table, source, driver>>

\* Mutant: the completion is forgotten.
CompleteNot ==
    /\ trap = "complete" /\ trap' = "none"
    /\ UNCHANGED <<plic, device, irq_desc_table, source, driver>>

\* __plic_irq_complete, and the return from the trap.
Complete ==
    /\ trap = "complete" /\ trap' = "none"
    /\ claimed' = claimed \ {source}
    /\ pending' = IF source \in line THEN pending \cup {source} ELSE pending
    /\ UNCHANGED <<enable, priority, device, irq_desc_table, source, driver>>

Dispatch == Trap \/ Claim \/ Handle \/ Complete

Next ==
    \/ Dispatch
    \/ \E s \in Sources : Raise(s)
    \/ \E d \in Drivers :
          \/ Install(d) \/ SetPriority(d) \/ EnableRead(d) \/ EnableWrite(d)
          \/ DeviceOn(d) \/ DisableRead(d) \/ DisableWrite(d)

\* The hart takes the interrupts it is asked to take.
Spec == Init /\ [][Next]_vars /\ WF_vars(Dispatch)

-----------------------------------------------------------------------------
(* Properties.                                                             *)

\* No source is lost: one that asks, and whose enable bit stays set, is served
\* again and again ("forget Complete and the source is lost for ever", the notes).
RequestsAreServed ==
    \A s \in Sources : <>[](s \in enable) => []<>(s \notin line)

\* The notes on __plic_irq_disable say that it reads, changes and writes the
\* register and destroys no other bit: a driver that masks its source leaves those
\* of others enabled, also those another driver enabled since it read.
OtherBitsAreKept ==
    [][\A d \in Drivers : DisableWrite(d) => enable \ {SourceOf[d]} \subseteq enable']_vars
=============================================================================
