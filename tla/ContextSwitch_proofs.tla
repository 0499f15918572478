----------------------- MODULE ContextSwitch_proofs -----------------------
(***************************************************************************)
(* Proof that a thread resumes with its own registers, on its own stack    *)
(* and, in its masked sections, masked, for any set of threads.            *)
(***************************************************************************)
EXTENDS ContextSwitch, SequenceTheorems, TLAPS

\* The thread whose computation the hart is in or has interrupted.
Owner == IF mode = "handler" /\ rt_thread_switch_interrupt_flag
         THEN rt_interrupt_from_thread ELSE rt_current_thread

\* The open masked sections of c: the outermost will unmask interrupts, those
\* inside it will not.
LevelsOK(c) ==
    /\ (c.at = "app") <=> (c.levels = <<>>)
    /\ \A i \in DOMAIN c.levels :
          c.levels[i].mpie /\ (c.levels[i].mie <=> i = 1)

\* What a thread stopped with, and may stop with.
LastOK == \A t \in Threads : last[t].thread = t /\ LevelsOK(last[t])

\* A thread that is not in the hart has its registers in the frame at its sp.
Saved(t) ==
    /\ thread_sp[t] = <<t, 1>>
    /\ mem[<<t, 1>>] \in Frames
    /\ mem[<<t, 1>>].regs = last[t]
    /\ last[t].at # "masked"

OthersSaved == \A t \in Threads : mode = "boot" \/ t # Owner => Saved(t)

BootOK == mode = "boot" =>
    /\ ~rt_thread_switch_interrupt_flag /\ mscratch = StackTop
    /\ \A t \in Threads : mem[<<t, 1>>].mpie /\ last[t].at = "app"

ThreadOK == mode = "thread" =>
    /\ sp = <<rt_current_thread, 0>> /\ mscratch = StackTop
    /\ regs = last[rt_current_thread]
    /\ mstatus.mpie
    /\ regs.at = "masked" => ~mstatus.mie
    /\ regs.at = "app" => mstatus.mie
    /\ ~rt_thread_switch_interrupt_flag

HandlerOK == mode = "handler" =>
    /\ sp = Below(StackTop) /\ mscratch = <<Owner, 0>>
    /\ mem[sp] = [regs |-> last[Owner], mpie |-> TRUE]
    /\ mstatus.mpie
    /\ last[Owner].at # "masked"
    /\ rt_thread_switch_interrupt_flag => rt_interrupt_to_thread = rt_current_thread

IInv == TypeOK /\ LastOK /\ OthersSaved /\ BootOK /\ ThreadOK /\ HandlerOK

LEMMA InitIInv == Init => IInv
<1> SUFFICES ASSUME Init PROVE IInv
  OBVIOUS
<1> USE SwitchAssumption
<1>1. \A t \in Threads : Entry(t) \in Contexts /\ FirstFrame(t) \in Frames
  BY DEF Entry, FirstFrame, Contexts, Frames
<1>2. TypeOK
  <2>1. mem \in [Stacks \X (0..2) -> Frames \cup {NoFrame}]
    BY <1>1 DEF Init
  <2>2. sp \in Stacks \X (0..2) /\ mscratch \in Stacks \X (0..2)
    BY DEF Init, Stacks, StackTop, Below
  <2>3. thread_sp \in [Threads -> Stacks \X (0..2)]
    BY DEF Init, Stacks
  <2>4. last \in [Threads -> Contexts]
    BY <1>1 DEF Init
  <2>5. mstatus \in Bits
    BY DEF Init, Bits
  <2> QED
    BY <2>1, <2>2, <2>3, <2>4, <2>5 DEF Init, TypeOK
<1>3. LastOK
  <2> SUFFICES ASSUME NEW t \in Threads
               PROVE  last[t].thread = t /\ LevelsOK(last[t])
    BY DEF LastOK
  <2>1. last[t] = Entry(t) /\ Entry(t).levels = <<>> /\ Entry(t).at = "app"
        /\ Entry(t).thread = t
    BY DEF Init, Entry
  <2>2. DOMAIN <<>> = {}
    OBVIOUS
  <2> QED
    BY <2>1, <2>2 DEF LevelsOK
<1>4. \A t \in Threads : mem[<<t, 1>>] = FirstFrame(t)
  <2> SUFFICES ASSUME NEW t \in Threads PROVE mem[<<t, 1>>] = FirstFrame(t)
    OBVIOUS
  <2>1. <<t, 1>> \in Stacks \X (0..2) /\ <<t, 1>>[1] = t /\ <<t, 1>>[2] = 1
    BY DEF Stacks
  <2> QED
    BY <2>1 DEF Init
<1>5. OthersSaved
  <2>1. ASSUME NEW t \in Threads PROVE Saved(t)
    <3>1. FirstFrame(t).regs = Entry(t) /\ Entry(t).at = "app"
      BY DEF FirstFrame, Entry
    <3>2. last[t] = Entry(t) /\ thread_sp[t] = <<t, 1>> /\ mem[<<t, 1>>] = FirstFrame(t)
      BY <1>4 DEF Init
    <3> QED
      BY <1>1, <3>1, <3>2 DEF Saved
  <2> QED
    BY <2>1 DEF OthersSaved
<1>6. BootOK
  <2>1. ASSUME NEW t \in Threads PROVE mem[<<t, 1>>].mpie /\ last[t].at = "app"
    <3>1. FirstFrame(t).mpie /\ Entry(t).at = "app"
      BY DEF FirstFrame, Entry
    <3> QED
      BY <1>4, <3>1 DEF Init
  <2> QED
    BY <2>1 DEF Init, BootOK
<1>7. ThreadOK /\ HandlerOK
  BY DEF Init, ThreadOK, HandlerOK
<1> QED
  BY <1>2, <1>3, <1>5, <1>6, <1>7 DEF IInv

\* The hart leaves through the frame of a thread: what becomes of the registers.
LEMMA ExitThroughFrame ==
    ASSUME NEW t \in Threads, NEW bits \in Bits, NEW memory,
           memory[<<t, 1>>] \in Frames,
           bits.mpie \/ memory[<<t, 1>>].mpie,
           SwitchExit(<<t, 1>>, bits, memory)
    PROVE  /\ mode' = "thread" /\ sp' = <<t, 0>>
           /\ regs' = memory[<<t, 1>>].regs /\ regs' \in Contexts
           /\ mstatus' = [mie |-> TRUE, mpie |-> TRUE]
           /\ mstatus' \in Bits
<1>1. bits.mpie \in BOOLEAN /\ memory[<<t, 1>>].mpie \in BOOLEAN
  BY DEF Bits, Frames
<1>2. (bits.mpie \/ memory[<<t, 1>>].mpie) = TRUE
  BY <1>1
<1>3. Above(<<t, 1>>) = <<t, 0>>
  BY DEF Above
<1> QED
  BY <1>2, <1>3 DEF SwitchExit, Frames, Bits

LEMMA SwitchToIInv == IInv /\ SwitchTo => IInv'
<1> SUFFICES ASSUME IInv, SwitchTo PROVE IInv'
  OBVIOUS
<1> USE SwitchAssumption DEF IInv
<1> DEFINE c == rt_current_thread
<1>1. c \in Threads /\ Saved(c) /\ mem[<<c, 1>>].mpie /\ last[c].at = "app"
  BY DEF SwitchTo, TypeOK, OthersSaved, BootOK
<1>2. [mie |-> FALSE, mpie |-> mem[<<c, 1>>].mpie] \in Bits
  BY <1>1 DEF Saved, Frames, Bits
<1>3. /\ mode' = "thread" /\ sp' = <<c, 0>>
      /\ regs' = last[c] /\ regs' \in Contexts
      /\ mstatus' = [mie |-> TRUE, mpie |-> TRUE] /\ mstatus' \in Bits
  BY <1>1, <1>2, ExitThroughFrame DEF SwitchTo, Saved
<1>4. TypeOK'
  BY <1>1, <1>3 DEF SwitchTo, TypeOK, request, Stacks
<1>5. LastOK'
  BY DEF SwitchTo, LastOK
<1>6. OthersSaved'
  BY <1>3 DEF SwitchTo, OthersSaved, Saved, Owner, request
<1>7. ThreadOK' /\ BootOK' /\ HandlerOK'
  BY <1>1, <1>3 DEF SwitchTo, ThreadOK, BootOK, HandlerOK, request
<1> QED
  BY <1>4, <1>5, <1>6, <1>7

\* A step of the running thread changes only its own registers and mstatus.
LEMMA OwnStepIInv ==
    ASSUME IInv, mode = "thread",
           regs' \in Contexts, regs'.thread = rt_current_thread, LevelsOK(regs'),
           mstatus' \in Bits, mstatus'.mpie,
           regs'.at = "masked" => ~mstatus'.mie,
           regs'.at = "app" => mstatus'.mie,
           last' = [last EXCEPT ![rt_current_thread] = regs'],
           UNCHANGED <<mode, sp, mscratch, mem, thread_sp, rt_current_thread, request>>
    PROVE  IInv'
<1> USE SwitchAssumption DEF IInv
<1>1. TypeOK'
  BY DEF TypeOK, request
<1>2. last'[rt_current_thread] = regs' /\ \A t \in Threads :
          t # rt_current_thread => last'[t] = last[t]
  BY DEF TypeOK
<1>3. LastOK'
  BY <1>2 DEF LastOK, LevelsOK
<1>4. OthersSaved'
  BY <1>2 DEF OthersSaved, Saved, Owner, request
<1>5. ThreadOK' /\ BootOK' /\ HandlerOK'
  BY <1>2 DEF ThreadOK, BootOK, HandlerOK, request
<1> QED
  BY <1>1, <1>3, <1>4, <1>5

LEMMA WorkIInv == IInv /\ Work => IInv'
<1> SUFFICES ASSUME IInv, Work PROVE IInv'
  OBVIOUS
<1> USE SwitchAssumption DEF IInv
<1>1. regs \in Contexts /\ regs = last[rt_current_thread] /\ rt_current_thread \in Threads
  BY DEF Work, TypeOK, ThreadOK
<1>2. regs' \in Contexts /\ regs'.thread = regs.thread /\ regs'.at = regs.at
      /\ regs'.levels = regs.levels
  BY <1>1 DEF Work, Contexts
<1>3. LevelsOK(regs') /\ regs'.thread = rt_current_thread
  BY <1>1, <1>2 DEF LastOK, LevelsOK
<1>4. mstatus' = mstatus /\ mstatus \in Bits /\ ThreadOK
  BY DEF Work, TypeOK
<1> QED
  BY <1>1, <1>2, <1>3, <1>4, OwnStepIInv DEF Work, ThreadOK

LEMMA DisableIInv == IInv /\ InterruptDisable => IInv'
<1> SUFFICES ASSUME IInv, InterruptDisable PROVE IInv'
  OBVIOUS
<1> USE SwitchAssumption DEF IInv
<1>1. /\ regs \in Contexts /\ regs = last[rt_current_thread]
      /\ rt_current_thread \in Threads /\ mstatus \in Bits /\ mstatus.mpie
      /\ LevelsOK(regs) /\ regs.thread = rt_current_thread
  BY DEF InterruptDisable, TypeOK, ThreadOK, LastOK
<1>2. /\ regs' \in Contexts /\ regs'.thread = regs.thread /\ regs'.at = "masked"
      /\ regs'.levels = Append(regs.levels, mstatus)
  <2>1. regs.levels \in Seq(Bits) /\ Append(regs.levels, mstatus) \in Seq(Bits)
    BY <1>1 DEF Contexts
  <2>2. regs' = [regs EXCEPT !.at = "masked", !.levels = Append(regs.levels, mstatus)]
    BY DEF InterruptDisable
  <2> QED
    BY <1>1, <2>1, <2>2 DEF Contexts
<1>3. mstatus.mie <=> regs.levels = <<>>
  BY <1>1 DEF InterruptDisable, ThreadOK, LevelsOK, Contexts
<1>4. LevelsOK(regs')
  BY <1>1, <1>2, <1>3 DEF LevelsOK, Contexts
<1>5. mstatus' \in Bits /\ mstatus'.mpie /\ ~mstatus'.mie
  BY <1>1 DEF InterruptDisable, Bits
<1> QED
  BY <1>1, <1>2, <1>4, <1>5, OwnStepIInv DEF InterruptDisable

LEMMA EnableIInv == IInv /\ InterruptEnable => IInv'
<1> SUFFICES ASSUME IInv, InterruptEnable PROVE IInv'
  OBVIOUS
<1> USE SwitchAssumption DEF IInv
<1> DEFINE n == Len(regs.levels)
<1>1. /\ regs \in Contexts /\ regs = last[rt_current_thread]
      /\ rt_current_thread \in Threads
      /\ LevelsOK(regs) /\ regs.thread = rt_current_thread
  BY DEF InterruptEnable, TypeOK, ThreadOK, LastOK
<1>2. regs.levels \in Seq(Bits) /\ n \in Nat /\ n >= 1
  BY <1>1 DEF InterruptEnable, Contexts, LevelsOK
<1>3. /\ regs' \in Contexts /\ regs'.thread = regs.thread
      /\ regs'.at = IF n = 1 THEN "app" ELSE "masked"
      /\ regs'.levels = SubSeq(regs.levels, 1, n - 1)
  <2>1. SubSeq(regs.levels, 1, n - 1) \in Seq(Bits)
    BY <1>2
  <2>2. regs' = [regs EXCEPT !.at = IF n = 1 THEN "app" ELSE "masked",
                             !.levels = SubSeq(regs.levels, 1, n - 1)]
    BY DEF InterruptEnable
  <2> QED
    BY <1>1, <2>1, <2>2 DEF Contexts
<1>4. LevelsOK(regs')
  <2>1. \A i \in DOMAIN regs'.levels :
           i \in DOMAIN regs.levels /\ regs'.levels[i] = regs.levels[i]
    BY <1>2, <1>3
  <2>2. (regs'.at = "app") <=> (regs'.levels = <<>>)
    <3>1. regs'.levels \in Seq(Bits) /\ Len(regs'.levels) = n - 1
      BY <1>2, <1>3
    <3>2. (n - 1 = 0) <=> (n = 1)
      BY <1>2
    <3>3. Len(regs'.levels) = 0 <=> n = 1
      BY <3>1, <3>2
    <3>4. regs'.levels = <<>> <=> Len(regs'.levels) = 0
      <4>1. regs'.levels = <<>> => Len(regs'.levels) = 0
        BY EmptySeq
      <4>2. regs'.levels # <<>> => Len(regs'.levels) # 0
        BY <3>1, EmptySeq
      <4> QED
        BY <4>1, <4>2
    <3>5. (regs'.levels = <<>>) <=> (n = 1)
      BY <3>3, <3>4
    <3>6. (regs'.at = "app") <=> (n = 1)
      BY <1>3
    <3> QED
      BY <3>5, <3>6
  <2> QED
    BY <1>1, <2>1, <2>2 DEF LevelsOK
<1>5. mstatus' = regs.levels[n] /\ mstatus' \in Bits /\ mstatus'.mpie
      /\ (mstatus'.mie <=> n = 1)
  <2>1. mstatus' = regs.levels[n]
    BY DEF InterruptEnable
  <2>2. n \in DOMAIN regs.levels /\ regs.levels[n] \in Bits
    BY <1>2
  <2> QED
    BY <1>1, <2>1, <2>2 DEF LevelsOK
<1> QED
  BY <1>1, <1>3, <1>4, <1>5, OwnStepIInv DEF InterruptEnable

LEMMA SwitchIInv == ASSUME NEW to \in Threads PROVE IInv /\ Switch(to) => IInv'
<1> SUFFICES ASSUME IInv, Switch(to) PROVE IInv'
  OBVIOUS
<1> USE SwitchAssumption DEF IInv
<1> DEFINE c      == rt_current_thread
           saved  == [regs EXCEPT !.at = "switched"]
           frame  == [regs |-> saved, mpie |-> mstatus.mie]
           memory == [mem EXCEPT ![<<c, 1>>] = frame]
<1>1. /\ c \in Threads /\ to # c /\ mode = "thread" /\ Owner = c /\ Saved(to)
      /\ sp = <<c, 0>> /\ Below(sp) = <<c, 1>> /\ thread_sp[to] = <<to, 1>>
  BY DEF Switch, TypeOK, ThreadOK, OthersSaved, Owner, Saved, Below
<1>2. /\ regs \in Contexts /\ regs = last[c] /\ regs.at = "masked" /\ regs.thread = c
      /\ mstatus \in Bits /\ mstatus.mpie /\ LevelsOK(regs)
  BY <1>1 DEF Switch, TypeOK, ThreadOK, LastOK
<1>3. /\ saved \in Contexts /\ saved.at = "switched" /\ saved.thread = c
      /\ saved.levels = regs.levels /\ LevelsOK(saved)
  BY <1>2 DEF Contexts, LevelsOK
<1>4. frame \in Frames /\ frame.regs = saved
  BY <1>2, <1>3 DEF Frames, Bits
<1>5. /\ <<c, 1>> \in Stacks \X (0..2) /\ <<to, 1>> \in Stacks \X (0..2)
      /\ \A t \in Threads : t # c => <<t, 1>> # <<c, 1>>
  BY <1>1 DEF Stacks
<1>6. /\ memory \in [Stacks \X (0..2) -> Frames \cup {NoFrame}]
      /\ memory[<<c, 1>>] = frame
      /\ \A t \in Threads : t # c => memory[<<t, 1>>] = mem[<<t, 1>>]
  BY <1>4, <1>5 DEF TypeOK
<1>7. /\ mem' = memory /\ thread_sp' = [thread_sp EXCEPT ![c] = <<c, 1>>]
      /\ last' = [last EXCEPT ![c] = saved]
      /\ SwitchExit(<<to, 1>>, mstatus, memory)
      /\ rt_current_thread' = to /\ UNCHANGED <<mscratch, request>>
  BY <1>1 DEF Switch
<1>8. /\ mode' = "thread" /\ sp' = <<to, 0>>
      /\ regs' = last[to] /\ regs' \in Contexts
      /\ mstatus' = [mie |-> TRUE, mpie |-> TRUE] /\ mstatus' \in Bits
  <2>1. memory[<<to, 1>>] \in Frames /\ memory[<<to, 1>>].regs = last[to]
    BY <1>1, <1>6 DEF Saved
  <2> QED
    BY <1>2, <1>7, <2>1, ExitThroughFrame
<1>9. /\ last'[c] = saved
      /\ \A t \in Threads : t # c => last'[t] = last[t]
  BY <1>1, <1>7 DEF TypeOK
<1>10. TypeOK'
  <2>1. thread_sp' \in [Threads -> Stacks \X (0..2)] /\ last' \in [Threads -> Contexts]
    BY <1>1, <1>3, <1>5, <1>7 DEF TypeOK
  <2>2. sp' \in Stacks \X (0..2)
    BY <1>8 DEF Stacks
  <2> QED
    BY <1>6, <1>7, <1>8, <2>1, <2>2 DEF TypeOK, request
<1>11. LastOK'
  BY <1>3, <1>9 DEF LastOK
<1>12. OthersSaved'
  <2> SUFFICES ASSUME NEW t \in Threads, t # to PROVE Saved(t)'
    BY <1>7, <1>8 DEF OthersSaved, Owner
  <2>1. CASE t = c
    BY <1>1, <1>3, <1>4, <1>6, <1>7, <1>9, <2>1 DEF Saved, TypeOK
  <2>2. CASE t # c
    BY <1>1, <1>6, <1>7, <1>9, <2>2 DEF Saved, TypeOK, OthersSaved
  <2> QED
    BY <2>1, <2>2
<1>13. ThreadOK'
  BY <1>1, <1>7, <1>8, <1>9 DEF ThreadOK, Saved, request
<1>14. BootOK' /\ HandlerOK'
  BY <1>8 DEF BootOK, HandlerOK
<1> QED
  BY <1>10, <1>11, <1>12, <1>13, <1>14

LEMMA StackInitIInv == ASSUME NEW u \in Threads PROVE IInv /\ StackInit(u) => IInv'
<1> SUFFICES ASSUME IInv, StackInit(u) PROVE IInv'
  OBVIOUS
<1> USE SwitchAssumption DEF IInv
<1> DEFINE c == rt_current_thread
<1>1. c \in Threads /\ u # c /\ mode = "thread" /\ Owner = c
  BY DEF StackInit, TypeOK, ThreadOK, Owner
<1>2. /\ Entry(u) \in Contexts /\ Entry(u).thread = u /\ Entry(u).at = "app"
      /\ Entry(u).levels = <<>> /\ DOMAIN <<>> = {}
      /\ FirstFrame(u) \in Frames /\ FirstFrame(u).regs = Entry(u)
  BY DEF Entry, FirstFrame, Contexts, Frames
<1>3. /\ <<u, 1>> \in Stacks \X (0..2)
      /\ \A t \in Threads : t # u => <<t, 1>> # <<u, 1>>
  BY DEF Stacks
<1>4. /\ mem' \in [Stacks \X (0..2) -> Frames \cup {NoFrame}]
      /\ mem'[<<u, 1>>] = FirstFrame(u)
      /\ \A t \in Threads : t # u => mem'[<<t, 1>>] = mem[<<t, 1>>]
  <2>1. mem' = [mem EXCEPT ![<<u, 1>>] = FirstFrame(u)]
    BY DEF StackInit
  <2>2. \A t \in Threads : <<t, 1>> \in Stacks \X (0..2)
    BY DEF Stacks
  <2> QED
    BY <1>2, <1>3, <2>1, <2>2 DEF TypeOK
<1>5. /\ last'[u] = Entry(u)
      /\ \A t \in Threads : t # u => last'[t] = last[t] /\ thread_sp'[t] = thread_sp[t]
      /\ thread_sp'[u] = <<u, 1>>
  BY DEF StackInit, TypeOK
<1>6. TypeOK'
  <2>1. thread_sp' \in [Threads -> Stacks \X (0..2)] /\ last' \in [Threads -> Contexts]
    BY <1>2, <1>3 DEF StackInit, TypeOK
  <2> QED
    BY <1>4, <2>1 DEF StackInit, TypeOK, request
<1>7. LastOK'
  <2>1. LevelsOK(Entry(u))
    BY <1>2 DEF LevelsOK
  <2> QED
    BY <1>2, <1>5, <2>1 DEF LastOK
<1>8. OthersSaved'
  <2> SUFFICES ASSUME NEW t \in Threads, t # c PROVE Saved(t)'
    BY <1>1 DEF OthersSaved, Owner, StackInit, request
  <2>1. CASE t = u
    BY <1>2, <1>4, <1>5, <2>1 DEF Saved
  <2>2. CASE t # u
    BY <1>1, <1>4, <1>5, <2>2 DEF Saved, OthersSaved
  <2> QED
    BY <2>1, <2>2
<1>9. ThreadOK' /\ BootOK' /\ HandlerOK'
  BY <1>1, <1>5 DEF StackInit, ThreadOK, BootOK, HandlerOK, request
<1> QED
  BY <1>6, <1>7, <1>8, <1>9

LEMMA TrapEntryIInv == IInv /\ TrapEntry => IInv'
<1> SUFFICES ASSUME IInv, TrapEntry PROVE IInv'
  OBVIOUS
<1> USE SwitchAssumption DEF IInv
<1> DEFINE c     == rt_current_thread
           frame == [regs |-> regs, mpie |-> mstatus.mie]
<1>1. /\ c \in Threads /\ mode = "thread" /\ Owner = c
      /\ sp = <<c, 0>> /\ mscratch = StackTop /\ ~rt_thread_switch_interrupt_flag
      /\ regs \in Contexts /\ regs = last[c] /\ regs.at # "masked"
      /\ mstatus \in Bits /\ mstatus.mie = TRUE
  <2>1. mstatus.mie \in BOOLEAN
    BY DEF TypeOK, Bits
  <2> QED
    BY <2>1 DEF TrapEntry, TypeOK, ThreadOK, Owner
<1>2. /\ Below(StackTop) = <<System, 1>> /\ <<System, 1>> \in Stacks \X (0..2)
      /\ \A t \in Threads : <<t, 1>> # <<System, 1>> /\ <<t, 1>> \in Stacks \X (0..2)
  BY DEF Below, StackTop, Stacks
<1>3. /\ mode' = "handler" /\ sp' = <<System, 1>> /\ mscratch' = <<c, 0>>
      /\ mem' = [mem EXCEPT ![<<System, 1>>] = frame]
      /\ regs' = NoContext /\ mstatus' = [mie |-> FALSE, mpie |-> TRUE]
      /\ UNCHANGED <<thread_sp, rt_current_thread, request, last>>
  BY <1>1, <1>2 DEF TrapEntry
<1>4. frame \in Frames /\ frame = [regs |-> last[c], mpie |-> TRUE]
  BY <1>1 DEF Frames
<1>5. /\ mem' \in [Stacks \X (0..2) -> Frames \cup {NoFrame}]
      /\ mem'[<<System, 1>>] = frame
      /\ \A t \in Threads : mem'[<<t, 1>>] = mem[<<t, 1>>]
  BY <1>2, <1>3, <1>4 DEF TypeOK
<1>6. Owner' = c
  BY <1>1, <1>3 DEF Owner, request
<1>7. TypeOK'
  <2>1. mstatus' \in Bits /\ mscratch' \in Stacks \X (0..2)
    BY <1>1, <1>3 DEF Bits, Stacks
  <2> QED
    BY <1>2, <1>3, <1>5, <2>1 DEF TypeOK, request
<1>8. LastOK'
  BY <1>3 DEF LastOK
<1>9. OthersSaved'
  BY <1>1, <1>3, <1>5, <1>6 DEF OthersSaved, Saved
<1>10. HandlerOK'
  BY <1>1, <1>2, <1>3, <1>4, <1>5, <1>6 DEF HandlerOK, StackTop, Below, request
<1>11. ThreadOK' /\ BootOK'
  BY <1>3 DEF ThreadOK, BootOK
<1> QED
  BY <1>7, <1>8, <1>9, <1>10, <1>11

LEMMA SwitchInterruptIInv ==
    ASSUME NEW to \in Threads PROVE IInv /\ SwitchInterrupt(to) => IInv'
<1> SUFFICES ASSUME IInv, SwitchInterrupt(to) PROVE IInv'
  OBVIOUS
<1> USE SwitchAssumption DEF IInv
<1>1. Owner' = Owner /\ mode = "handler" /\ mode' = "handler"
  BY DEF SwitchInterrupt, FromThread, Owner, TypeOK
<1>2. TypeOK' /\ LastOK'
  BY DEF SwitchInterrupt, FromThread, TypeOK, LastOK
<1>3. OthersSaved'
  BY <1>1 DEF SwitchInterrupt, FromThread, OthersSaved, Saved
<1>4. HandlerOK' /\ ThreadOK' /\ BootOK'
  BY <1>1 DEF SwitchInterrupt, FromThread, HandlerOK, ThreadOK, BootOK
<1> QED
  BY <1>2, <1>3, <1>4

LEMMA InterruptExitIInv == IInv /\ InterruptExit => IInv'
<1> SUFFICES ASSUME IInv, InterruptExit PROVE IInv'
  OBVIOUS
<1> USE SwitchAssumption DEF IInv
<1> DEFINE c == rt_current_thread
<1>1. /\ c \in Threads /\ Owner = c /\ mode = "handler"
      /\ sp = <<System, 1>> /\ mscratch = <<c, 0>> /\ Above(sp) = StackTop
      /\ mem[sp] = [regs |-> last[c], mpie |-> TRUE]
      /\ last[c] \in Contexts /\ last[c].at # "masked"
  BY DEF InterruptExit, TypeOK, HandlerOK, Owner, StackTop, Below, Above
<1>2. /\ mode' = "thread" /\ regs' = last[c] /\ sp' = <<c, 0>> /\ mscratch' = StackTop
      /\ mstatus' = [mie |-> TRUE, mpie |-> TRUE]
      /\ UNCHANGED <<mem, thread_sp, rt_current_thread, request, last>>
  <2>1. mstatus.mpie \in BOOLEAN /\ mem[sp].mpie = TRUE /\ mem[sp].regs = last[c]
    BY <1>1 DEF TypeOK, Bits
  <2>2. (mstatus.mpie \/ mem[sp].mpie) = TRUE
    BY <2>1
  <2> QED
    BY <1>1, <2>1, <2>2 DEF InterruptExit
<1>3. TypeOK'
  <2>1. mstatus' \in Bits /\ mscratch' \in Stacks \X (0..2) /\ sp' \in Stacks \X (0..2)
    BY <1>1, <1>2 DEF Bits, Stacks, StackTop
  <2> QED
    BY <1>1, <1>2, <2>1 DEF TypeOK, request
<1>4. LastOK'
  BY <1>2 DEF LastOK
<1>5. Owner' = c
  BY <1>2 DEF Owner
<1>6. OthersSaved'
  BY <1>1, <1>2, <1>5 DEF OthersSaved, Saved
<1>7. ThreadOK' /\ BootOK' /\ HandlerOK'
  BY <1>1, <1>2 DEF InterruptExit, ThreadOK, BootOK, HandlerOK, request
<1> QED
  BY <1>3, <1>4, <1>6, <1>7

LEMMA SwitchExitFromTrapIInv == IInv /\ SwitchExitFromTrap => IInv'
<1> SUFFICES ASSUME IInv, SwitchExitFromTrap PROVE IInv'
  OBVIOUS
<1> USE SwitchAssumption DEF IInv
<1> DEFINE c      == rt_current_thread
           from   == rt_interrupt_from_thread
           memory == [mem EXCEPT ![<<from, 1>>] = mem[sp]]
           saved  == [thread_sp EXCEPT ![from] = <<from, 1>>]
<1>1. /\ c \in Threads /\ from \in Threads /\ Owner = from /\ mode = "handler"
      /\ rt_interrupt_to_thread = c
      /\ mscratch = <<from, 0>> /\ Below(mscratch) = <<from, 1>>
      /\ mem[sp] = [regs |-> last[from], mpie |-> TRUE]
      /\ last[from] \in Contexts /\ last[from].at # "masked"
      /\ mstatus \in Bits /\ mstatus.mpie
  BY DEF SwitchExitFromTrap, TypeOK, HandlerOK, Owner, Below
<1>2. mem[sp] \in Frames /\ mem[sp].regs = last[from]
  BY <1>1 DEF Frames
<1>3. \A t \in Threads : /\ <<t, 1>> \in Stacks \X (0..2)
                          /\ t # from => <<t, 1>> # <<from, 1>>
  BY DEF Stacks
<1>4. /\ memory \in [Stacks \X (0..2) -> Frames \cup {NoFrame}]
      /\ memory[<<from, 1>>] = mem[sp]
      /\ \A t \in Threads : t # from => memory[<<t, 1>>] = mem[<<t, 1>>]
  BY <1>1, <1>2, <1>3 DEF TypeOK
<1>5. \A t \in Threads : /\ saved[t] = <<t, 1>> /\ memory[<<t, 1>>] \in Frames
                          /\ memory[<<t, 1>>].regs = last[t] /\ last[t].at # "masked"
  <2> TAKE t \in Threads
  <2>1. CASE t = from
    BY <1>1, <1>2, <1>4, <2>1 DEF TypeOK
  <2>2. CASE t # from
    BY <1>1, <1>4, <2>2 DEF OthersSaved, Saved, TypeOK
  <2> QED
    BY <2>1, <2>2
<1>6. /\ mem' = memory /\ thread_sp' = saved
      /\ SwitchExit(<<c, 1>>, mstatus, memory)
      /\ rt_thread_switch_interrupt_flag' = FALSE /\ mscratch' = StackTop
      /\ UNCHANGED <<rt_current_thread, rt_interrupt_from_thread,
                     rt_interrupt_to_thread, last>>
  BY <1>1, <1>5 DEF SwitchExitFromTrap
<1>7. /\ mode' = "thread" /\ sp' = <<c, 0>>
      /\ regs' = last[c] /\ regs' \in Contexts
      /\ mstatus' = [mie |-> TRUE, mpie |-> TRUE] /\ mstatus' \in Bits
  <2>1. memory[<<c, 1>>] \in Frames /\ memory[<<c, 1>>].regs = last[c]
    BY <1>1, <1>5
  <2> QED
    BY <1>1, <1>6, <2>1, ExitThroughFrame
<1>8. TypeOK'
  <2>1. thread_sp' \in [Threads -> Stacks \X (0..2)]
    BY <1>1, <1>3, <1>6 DEF TypeOK
  <2>2. sp' \in Stacks \X (0..2) /\ mscratch' \in Stacks \X (0..2)
    BY <1>1, <1>6, <1>7 DEF Stacks, StackTop
  <2> QED
    BY <1>4, <1>6, <1>7, <2>1, <2>2 DEF TypeOK
<1>9. LastOK'
  BY <1>6 DEF LastOK
<1>10. OthersSaved'
  BY <1>5, <1>6 DEF OthersSaved, Saved
<1>11. ThreadOK' /\ BootOK' /\ HandlerOK'
  BY <1>1, <1>5, <1>6, <1>7 DEF ThreadOK, BootOK, HandlerOK
<1> QED
  BY <1>8, <1>9, <1>10, <1>11

LEMMA StutterIInv == IInv /\ UNCHANGED vars => IInv'
  BY DEF IInv, vars, request, TypeOK, LastOK, OthersSaved, Saved, Owner, BootOK,
         ThreadOK, HandlerOK

\* IInv is an invariant of the port: the strengthening behind the theorems.
LEMMA Inductive == Spec => []IInv
<1>1. IInv /\ [Next]_vars => IInv'
  BY SwitchToIInv, WorkIInv, DisableIInv, EnableIInv, SwitchIInv, StackInitIInv,
     TrapEntryIInv, SwitchInterruptIInv, InterruptExitIInv, SwitchExitFromTrapIInv,
     StutterIInv DEF Next
<1> QED
  BY <1>1, InitIInv, PTL DEF Spec

\* Every variable keeps to its type, in particular no frame is stored deeper than
\* one below the stack a thread or the trap handler runs on.
THEOREM TypeCorrect == Spec => []TypeOK
  BY Inductive, PTL DEF IInv

\* A thread that gets the hart back finds the registers it had, whether it gave
\* the hart away in rt_schedule or an interrupt took it, for any set of threads.
THEOREM ResumesOwnContextHolds == Spec => []ResumesOwnContext
<1>1. IInv => ResumesOwnContext
  BY DEF IInv, ThreadOK, LastOK, TypeOK, ResumesOwnContext
<1> QED
  BY <1>1, Inductive, PTL

\* Threads run on their own stacks and handlers on the system stack; the swap of
\* sp and mscratch in trap_entry never exchanges the two roles.
THEOREM StackDisciplineHolds == Spec => []StackDiscipline
<1>1. IInv => StackDiscipline
  BY DEF IInv, ThreadOK, HandlerOK, Owner, TypeOK, StackDiscipline
<1> QED
  BY <1>1, Inductive, PTL

\* The write-back of the levels by rt_hw_interrupt_enable restores the masking of
\* every section that was left and re-entered through a switch.
THEOREM MaskedSectionsHold == Spec => []MaskedSectionsAreMasked
<1>1. IInv => MaskedSectionsAreMasked
  BY DEF IInv, ThreadOK, MaskedSectionsAreMasked
<1> QED
  BY <1>1, Inductive, PTL
=============================================================================
