--------------------------- MODULE Kernel_proofs ---------------------------
(***************************************************************************)
(* What holds of Kernel for every set of threads, every number of          *)
(* priorities and every start.                                             *)
(*                                                                         *)
(* 1. In every application, the racing ones included: the types, and that  *)
(* a non-empty ready list has its bit in the ready group.  TypeOK is       *)
(* inductive as it stands; IInv is the same formula in parts, so that what *)
(* an action leaves alone is one fact.  The ready group needs the types    *)
(* and nothing else, since no section of the code that adds a thread to a  *)
(* ready list leaves the bit to another section.                           *)
(*                                                                         *)
(* 2. In an application whose calls do not race (Orderly): the lists, the  *)
(* timers and the life of a thread.  The calls are made of several masked  *)
(* sections, so that what the lists look like between two of them depends  *)
(* on the calls in progress.  DataInv says it, with Claim for what a call  *)
(* relies on of the thread it works on; StepsInv gives the shape of the    *)
(* calls in progress and one owner to a thread, so that no other call      *)
(* takes the claim away.  There is one lemma per action.                   *)
(*                                                                         *)
(* 3. In every application whose calls schedule, also a racing one: the    *)
(* hart is with the highest ready thread, because rt_schedule is the last  *)
(* step of every call that changes whom it would choose.                   *)
(*                                                                         *)
(* 4. Under the IPC objects, which are extended here for this part alone:  *)
(* what the kernel and the calls on any object have in common, in the      *)
(* applications whose threads neither end nor manage each other and that   *)
(* leave the scheduler unlocked (Settled).  Every operation on an object   *)
(* takes threads off a suspend list or puts its caller on one, between     *)
(* masked sections that another thread or a handler may follow.  KInv says *)
(* what holds between any two sections: the threads are set up (Regular),  *)
(* the ready queue is that of the ready threads (ReadyQueueOK), the suspend*)
(* lists are those of suspended threads, no thread on two (WaitersOK), the *)
(* hart is with a ready thread or one about to call rt_schedule            *)
(* (HartIsReady), and each pc[t] is one of the shapes a call goes through, a*)
(* suspended thread being in a call that waits on the list it is on, with no*)
(* result yet (CallsOK, WaitersAreCalling).  Without the last, a thread on a*)
(* list could go on with the end of another call than the one it waits in. *)
(* The section ends with the actions of the kernel; those of the objects   *)
(* are in Ipc_proofs.                                                      *)
(***************************************************************************)
EXTENDS Ipc, TLAPS, SequenceTheorems, FiniteSetTheorems, WellFoundedInduction

-----------------------------------------------------------------------------
(* The operators of the community modules that the ready queue is made of. *)

\* What makes Min and the CHOOSE of HighestReady choose something.
LEMMA HasMinimum ==
    ASSUME NEW S \in SUBSET Nat, S # {}
    PROVE  \E x \in S : \A y \in S : x <= y
<1>1. PICK x \in S : \A y \in S : ~ (<<y, x>> \in OpToRel(<, Nat))
  BY NatLessThanWellFounded, WFMin
<1>2. \A y \in S : ~ (y < x)
  BY <1>1 DEF OpToRel
<1> QED BY <1>2

\* Removing an element leaves a sequence of the same set.
LEMMA RemoveFirstType ==
    ASSUME NEW S, NEW s \in Seq(S), NEW e
    PROVE  RemoveFirst(s, e) \in Seq(S)
<1>1. CASE \E i \in 1..Len(s) : s[i] = e
  <2> DEFINE I == {i \in 1..Len(s) : s[i] = e}
             k == CHOOSE x \in I : \A y \in I : x <= y
  <2>1. k \in 1..Len(s)
    <3>1. I \in SUBSET Nat /\ I # {} /\ I \subseteq 1..Len(s)
      BY <1>1, LenProperties
    <3> HIDE DEF I
    <3>2. \E x \in I : \A y \in I : x <= y
      BY <3>1, HasMinimum
    <3> QED BY <3>1, <3>2
  <2>2. RemoveFirst(s, e) = SubSeq(s, 1, k - 1) \o SubSeq(s, k + 1, Len(s))
    BY <1>1 DEF RemoveFirst, RemoveAt, SelectInSeq, Min
  <2> HIDE DEF k
  <2>3. SubSeq(s, 1, k - 1) \in Seq(S)
    BY <2>1, SubSeqProperties, ElementOfSeq, LenProperties
  <2>4. SubSeq(s, k + 1, Len(s)) \in Seq(S)
    BY <2>1, SubSeqProperties, ElementOfSeq, LenProperties
  <2> QED BY <2>2, <2>3, <2>4, ConcatProperties
<1> QED BY <1>1 DEF RemoveFirst

\* rt_schedule chooses a thread, or what is not one.
LEMMA HighestReadyType ==
    ASSUME NEW table \in [Prios -> Seq(Threads)], NEW group \in SUBSET Prios
    PROVE  HighestReady(table, group) \in Threads \cup {NoThread}
<1>1. CASE group = {}
  BY <1>1 DEF HighestReady
<1>2. CASE group # {}
  <2> DEFINE p == CHOOSE q \in group : \A r \in group : q <= r
  <2>1. p \in Prios
    <3>1. \E q \in group : \A r \in group : q <= r
      <4>1. group \in SUBSET Nat
        BY KernelAssumption DEF Prios
      <4> QED BY <4>1, <1>2, HasMinimum
    <3> QED BY <3>1
  <2>2. HighestReady(table, group) =
            IF table[p] = <<>> THEN NoThread ELSE Head(table[p])
    BY <1>2 DEF HighestReady
  <2> HIDE DEF p
  <2>3. table[p] \in Seq(Threads)
    BY <2>1
  <2> QED BY <2>2, <2>3, HeadTailProperties
<1> QED BY <1>1, <1>2

-----------------------------------------------------------------------------
(* The types, in parts.                                                    *)

Step == Labels \X Threads

TcbOK ==
    /\ stat \in [Threads -> Stats]
    /\ current_priority \in [Threads -> Prios]
    /\ remaining_tick \in [Threads -> 1..InitTick]
    /\ error \in [Threads -> Errors]
    /\ armed \subseteq Threads

TableOK == rt_thread_priority_table \in [Prios -> Seq(Threads)]
GroupOK == rt_thread_ready_priority_group \subseteq Prios
DefunctOK == rt_thread_defunct \in Seq(Threads)
SuspendOK == suspend_thread \in [Lists -> Seq(Threads)]

ListsOK == TableOK /\ GroupOK /\ DefunctOK /\ SuspendOK

HartOK ==
    /\ rt_current_thread \in Threads \cup {NoThread}
    /\ rt_scheduler_lock_nest \in 0..MaxNest
    /\ isr \in {"none", "tick"}

StepsOK == pc \in [Threads -> Seq(Step)]

IInv == TcbOK /\ ListsOK /\ HartOK /\ StepsOK

\* The parts are TypeOK.
LEMMA IInvIsEnough == IInv <=> TypeOK
BY DEF TypeOK, DataTypeOK, IInv, TcbOK, ListsOK, TableOK, GroupOK, DefunctOK,
       SuspendOK, HartOK, StepsOK, Step

\* The kernel starts well typed.
LEMMA InitTyped == Init => IInv
<1> SUFFICES ASSUME Init PROVE IInv
  OBVIOUS
<1> USE KernelAssumption DEF Init
<1>1. TcbOK
  BY DEF TcbOK, Stats, Errors
<1>2. ListsOK
  <2>1. TableOK /\ GroupOK
    BY DEF TableOK, GroupOK
  <2>2. DefunctOK /\ SuspendOK
    BY EmptySeq DEF DefunctOK, SuspendOK
  <2> QED BY <2>1, <2>2 DEF ListsOK
<1>3. HartOK
  <2>1. rt_current_thread \in Threads \cup {NoThread}
    BY <1>2, HighestReadyType DEF ListsOK, TableOK, GroupOK
  <2> QED BY <2>1 DEF HartOK
<1>4. StepsOK
  BY EmptySeq DEF StepsOK
<1> QED BY <1>1, <1>2, <1>3, <1>4 DEF IInv

-----------------------------------------------------------------------------
(* What the parts of the actions preserve.                                 *)

LEMMA UnlinkedType ==
    ASSUME NEW L, NEW table \in [L -> Seq(Threads)], NEW t
    PROVE  Unlinked(table, t) \in [L -> Seq(Threads)]
<1>1. \A l \in L : RemoveFirst(table[l], t) \in Seq(Threads)
  BY RemoveFirstType
<1> QED BY <1>1 DEF Unlinked

LEMMA InsertedType ==
    ASSUME NEW table \in [Prios -> Seq(Threads)], NEW p \in Prios,
           NEW t \in Threads
    PROVE  [table EXCEPT ![p] = Append(@, t)] \in [Prios -> Seq(Threads)]
<1>1. Append(table[p], t) \in Seq(Threads)
  BY AppendProperties
<1> QED BY <1>1

LEMMA UnlinkTyped ==
    ASSUME ListsOK, NEW t \in Threads, Unlink(t)
    PROVE  TableOK' /\ DefunctOK' /\ SuspendOK'
<1>1. TableOK' /\ SuspendOK'
  BY UnlinkedType DEF ListsOK, TableOK, SuspendOK, Unlink
<1>2. DefunctOK'
  BY RemoveFirstType DEF ListsOK, DefunctOK, Unlink
<1> QED BY <1>1, <1>2

LEMMA RemoveThreadTyped ==
    ASSUME ListsOK, NEW t \in Threads, RemoveThread(t)
    PROVE  ListsOK'
<1>1. TableOK' /\ DefunctOK' /\ SuspendOK'
  BY UnlinkTyped DEF RemoveThread
<1>2. GroupOK'
  BY DEF RemoveThread, GroupAfterRemove, ListsOK, GroupOK
<1> QED BY <1>1, <1>2 DEF ListsOK

LEMMA InsertThreadTyped ==
    ASSUME TcbOK, ListsOK, NEW t \in Threads, InsertThread(t)
    PROVE  TableOK' /\ GroupOK' /\ stat' \in [Threads -> Stats]
<1>1. current_priority[t] \in Prios
  BY DEF TcbOK
<1>2. TableOK'
  BY <1>1, InsertedType DEF InsertThread, Inserted, ListsOK, TableOK
<1> QED BY <1>1, <1>2 DEF InsertThread, ListsOK, GroupOK, TcbOK, Stats

LEMMA RotatedTyped ==
    ASSUME TcbOK, ListsOK, NEW t \in Threads
    PROVE  Rotated(t) \in [Prios -> Seq(Threads)]
BY UnlinkedType, InsertedType DEF Rotated, TcbOK, ListsOK, TableOK

LEMMA ScheduleTyped ==
    ASSUME HartOK, TableOK', GroupOK', Schedule
    PROVE  rt_current_thread' \in Threads \cup {NoThread}
BY HighestReadyType DEF Schedule, Scheduled, HartOK, TableOK, GroupOK

LEMMA AtTyped ==
    ASSUME StepsOK, NEW c \in Threads, pc[c] # <<>>
    PROVE  Target(c) \in Threads /\ Tail(pc[c]) \in Seq(Step)
<1>1. Head(pc[c]) \in Step /\ Tail(pc[c]) \in Seq(Step)
  BY HeadTailProperties DEF StepsOK
<1> QED BY <1>1 DEF Target, Step

LEMMA GotoTyped ==
    ASSUME StepsOK, NEW c \in Threads, NEW steps \in Seq(Step), Goto(c, steps)
    PROVE  StepsOK'
BY DEF StepsOK, Goto

LEMMA ProceedTyped ==
    ASSUME StepsOK, NEW c \in Threads, NEW steps \in Seq(Step), pc[c] # <<>>,
           Proceed(c, steps)
    PROVE  StepsOK'
<1>1. steps \o Tail(pc[c]) \in Seq(Step)
  BY AtTyped, ConcatProperties
<1> QED BY <1>1 DEF StepsOK, Proceed

LEMMA ReturnTyped ==
    ASSUME StepsOK, NEW c \in Threads, pc[c] # <<>>, Return(c)
    PROVE  StepsOK'
BY ProceedTyped, EmptySeq DEF Return

LEMMA StepSeqs ==
    ASSUME NEW t \in Threads, NEW l \in Labels, NEW u \in Threads, NEW m \in Labels
    PROVE  << <<l, t>> >> \in Seq(Step) /\ << <<l, t>>, <<m, u>> >> \in Seq(Step)
<1>1. <<l, t>> \in Step /\ <<m, u>> \in Step
  BY DEF Step
<1> QED BY <1>1

\* The parts an action leaves alone.
LEMMA Kept ==
    /\ TcbOK /\ UNCHANGED tcb => TcbOK'
    /\ ListsOK /\ UNCHANGED lists => ListsOK'
    /\ HartOK /\ UNCHANGED <<rt_current_thread, rt_scheduler_lock_nest, isr>>
           => HartOK'
    /\ StepsOK /\ UNCHANGED pc => StepsOK'
<1>1. TcbOK /\ UNCHANGED tcb => TcbOK'
  BY DEF TcbOK, tcb
<1>2. ListsOK /\ UNCHANGED lists => ListsOK'
  BY DEF ListsOK, TableOK, GroupOK, DefunctOK, SuspendOK, lists, queues
<1> QED BY <1>1, <1>2 DEF HartOK, StepsOK

-----------------------------------------------------------------------------
(* Every action preserves IInv.                                            *)

LEMMA SchedTyped ==
    ASSUME IInv, NEW c \in Threads, Sched(c)
    PROVE  IInv'
<1>1. TcbOK'
  BY Kept DEF IInv, Sched
<1>2. ListsOK'
  BY Kept DEF IInv, Sched
<1>3. HartOK'
  BY <1>2, ScheduleTyped DEF IInv, HartOK, ListsOK, Sched
<1>4. StepsOK'
  BY ReturnTyped DEF IInv, Sched, At
<1> QED BY <1>1, <1>2, <1>3, <1>4 DEF IInv

LEMMA CreateTyped ==
    ASSUME IInv, NEW c \in Threads, NEW t \in Threads, Create(c, t)
    PROVE  IInv'
<1>1. TcbOK'
  <2>1. /\ stat' \in [Threads -> Stats]
        /\ error' \in [Threads -> Errors]
    BY DEF IInv, TcbOK, Stats, Errors, Create
  <2>2. InitPrio[t] \in Prios /\ InitTick \in 1..InitTick
    BY KernelAssumption
  <2>3. /\ current_priority' \in [Threads -> Prios]
        /\ remaining_tick' \in [Threads -> 1..InitTick]
    BY <2>2 DEF IInv, TcbOK, Create
  <2>4. armed' \subseteq Threads
    BY DEF IInv, TcbOK, Create
  <2> QED BY <2>1, <2>3, <2>4 DEF TcbOK
<1>2. ListsOK'
  BY Kept DEF IInv, Create
<1>3. HartOK'
  BY Kept DEF IInv, Create
<1>4. StepsOK'
  BY EmptySeq DEF IInv, StepsOK, Create
<1> QED BY <1>1, <1>2, <1>3, <1>4 DEF IInv

LEMMA StartupTyped ==
    ASSUME IInv, NEW c \in Threads, NEW t \in Threads, Startup(c, t)
    PROVE  IInv'
<1>1. TcbOK'
  BY KernelAssumption DEF IInv, TcbOK, Stats, Startup
<1>2. ListsOK'
  BY Kept DEF IInv, Startup
<1>3. HartOK'
  BY Kept DEF IInv, Startup
<1>4. StepsOK'
  <2>1. << <<"resume", t>>, <<"sched", c>> >> \in Seq(Step)
    BY StepSeqs DEF Labels
  <2> QED BY <2>1, GotoTyped DEF IInv, Startup
<1> QED BY <1>1, <1>2, <1>3, <1>4 DEF IInv

LEMMA ResumeCallTyped ==
    ASSUME IInv, NEW c \in Threads, NEW t \in Threads, ResumeCall(c, t)
    PROVE  IInv'
<1>1. TcbOK'
  BY Kept DEF IInv, ResumeCall
<1>2. ListsOK'
  BY Kept DEF IInv, ResumeCall
<1>3. HartOK'
  BY Kept DEF IInv, ResumeCall
<1>4. StepsOK'
  <2>1. << <<"resume", t>> >> \in Seq(Step)
    BY StepSeqs DEF Labels
  <2> QED BY <2>1, GotoTyped DEF IInv, ResumeCall
<1> QED BY <1>1, <1>2, <1>3, <1>4 DEF IInv

LEMMA ScheduleCallTyped ==
    ASSUME IInv, NEW c \in Threads, ScheduleCall(c)
    PROVE  IInv'
<1>1. TcbOK'
  BY Kept DEF IInv, ScheduleCall
<1>2. ListsOK'
  BY Kept DEF IInv, ScheduleCall
<1>3. HartOK'
  BY Kept DEF IInv, ScheduleCall
<1>4. StepsOK'
  <2>1. << <<"sched", c>> >> \in Seq(Step)
    BY StepSeqs DEF Labels
  <2> QED BY <2>1, GotoTyped DEF IInv, ScheduleCall
<1> QED BY <1>1, <1>2, <1>3, <1>4 DEF IInv

LEMMA ResumeCheckTyped ==
    ASSUME IInv, NEW c \in Threads, ResumeCheck(c)
    PROVE  IInv'
<1>1. TcbOK'
  BY Kept DEF IInv, ResumeCheck
<1>2. ListsOK'
  BY Kept DEF IInv, ResumeCheck
<1>3. HartOK'
  BY Kept DEF IInv, ResumeCheck
<1>4. StepsOK'
  <2>1. Target(c) \in Threads
    BY AtTyped DEF IInv, ResumeCheck, At
  <2>2. << <<"unlink", Target(c)>>, <<"insert", Target(c)>> >> \in Seq(Step)
    BY <2>1, StepSeqs DEF Labels
  <2> QED BY <2>2, ProceedTyped, ReturnTyped DEF IInv, ResumeCheck, At
<1> QED BY <1>1, <1>2, <1>3, <1>4 DEF IInv

LEMMA ResumeUnlinkTyped ==
    ASSUME IInv, NEW c \in Threads, ResumeUnlink(c)
    PROVE  IInv'
<1>1. TcbOK'
  BY DEF IInv, TcbOK, ResumeUnlink, TimerStopped
<1>2. ListsOK'
  <2>1. Target(c) \in Threads
    BY AtTyped DEF IInv, ResumeUnlink, At
  <2> QED BY <2>1, UnlinkTyped DEF IInv, ListsOK, GroupOK, ResumeUnlink
<1>3. HartOK'
  BY Kept DEF IInv, ResumeUnlink
<1>4. StepsOK'
  BY ReturnTyped DEF IInv, ResumeUnlink, At
<1> QED BY <1>1, <1>2, <1>3, <1>4 DEF IInv

LEMMA ResumeInsertTyped ==
    ASSUME IInv, NEW c \in Threads, ResumeInsert(c)
    PROVE  IInv'
<1>1. TcbOK'
  <2>1. Target(c) \in Threads
    BY AtTyped DEF IInv, ResumeInsert, At
  <2> QED BY <2>1, InsertThreadTyped DEF IInv, TcbOK, ResumeInsert
<1>2. ListsOK'
  <2>1. Target(c) \in Threads
    BY AtTyped DEF IInv, ResumeInsert, At
  <2> QED BY <2>1, InsertThreadTyped
       DEF IInv, ListsOK, DefunctOK, SuspendOK, ResumeInsert
<1>3. HartOK'
  BY Kept DEF IInv, ResumeInsert
<1>4. StepsOK'
  BY ReturnTyped DEF IInv, ResumeInsert, At
<1> QED BY <1>1, <1>2, <1>3, <1>4 DEF IInv

LEMMA SuspendCallTyped ==
    ASSUME IInv, NEW c \in Threads, NEW t \in Threads, SuspendCall(c, t)
    PROVE  IInv'
<1>1. TcbOK'
  BY Kept DEF IInv, SuspendCall
<1>2. ListsOK'
  BY Kept DEF IInv, SuspendCall
<1>3. HartOK'
  BY Kept DEF IInv, SuspendCall
<1>4. StepsOK'
  <2>1. << <<"suspend", t>> >> \in Seq(Step) /\ << <<"sched", c>> >> \in Seq(Step)
    BY StepSeqs DEF Labels
  <2> DEFINE steps == << <<"suspend", t>> >>
                 \o (IF t = c THEN << <<"sched", c>> >> ELSE <<>>)
  <2>2. steps \in Seq(Step)
    BY <2>1, EmptySeq, ConcatProperties
  <2>3. Goto(c, steps)
    BY DEF SuspendCall
  <2> HIDE DEF steps
  <2> QED BY <2>2, <2>3, GotoTyped DEF IInv
<1> QED BY <1>1, <1>2, <1>3, <1>4 DEF IInv

LEMMA SuspendCheckTyped ==
    ASSUME IInv, NEW c \in Threads, SuspendCheck(c)
    PROVE  IInv'
<1>1. TcbOK'
  BY Kept DEF IInv, SuspendCheck
<1>2. ListsOK'
  BY Kept DEF IInv, SuspendCheck
<1>3. HartOK'
  BY Kept DEF IInv, SuspendCheck
<1>4. StepsOK'
  <2>1. Target(c) \in Threads
    BY AtTyped DEF IInv, SuspendCheck, At
  <2>2. << <<"remove", Target(c)>> >> \in Seq(Step)
    BY <2>1, StepSeqs DEF Labels
  <2> QED BY <2>2, ProceedTyped, ReturnTyped DEF IInv, SuspendCheck, At
<1> QED BY <1>1, <1>2, <1>3, <1>4 DEF IInv

LEMMA SuspendRemoveTyped ==
    ASSUME IInv, NEW c \in Threads, SuspendRemove(c)
    PROVE  IInv'
<1>1. TcbOK'
  BY DEF IInv, TcbOK, Stats, SuspendRemove, TimerStopped
<1>2. ListsOK'
  <2>1. Target(c) \in Threads
    BY AtTyped DEF IInv, SuspendRemove, At
  <2> QED BY <2>1, RemoveThreadTyped DEF IInv, SuspendRemove
<1>3. HartOK'
  BY Kept DEF IInv, SuspendRemove
<1>4. StepsOK'
  BY ReturnTyped DEF IInv, SuspendRemove, At
<1> QED BY <1>1, <1>2, <1>3, <1>4 DEF IInv

LEMMA YieldTyped ==
    ASSUME IInv, NEW c \in Threads, Yield(c)
    PROVE  IInv'
<1>1. TcbOK'
  BY Kept DEF IInv, Yield
<1>2. ListsOK'
  BY RotatedTyped
     DEF IInv, ListsOK, TableOK, GroupOK, DefunctOK, SuspendOK, Yield
<1>3. HartOK'
  BY Kept DEF IInv, Yield
<1>4. StepsOK'
  <2>1. << <<"sched", c>> >> \in Seq(Step)
    BY StepSeqs DEF Labels
  <2> QED BY <2>1, GotoTyped DEF IInv, Yield
<1> QED BY <1>1, <1>2, <1>3, <1>4 DEF IInv

LEMMA SleepTyped ==
    ASSUME IInv, NEW c \in Threads, Sleep(c)
    PROVE  IInv'
<1>1. TcbOK'
  BY DEF IInv, TcbOK, Stats, Sleep
<1>2. ListsOK'
  BY RemoveThreadTyped, Kept DEF IInv, Sleep
<1>3. HartOK'
  BY Kept DEF IInv, Sleep
<1>4. StepsOK'
  <2>1. << <<"sched", c>>, <<"awake", c>> >> \in Seq(Step)
    BY StepSeqs DEF Labels
  <2> QED BY <2>1, GotoTyped DEF IInv, Sleep
<1> QED BY <1>1, <1>2, <1>3, <1>4 DEF IInv

LEMMA SleepReturnTyped ==
    ASSUME IInv, NEW c \in Threads, SleepReturn(c)
    PROVE  IInv'
<1>1. TcbOK'
  BY DEF IInv, TcbOK, Errors, SleepReturn
<1>2. ListsOK'
  BY Kept DEF IInv, SleepReturn
<1>3. HartOK'
  BY Kept DEF IInv, SleepReturn
<1>4. StepsOK'
  BY ReturnTyped DEF IInv, SleepReturn, At
<1> QED BY <1>1, <1>2, <1>3, <1>4 DEF IInv

LEMMA ExitTyped ==
    ASSUME IInv, NEW c \in Threads, Exit(c)
    PROVE  IInv'
<1>1. TcbOK'
  BY DEF IInv, TcbOK, Stats, Exit, TimerStopped
<1>2. ListsOK'
  <2>1. TableOK'
    BY UnlinkedType DEF IInv, ListsOK, TableOK, Exit
  <2>2. GroupOK'
    BY DEF IInv, ListsOK, GroupOK, Exit, GroupAfterRemove
  <2>3. DefunctOK'
    <3>1. <<c>> \o rt_thread_defunct \in Seq(Threads)
      BY ConcatProperties DEF IInv, ListsOK, DefunctOK
    <3> QED BY <3>1 DEF IInv, ListsOK, DefunctOK, Exit
  <2> QED BY <2>1, <2>2, <2>3 DEF IInv, ListsOK, SuspendOK, Exit
<1>3. HartOK'
  BY Kept DEF IInv, Exit
<1>4. StepsOK'
  <2>1. << <<"sched", c>> >> \in Seq(Step)
    BY StepSeqs DEF Labels
  <2> QED BY <2>1, GotoTyped DEF IInv, Exit
<1> QED BY <1>1, <1>2, <1>3, <1>4 DEF IInv

LEMMA DeleteTyped ==
    ASSUME IInv, NEW c \in Threads, NEW t \in Threads, Delete(c, t)
    PROVE  IInv'
<1>1. TcbOK'
  BY Kept DEF IInv, Delete
<1>2. ListsOK'
  BY Kept DEF IInv, Delete
<1>3. HartOK'
  BY Kept DEF IInv, Delete
<1>4. StepsOK'
  <2> DEFINE first  == IF stat[t] = "INIT" THEN <<>> ELSE << <<"dremove", t>> >>
             second == << <<"dtimer", t>>, <<"dclose", t>> >>
             third  == IF t \in Static THEN <<>> ELSE << <<"ddefunct", t>> >>
  <2>1. first \in Seq(Step) /\ second \in Seq(Step) /\ third \in Seq(Step)
    BY StepSeqs, EmptySeq DEF Labels
  <2>2. Goto(c, first \o second \o third)
    BY DEF Delete
  <2> HIDE DEF first, second, third
  <2>3. first \o second \o third \in Seq(Step)
    BY <2>1, ConcatProperties
  <2> QED BY <2>2, <2>3, GotoTyped DEF IInv
<1> QED BY <1>1, <1>2, <1>3, <1>4 DEF IInv

LEMMA DeleteRemoveTyped ==
    ASSUME IInv, NEW c \in Threads, DeleteRemove(c)
    PROVE  IInv'
<1>1. TcbOK'
  BY Kept DEF IInv, DeleteRemove
<1>2. ListsOK'
  <2>1. Target(c) \in Threads
    BY AtTyped DEF IInv, DeleteRemove, At
  <2> QED BY <2>1, RemoveThreadTyped DEF IInv, DeleteRemove
<1>3. HartOK'
  BY Kept DEF IInv, DeleteRemove
<1>4. StepsOK'
  BY ReturnTyped DEF IInv, DeleteRemove, At
<1> QED BY <1>1, <1>2, <1>3, <1>4 DEF IInv

LEMMA DeleteTimerTyped ==
    ASSUME IInv, NEW c \in Threads, DeleteTimer(c)
    PROVE  IInv'
<1>1. TcbOK'
  BY DEF IInv, TcbOK, DeleteTimer, TimerStopped
<1>2. ListsOK'
  BY Kept DEF IInv, DeleteTimer
<1>3. HartOK'
  BY Kept DEF IInv, DeleteTimer
<1>4. StepsOK'
  BY ReturnTyped DEF IInv, DeleteTimer, At
<1> QED BY <1>1, <1>2, <1>3, <1>4 DEF IInv

LEMMA DeleteCloseTyped ==
    ASSUME IInv, NEW c \in Threads, DeleteClose(c)
    PROVE  IInv'
<1>1. TcbOK'
  BY DEF IInv, TcbOK, Stats, DeleteClose
<1>2. ListsOK'
  BY Kept DEF IInv, DeleteClose
<1>3. HartOK'
  BY Kept DEF IInv, DeleteClose
<1>4. StepsOK'
  BY ReturnTyped DEF IInv, DeleteClose, At
<1> QED BY <1>1, <1>2, <1>3, <1>4 DEF IInv

LEMMA DeleteDefunctTyped ==
    ASSUME IInv, NEW c \in Threads, DeleteDefunct(c)
    PROVE  IInv'
<1>1. TcbOK'
  BY Kept DEF IInv, DeleteDefunct
<1>2. ListsOK'
  <2>1. Target(c) \in Threads
    BY AtTyped DEF IInv, DeleteDefunct, At
  <2>2. <<Target(c)>> \o rt_thread_defunct \in Seq(Threads)
    BY <2>1, ConcatProperties DEF IInv, ListsOK, DefunctOK
  <2> QED BY <2>2 DEF IInv, ListsOK, TableOK, GroupOK, DefunctOK, SuspendOK,
                      queues, DeleteDefunct
<1>3. HartOK'
  BY Kept DEF IInv, DeleteDefunct
<1>4. StepsOK'
  BY ReturnTyped DEF IInv, DeleteDefunct, At
<1> QED BY <1>1, <1>2, <1>3, <1>4 DEF IInv

LEMMA ChangePriorityTyped ==
    ASSUME IInv, NEW c \in Threads, NEW t \in Threads, NEW p \in Prios, ChangePriority(c, t, p)
    PROVE  IInv'
<1>1. TcbOK'
  BY DEF IInv, TcbOK, ChangePriority
<1>2. ListsOK'
  <2> DEFINE rest == Unlinked(rt_thread_priority_table, t)
  <2>1. rest \in [Prios -> Seq(Threads)]
    BY UnlinkedType DEF IInv, ListsOK, TableOK
  <2>2. CASE stat[t] = "READY"
    <3>1. /\ rt_thread_priority_table' = [rest EXCEPT ![p] = Append(@, t)]
          /\ rt_thread_ready_priority_group' = GroupAfterRemove(rest, t) \cup {p}
      BY <2>2 DEF ChangePriority
    <3> HIDE DEF rest
    <3>2. TableOK'
      BY <2>1, <3>1, InsertedType DEF TableOK
    <3>3. GroupOK'
      BY <3>1 DEF IInv, ListsOK, GroupOK, GroupAfterRemove
    <3> QED BY <3>2, <3>3 DEF IInv, ListsOK, DefunctOK, SuspendOK, ChangePriority
  <2>3. CASE stat[t] # "READY"
    BY <2>3, Kept DEF IInv, lists, ChangePriority
  <2> QED BY <2>2, <2>3
<1>3. HartOK'
  BY Kept DEF IInv, ChangePriority
<1>4. StepsOK'
  BY Kept DEF IInv, ChangePriority
<1> QED BY <1>1, <1>2, <1>3, <1>4 DEF IInv

LEMMA EnterCriticalTyped ==
    ASSUME IInv, NEW c \in Threads, EnterCritical(c)
    PROVE  IInv'
<1>1. TcbOK'
  BY Kept DEF IInv, EnterCritical
<1>2. ListsOK'
  BY Kept DEF IInv, EnterCritical
<1>3. HartOK'
  BY KernelAssumption DEF IInv, HartOK, EnterCritical
<1>4. StepsOK'
  BY Kept DEF IInv, EnterCritical
<1> QED BY <1>1, <1>2, <1>3, <1>4 DEF IInv

LEMMA ExitCriticalTyped ==
    ASSUME IInv, NEW c \in Threads, ExitCritical(c)
    PROVE  IInv'
<1>1. TcbOK'
  BY Kept DEF IInv, ExitCritical
<1>2. ListsOK'
  BY Kept DEF IInv, ExitCritical
<1>3. HartOK'
  BY KernelAssumption DEF IInv, HartOK, ExitCritical
<1>4. StepsOK'
  <2>1. << <<"sched", c>> >> \in Seq(Step)
    BY StepSeqs DEF Labels
  <2> QED BY <2>1, Kept, GotoTyped DEF IInv, ExitCritical
<1> QED BY <1>1, <1>2, <1>3, <1>4 DEF IInv

LEMMA ReapTyped ==
    ASSUME IInv, Reap
    PROVE  IInv'
<1>1. TcbOK'
  BY Kept DEF IInv, Reap
<1>2. ListsOK'
  BY HeadTailProperties
     DEF IInv, ListsOK, TableOK, GroupOK, DefunctOK, SuspendOK, queues, Reap
<1>3. HartOK'
  BY <1>2, ScheduleTyped DEF IInv, HartOK, ListsOK, Reap
<1>4. StepsOK'
  <2>1. Head(rt_thread_defunct) \in Threads
    BY HeadTailProperties DEF IInv, ListsOK, DefunctOK, Reap
  <2>2. << <<"free", Head(rt_thread_defunct)>> >> \in Seq(Step)
    BY <2>1, StepSeqs DEF Labels
  <2> QED BY <2>2, KernelAssumption, GotoTyped DEF IInv, Reap
<1> QED BY <1>1, <1>2, <1>3, <1>4 DEF IInv

LEMMA FreeTyped ==
    ASSUME IInv, Free
    PROVE  IInv'
<1>1. TcbOK'
  BY DEF IInv, TcbOK, Stats, Free
<1>2. ListsOK'
  BY Kept DEF IInv, Free
<1>3. HartOK'
  BY Kept DEF IInv, Free
<1>4. StepsOK'
  BY KernelAssumption, ReturnTyped DEF IInv, Free, At
<1> QED BY <1>1, <1>2, <1>3, <1>4 DEF IInv

LEMMA TickEnterTyped ==
    ASSUME IInv, TickEnter
    PROVE  IInv'
<1>1. TcbOK'
  <2>1. rt_current_thread \in Threads
    BY DEF IInv, HartOK, TickEnter
  <2>2. \A n \in 1..InitTick : SliceAfterTick(n) \in 1..InitTick
    BY KernelAssumption DEF SliceAfterTick
  <2>3. remaining_tick' \in [Threads -> 1..InitTick]
    BY <2>1, <2>2 DEF IInv, TcbOK, TickEnter
  <2> QED BY <2>3 DEF IInv, TcbOK, TickEnter
<1>2. ListsOK'
  <2>1. rt_current_thread \in Threads
    BY DEF IInv, HartOK, TickEnter
  <2>2. TableOK' /\ GroupOK'
    BY <2>1, RotatedTyped
       DEF IInv, ListsOK, TableOK, GroupOK, queues, TickEnter
  <2> QED BY <2>2 DEF IInv, ListsOK, DefunctOK, SuspendOK, TickEnter
<1>3. HartOK'
  <2>1. rt_current_thread' \in Threads \cup {NoThread}
    BY <1>2, ScheduleTyped DEF IInv, HartOK, ListsOK, TickEnter
  <2> QED BY <2>1 DEF IInv, HartOK, TickEnter
<1>4. StepsOK'
  BY Kept DEF IInv, TickEnter
<1> QED BY <1>1, <1>2, <1>3, <1>4 DEF IInv

LEMMA ThreadTimeoutTyped ==
    ASSUME IInv, NEW t \in Threads, ThreadTimeout(t)
    PROVE  IInv'
<1>1. TcbOK'
  BY DEF IInv, TcbOK, Stats, Errors, ThreadTimeout, TimerStopped
<1>2. ListsOK'
  <2>1. TableOK'
    <3>1. /\ Unlinked(rt_thread_priority_table, t) \in [Prios -> Seq(Threads)]
          /\ current_priority[t] \in Prios
      BY UnlinkedType DEF IInv, TcbOK, ListsOK, TableOK
    <3> QED BY <3>1, InsertedType DEF TableOK, Inserted, ThreadTimeout
  <2>2. GroupOK'
    BY DEF IInv, TcbOK, ListsOK, GroupOK, ThreadTimeout
  <2>3. DefunctOK' /\ SuspendOK'
    BY RemoveFirstType, UnlinkedType
       DEF IInv, ListsOK, DefunctOK, SuspendOK, ThreadTimeout
  <2> QED BY <2>1, <2>2, <2>3 DEF ListsOK
<1>3. HartOK'
  BY <1>2, ScheduleTyped DEF IInv, HartOK, ListsOK, ThreadTimeout
<1>4. StepsOK'
  BY Kept DEF IInv, ThreadTimeout
<1> QED BY <1>1, <1>2, <1>3, <1>4 DEF IInv

LEMMA TickExitTyped ==
    ASSUME IInv, TickExit
    PROVE  IInv'
<1>1. TcbOK'
  BY Kept DEF IInv, TickExit
<1>2. ListsOK'
  BY Kept DEF IInv, TickExit
<1>3. HartOK'
  BY DEF IInv, HartOK, TickExit
<1>4. StepsOK'
  BY Kept DEF IInv, TickExit
<1> QED BY <1>1, <1>2, <1>3, <1>4 DEF IInv

\* And stays so.
LEMMA StepTyped == IInv /\ [Next]_<<kvars, api>> => IInv'
<1> SUFFICES ASSUME IInv, [Next]_<<kvars, api>> PROVE IInv'
  OBVIOUS
<1>1. ASSUME NEW c \in Threads, ThreadStep(c) PROVE IInv'
  BY <1>1, SchedTyped, ResumeCheckTyped, ResumeUnlinkTyped, ResumeInsertTyped,
     SuspendCheckTyped, SuspendRemoveTyped, SleepReturnTyped,
     DeleteRemoveTyped, DeleteTimerTyped, DeleteCloseTyped,
     DeleteDefunctTyped DEF ThreadStep
<1>2. ASSUME NEW c \in Threads, ThreadCall(c) PROVE IInv'
  <2>1. ASSUME NEW t \in Others(c),
               \/ Create(c, t) \/ Startup(c, t) \/ Delete(c, t)
               \/ ResumeCall(c, t) \/ \E p \in Prios : ChangePriority(c, t, p)
        PROVE  IInv'
    BY <2>1, CreateTyped, StartupTyped, DeleteTyped, ResumeCallTyped,
       ChangePriorityTyped DEF Others
  <2>2. ASSUME NEW t \in Others(c) \cup {c}, SuspendCall(c, t) PROVE IInv'
    BY <2>2, SuspendCallTyped DEF Others
  <2> QED BY <1>2, <2>1, <2>2, YieldTyped, SleepTyped, ExitTyped,
             ScheduleCallTyped, EnterCriticalTyped, ExitCriticalTyped
          DEF ThreadCall
<1>3. CASE IdleStep
  BY <1>3, ReapTyped, FreeTyped DEF IdleStep
<1>4. CASE TickStep
  BY <1>4, TickEnterTyped, ThreadTimeoutTyped, TickExitTyped DEF TickStep
<1>5. CASE UNCHANGED <<kvars, api>>
  BY <1>5, Kept DEF IInv, kvars
<1> QED BY <1>1, <1>2, <1>3, <1>4, <1>5 DEF Next

\* Every variable of the kernel keeps its type, in every application.
THEOREM TypeCorrect == Spec => []TypeOK
<1>1. Spec => []IInv
  BY InitTyped, StepTyped, PTL DEF Spec
<1> QED BY <1>1, IInvIsEnough, PTL

\* So does all that the kernel keeps in memory (TypeOK without the places the
\* threads are at).
THEOREM DataTypesCorrect == Spec => []DataTypeOK
<1>1. TypeOK => DataTypeOK
  BY DEF TypeOK
<1> QED BY <1>1, TypeCorrect, PTL

-----------------------------------------------------------------------------
(* The ready group.                                                        *)

LEMMA RemoveFirstOfEmpty ==
    ASSUME NEW s \in Seq(Threads), NEW t, RemoveFirst(s, t) # <<>>
    PROVE  s # <<>>
BY EmptySeq DEF RemoveFirst

LEMMA UnlinkedNonEmpty ==
    ASSUME NEW table \in [Prios -> Seq(Threads)], NEW t, NEW p \in Prios,
           Unlinked(table, t)[p] # <<>>
    PROVE  table[p] # <<>>
<1>1. Unlinked(table, t)[p] = RemoveFirst(table[p], t)
  BY DEF Unlinked
<1> QED BY <1>1, RemoveFirstOfEmpty

LEMMA InsertedNonEmpty ==
    ASSUME NEW table \in [Prios -> Seq(Threads)], NEW t \in Threads,
           NEW q \in Prios, NEW p \in Prios,
           [table EXCEPT ![q] = Append(@, t)][p] # <<>>
    PROVE  p = q \/ table[p] # <<>>
OBVIOUS

\* What a step does to the ready queue: nothing, a removal, an insertion, ...
LEMMA BitsKept ==
    ASSUME ListsHaveBits, UNCHANGED queues
    PROVE  ListsHaveBits'
BY DEF ListsHaveBits, queues

LEMMA BitsAfterUnlink ==
    ASSUME TableOK, ListsHaveBits, NEW t,
           rt_thread_priority_table' = Unlinked(rt_thread_priority_table, t),
           UNCHANGED rt_thread_ready_priority_group
    PROVE  ListsHaveBits'
BY UnlinkedNonEmpty DEF ListsHaveBits, TableOK

LEMMA BitsAfterRemove ==
    ASSUME TableOK, ListsHaveBits, NEW t,
           rt_thread_priority_table' = Unlinked(rt_thread_priority_table, t),
           rt_thread_ready_priority_group' =
               GroupAfterRemove(rt_thread_priority_table', t)
    PROVE  ListsHaveBits'
BY UnlinkedNonEmpty DEF ListsHaveBits, TableOK, GroupAfterRemove

LEMMA BitsAfterInsert ==
    ASSUME TableOK, TcbOK, ListsHaveBits, NEW t \in Threads,
           rt_thread_priority_table' = Inserted(rt_thread_priority_table, t),
           rt_thread_ready_priority_group' =
               rt_thread_ready_priority_group \cup {current_priority[t]}
    PROVE  ListsHaveBits'
<1>1. current_priority[t] \in Prios
  BY DEF TcbOK
<1> QED BY <1>1, InsertedNonEmpty DEF ListsHaveBits, TableOK, Inserted

\* ... a rotation, which needs the list to have been non-empty, ...
LEMMA BitsAfterRotation ==
    ASSUME TableOK, TcbOK, ListsHaveBits, NEW t \in Threads, Rotates(t),
           rt_thread_priority_table' = Rotated(t),
           UNCHANGED rt_thread_ready_priority_group
    PROVE  ListsHaveBits'
<1>1. current_priority[t] \in Prios
  BY DEF TcbOK
<1>2. rt_thread_priority_table[current_priority[t]] # <<>>
  BY <1>1, EmptySeq DEF Rotates, TableOK
<1>3. Unlinked(rt_thread_priority_table, t) \in [Prios -> Seq(Threads)]
  BY UnlinkedType DEF TableOK
<1> SUFFICES ASSUME NEW p \in Prios, rt_thread_priority_table'[p] # <<>>
             PROVE  p \in rt_thread_ready_priority_group
  BY DEF ListsHaveBits
<1>4. p = current_priority[t] \/ Unlinked(rt_thread_priority_table, t)[p] # <<>>
  BY <1>1, <1>3, InsertedNonEmpty DEF Rotated
<1> QED BY <1>1, <1>2, <1>4, UnlinkedNonEmpty DEF ListsHaveBits, TableOK

\* ... a change of priority, and a timeout.
LEMMA BitsAfterPriority ==
    ASSUME IInv, ListsHaveBits, NEW c \in Threads, NEW t \in Threads,
           NEW p \in Prios, ChangePriority(c, t, p)
    PROVE  ListsHaveBits'
<1> DEFINE rest == Unlinked(rt_thread_priority_table, t)
<1>1. CASE stat[t] # "READY"
  BY <1>1, BitsKept DEF ChangePriority
<1>2. CASE stat[t] = "READY"
  <2>1. /\ rt_thread_priority_table' = [rest EXCEPT ![p] = Append(@, t)]
        /\ rt_thread_ready_priority_group' = GroupAfterRemove(rest, t) \cup {p}
    BY <1>2 DEF ChangePriority
  <2>2. rest \in [Prios -> Seq(Threads)]
    BY UnlinkedType DEF IInv, ListsOK, TableOK
  <2>3. \A q \in Prios : rest[q] # <<>> => q \in GroupAfterRemove(rest, t)
    BY UnlinkedNonEmpty
       DEF IInv, ListsOK, TableOK, ListsHaveBits, GroupAfterRemove
  <2> HIDE DEF rest
  <2> QED BY <2>1, <2>2, <2>3, InsertedNonEmpty DEF ListsHaveBits
<1> QED BY <1>1, <1>2

LEMMA BitsAfterTimeout ==
    ASSUME IInv, ListsHaveBits, NEW t \in Threads, ThreadTimeout(t)
    PROVE  ListsHaveBits'
<1> DEFINE rest == Unlinked(rt_thread_priority_table, t)
<1>1. rest \in [Prios -> Seq(Threads)] /\ current_priority[t] \in Prios
  BY UnlinkedType DEF IInv, TcbOK, ListsOK, TableOK
<1>2. \A q \in Prios : rest[q] # <<>> => q \in rt_thread_ready_priority_group
  BY UnlinkedNonEmpty DEF IInv, ListsOK, TableOK, ListsHaveBits
<1>3. /\ rt_thread_priority_table' =
             [rest EXCEPT ![current_priority[t]] = Append(@, t)]
      /\ rt_thread_ready_priority_group' =
             rt_thread_ready_priority_group \cup {current_priority[t]}
  BY DEF ThreadTimeout, Inserted
<1> HIDE DEF rest
<1> QED BY <1>1, <1>2, <1>3, InsertedNonEmpty DEF ListsHaveBits

LEMMA BitsInit == Init => ListsHaveBits
BY DEF Init, ListsHaveBits

LEMMA BitsStep == IInv /\ ListsHaveBits /\ [Next]_<<kvars, api>> => ListsHaveBits'
<1> SUFFICES ASSUME IInv, ListsHaveBits, [Next]_<<kvars, api>>
             PROVE  ListsHaveBits'
  OBVIOUS
<1>1. TableOK /\ TcbOK
  BY DEF IInv, ListsOK
<1>2. ASSUME NEW c \in Threads, ThreadStep(c) PROVE ListsHaveBits'
  <2>1. CASE Sched(c) \/ ResumeCheck(c) \/ SuspendCheck(c) \/ SleepReturn(c)
             \/ DeleteTimer(c) \/ DeleteClose(c) \/ DeleteDefunct(c)
    BY <2>1, BitsKept DEF Sched, ResumeCheck, SuspendCheck, SleepReturn,
                          DeleteTimer, DeleteClose, DeleteDefunct, lists
  <2>2. CASE ResumeUnlink(c)
    BY <1>1, <2>2, BitsAfterUnlink DEF ResumeUnlink, Unlink
  <2>3. CASE ResumeInsert(c)
    <3>1. Target(c) \in Threads
      BY <2>3, AtTyped DEF IInv, ResumeInsert, At
    <3> QED BY <1>1, <2>3, <3>1, BitsAfterInsert DEF ResumeInsert, InsertThread
  <2>4. CASE SuspendRemove(c) \/ DeleteRemove(c)
    BY <1>1, <2>4, BitsAfterRemove
       DEF SuspendRemove, DeleteRemove, RemoveThread, Unlink
  <2> QED BY <1>2, <2>1, <2>2, <2>3, <2>4 DEF ThreadStep
<1>3. ASSUME NEW c \in Threads, ThreadCall(c) PROVE ListsHaveBits'
  <2>1. CASE Yield(c)
    BY <1>1, <2>1, BitsAfterRotation DEF Yield
  <2>2. CASE Sleep(c)
    BY <1>1, <2>2, BitsAfterRemove, BitsKept DEF Sleep, RemoveThread, Unlink, lists
  <2>3. CASE Exit(c)
    BY <1>1, <2>3, BitsAfterRemove DEF Exit
  <2>4. CASE ScheduleCall(c) \/ EnterCritical(c) \/ ExitCritical(c)
    BY <2>4, BitsKept DEF ScheduleCall, EnterCritical, ExitCritical, lists
  <2>5. ASSUME NEW t \in Others(c),
               Create(c, t) \/ Startup(c, t) \/ Delete(c, t) \/ ResumeCall(c, t)
        PROVE  ListsHaveBits'
    BY <2>5, BitsKept DEF Create, Startup, Delete, ResumeCall, lists
  <2>6. ASSUME NEW t \in Others(c), NEW p \in Prios, ChangePriority(c, t, p)
        PROVE  ListsHaveBits'
    BY <2>6, BitsAfterPriority DEF Others
  <2>7. ASSUME NEW t \in Others(c) \cup {c}, SuspendCall(c, t)
        PROVE  ListsHaveBits'
    BY <2>7, BitsKept DEF SuspendCall, lists
  <2> QED BY <1>3, <2>1, <2>2, <2>3, <2>4, <2>5, <2>6, <2>7 DEF ThreadCall
<1>4. CASE IdleStep
  BY <1>4, BitsKept DEF IdleStep, Reap, Free, lists
<1>5. CASE TickStep
  <2>1. CASE TickEnter
    <3>1. rt_current_thread \in Threads
      BY <2>1 DEF IInv, HartOK, TickEnter
    <3> QED BY <1>1, <2>1, <3>1, BitsAfterRotation, BitsKept DEF TickEnter
  <2>2. CASE TickExit
    BY <2>2, BitsKept DEF TickExit, lists
  <2> QED BY <1>5, <2>1, <2>2, BitsAfterTimeout DEF TickStep
<1>6. CASE UNCHANGED <<kvars, api>>
  BY <1>6, BitsKept DEF kvars, lists
<1> QED BY <1>2, <1>3, <1>4, <1>5, <1>6 DEF Next

\* A ready list with threads has its bit in the ready group, in every
\* application: rt_schedule overlooks no thread, whatever races with what.
THEOREM ListsHaveBitsHolds == Spec => []ListsHaveBits
<1>1. Init => IInv /\ ListsHaveBits
  BY InitTyped, BitsInit
<1>2. IInv /\ ListsHaveBits /\ [Next]_<<kvars, api>> => (IInv /\ ListsHaveBits)'
  BY StepTyped, BitsStep
<1> QED BY <1>1, <1>2, PTL DEF Spec

-----------------------------------------------------------------------------
(* Sequences without repetitions.                                          *)

\* What a sequence becomes when an element in its middle is taken out.
LEMMA RemoveAtElements ==
    ASSUME NEW S, NEW s \in Seq(S), NEW k \in 1..Len(s)
    PROVE  /\ RemoveAt(s, k) \in Seq(S)
           /\ Len(RemoveAt(s, k)) = Len(s) - 1
           /\ \A i \in 1..Len(s)-1 :
                 RemoveAt(s, k)[i] = IF i < k THEN s[i] ELSE s[i+1]
<1> DEFINE a == SubSeq(s, 1, k - 1)
           b == SubSeq(s, k + 1, Len(s))
<1>1. Len(s) \in Nat /\ k \in Nat /\ 1 <= k /\ k <= Len(s)
  BY LenProperties
<1>2. /\ a \in Seq(S) /\ Len(a) = k - 1
      /\ \A i \in 1..k-1 : a[i] = s[i]
  BY <1>1, SubSeqProperties, ElementOfSeq
<1>3. /\ b \in Seq(S) /\ Len(b) = Len(s) - k
      /\ \A i \in 1..Len(s)-k : b[i] = s[k+i]
  <2>1. \A i \in k+1..Len(s) : s[i] \in S
    BY <1>1, ElementOfSeq
  <2>2. /\ b \in Seq(S)
        /\ Len(b) = IF k + 1 <= Len(s) THEN Len(s) - (k + 1) + 1 ELSE 0
        /\ \A i \in 1..Len(s)-(k+1)+1 : b[i] = s[(k+1)+i-1]
    BY <1>1, <2>1, SubSeqProperties
  <2> HIDE DEF b
  <2> QED BY <1>1, <2>2
<1>4. RemoveAt(s, k) = a \o b
  BY DEF RemoveAt
<1> HIDE DEF a, b
<1>5. /\ a \o b \in Seq(S)
      /\ Len(a \o b) = Len(a) + Len(b)
      /\ \A i \in 1..Len(a) + Len(b) :
            (a \o b)[i] = IF i <= Len(a) THEN a[i] ELSE b[i - Len(a)]
  BY <1>2, <1>3, ConcatProperties
<1>6. ASSUME NEW i \in 1..Len(s)-1
      PROVE  (a \o b)[i] = IF i < k THEN s[i] ELSE s[i+1]
  <2>1. CASE i < k
    <3>1. i \in 1..k-1 /\ i <= Len(a)
      BY <1>1, <1>2, <2>1
    <3> QED BY <1>1, <1>2, <1>3, <1>5, <2>1, <3>1
  <2>2. CASE ~(i < k)
    <3>1. i - (k - 1) \in 1..Len(s)-k /\ ~(i <= Len(a))
      BY <1>1, <1>2, <2>2
    <3>2. (a \o b)[i] = b[i - (k - 1)]
      BY <1>1, <1>2, <1>3, <1>5, <3>1
    <3>3. b[i - (k - 1)] = s[k + (i - (k - 1))]
      BY <1>3, <3>1
    <3>4. k + (i - (k - 1)) = i + 1
      BY <1>1
    <3> QED BY <2>2, <3>2, <3>3, <3>4
  <2> QED BY <2>1, <2>2
<1> QED BY <1>1, <1>2, <1>3, <1>4, <1>5, <1>6

\* RemoveFirst takes out the one position the element is at.
LEMMA RemoveFirstAt ==
    ASSUME NEW S, NEW s \in Seq(S), NEW e, e \in Range(s)
    PROVE  \E k \in 1..Len(s) : s[k] = e /\ RemoveFirst(s, e) = RemoveAt(s, k)
<1> DEFINE I == {i \in 1..Len(s) : s[i] = e}
           k == CHOOSE x \in I : \A y \in I : x <= y
<1>1. \E i \in 1..Len(s) : s[i] = e
  BY RangeEquality
<1>2. I \in SUBSET Nat /\ I # {} /\ I \subseteq 1..Len(s)
  BY <1>1, LenProperties
<1>3. RemoveFirst(s, e) = RemoveAt(s, k)
  BY <1>1 DEF RemoveFirst, SelectInSeq, Min
<1> HIDE DEF k
<1>4. k \in I
  <2> HIDE DEF I
  <2>1. \E x \in I : \A y \in I : x <= y
    BY <1>2, HasMinimum
  <2> QED BY <2>1 DEF k
<1> QED BY <1>3, <1>4

\* An element that is not there is not removed.
LEMMA RemoveAbsent ==
    ASSUME NEW S, NEW s \in Seq(S), NEW e, e \notin Range(s)
    PROVE  RemoveFirst(s, e) = s
BY RangeEquality DEF RemoveFirst

\* Out of a list without repetitions it is gone, and nothing else is.
LEMMA RemoveFirstRange ==
    ASSUME NEW S, NEW s \in Seq(S), NEW e, IsInjective(s)
    PROVE  /\ IsInjective(RemoveFirst(s, e))
           /\ Range(RemoveFirst(s, e)) = Range(s) \ {e}
<1>1. CASE e \notin Range(s)
  BY <1>1, RemoveAbsent
<1>2. CASE e \in Range(s)
  <2>1. PICK k \in 1..Len(s) : s[k] = e /\ RemoveFirst(s, e) = RemoveAt(s, k)
    BY <1>2, RemoveFirstAt
  <2> DEFINE r == RemoveAt(s, k)
             n == Len(s) - 1
  <2>2. /\ r \in Seq(S) /\ Len(r) = n
        /\ \A i \in 1..n : r[i] = IF i < k THEN s[i] ELSE s[i+1]
    BY RemoveAtElements
  <2>3. Len(s) \in Nat /\ DOMAIN s = 1..Len(s) /\ DOMAIN r = 1..n
    BY <2>2, LenProperties
  <2>4. \A i, j \in 1..Len(s) : s[i] = s[j] => i = j
    BY <2>3 DEF IsInjective
  <2> HIDE DEF r
  <2>5. IsInjective(r)
    <3> SUFFICES ASSUME NEW i \in 1..n, NEW j \in 1..n, r[i] = r[j] PROVE i = j
      BY <2>3 DEF IsInjective
    <3>1. i \in 1..Len(s) /\ i+1 \in 1..Len(s) /\ j \in 1..Len(s) /\ j+1 \in 1..Len(s)
      BY <2>3
    <3> QED BY <2>2, <2>4, <3>1
  <2>6. Range(r) \subseteq Range(s) \ {e}
    <3> SUFFICES ASSUME NEW i \in 1..n PROVE r[i] \in Range(s) \ {e}
      BY <2>3 DEF Range
    <3>1. i \in 1..Len(s) /\ i+1 \in 1..Len(s)
      BY <2>3
    <3>2. CASE i < k
      <4>1. r[i] = s[i] /\ i # k
        BY <2>2, <2>3, <3>2
      <4>2. s[i] # e
        BY <2>1, <2>4, <3>1, <4>1
      <4> QED BY <2>3, <3>1, <4>1, <4>2 DEF Range
    <3>3. CASE ~(i < k)
      <4>1. r[i] = s[i+1] /\ i+1 # k
        BY <2>2, <2>3, <3>3
      <4>2. s[i+1] # e
        BY <2>1, <2>4, <3>1, <4>1
      <4> QED BY <2>3, <3>1, <4>1, <4>2 DEF Range
    <3> QED BY <3>2, <3>3
  <2>7. Range(s) \ {e} \subseteq Range(r)
    <3> SUFFICES ASSUME NEW i \in 1..Len(s), s[i] # e PROVE s[i] \in Range(r)
      BY <2>3 DEF Range
    <3>1. CASE i < k
      <4>1. i \in 1..n /\ r[i] = s[i]
        BY <2>2, <2>3, <3>1
      <4> QED BY <2>3, <4>1 DEF Range
    <3>2. CASE i > k
      <4>1. i-1 \in 1..n /\ r[i-1] = s[i]
        BY <2>2, <2>3, <3>2
      <4> QED BY <2>3, <4>1 DEF Range
    <3> QED BY <2>1, <3>1, <3>2
  <2> QED BY <2>1, <2>5, <2>6, <2>7 DEF r
<1> QED BY <1>1, <1>2

\* What is appended is there as well, once if it was not there.
LEMMA AppendRange ==
    ASSUME NEW S, NEW s \in Seq(S), NEW e \in S
    PROVE  /\ Range(Append(s, e)) = Range(s) \cup {e}
           /\ IsInjective(s) /\ e \notin Range(s) => IsInjective(Append(s, e))
<1>1. /\ Append(s, e) \in Seq(S) /\ Len(Append(s, e)) = Len(s) + 1
      /\ \A i \in 1..Len(s) : Append(s, e)[i] = s[i]
      /\ Append(s, e)[Len(s) + 1] = e
  BY AppendProperties
<1>2. Len(s) \in Nat /\ DOMAIN s = 1..Len(s) /\ DOMAIN Append(s, e) = 1..Len(s)+1
  BY <1>1, LenProperties
<1>3. 1..Len(s)+1 = 1..Len(s) \cup {Len(s)+1}
  BY <1>2
<1> QED BY <1>1, <1>2, <1>3 DEF Range, IsInjective

\* The same of what is put before the head.
LEMMA ConsRange ==
    ASSUME NEW S, NEW s \in Seq(S), NEW e \in S
    PROVE  /\ <<e>> \o s \in Seq(S)
           /\ Range(<<e>> \o s) = Range(s) \cup {e}
           /\ IsInjective(s) /\ e \notin Range(s) => IsInjective(<<e>> \o s)
<1> DEFINE r == <<e>> \o s
<1>1. <<e>> \in Seq(S) /\ Len(<<e>>) = 1 /\ <<e>>[1] = e
  OBVIOUS
<1>2. Len(s) \in Nat /\ DOMAIN s = 1..Len(s)
  BY LenProperties
<1>3. /\ r \in Seq(S) /\ Len(r) = 1 + Len(s)
      /\ \A i \in 1..1+Len(s) : r[i] = IF i <= 1 THEN e ELSE s[i-1]
  BY <1>1, <1>2, ConcatProperties
<1>4. DOMAIN r = 1..1+Len(s)
  BY <1>3, LenProperties
<1> HIDE DEF r
<1>5. Range(r) = Range(s) \cup {e}
  <2>1. Range(r) \subseteq Range(s) \cup {e}
    <3> SUFFICES ASSUME NEW i \in 1..1+Len(s) PROVE r[i] \in Range(s) \cup {e}
      BY <1>4 DEF Range
    <3>1. i <= 1 \/ i-1 \in 1..Len(s)
      BY <1>2
    <3> QED BY <1>2, <1>3, <3>1 DEF Range
  <2>2. e \in Range(r)
    <3>1. 1 \in 1..1+Len(s) /\ r[1] = e
      BY <1>2, <1>3
    <3> QED BY <1>4, <3>1 DEF Range
  <2>3. ASSUME NEW i \in 1..Len(s) PROVE s[i] \in Range(r)
    <3>1. i+1 \in 1..1+Len(s) /\ r[i+1] = s[i]
      BY <1>2, <1>3
    <3> QED BY <1>4, <3>1 DEF Range
  <2> QED BY <1>2, <2>1, <2>2, <2>3 DEF Range
<1>6. ASSUME IsInjective(s), e \notin Range(s) PROVE IsInjective(r)
  <2> SUFFICES ASSUME NEW i \in 1..1+Len(s), NEW j \in 1..1+Len(s), r[i] = r[j]
               PROVE  i = j
    BY <1>4 DEF IsInjective
  <2>1. \A k \in 1..Len(s) : s[k] # e
    BY <1>2, <1>6 DEF Range
  <2>2. /\ i <= 1 \/ i-1 \in 1..Len(s)
        /\ j <= 1 \/ j-1 \in 1..Len(s)
    BY <1>2
  <2>3. \A k, m \in 1..Len(s) : s[k] = s[m] => k = m
    BY <1>2, <1>6 DEF IsInjective
  <2> QED BY <1>2, <1>3, <2>1, <2>2, <2>3
<1> QED BY <1>3, <1>5, <1>6 DEF r

\* And of what remains behind the head.
LEMMA TailRange ==
    ASSUME NEW S, NEW s \in Seq(S), s # <<>>, IsInjective(s)
    PROVE  /\ Tail(s) \in Seq(S) /\ IsInjective(Tail(s))
           /\ Range(Tail(s)) = Range(s) \ {Head(s)}
           /\ Head(s) \in Range(s)
<1>1. /\ Tail(s) \in Seq(S) /\ Len(Tail(s)) = Len(s) - 1
      /\ \A i \in 1..Len(s)-1 : Tail(s)[i] = s[i+1]
  BY HeadTailProperties
<1>2. /\ Len(s) \in Nat \ {0} /\ DOMAIN s = 1..Len(s) /\ Head(s) = s[1]
      /\ DOMAIN Tail(s) = 1..Len(s)-1
  BY <1>1, LenProperties, EmptySeq
<1> DEFINE r == Tail(s)
<1>3. \A i, j \in 1..Len(s) : s[i] = s[j] => i = j
  BY <1>2 DEF IsInjective
<1> HIDE DEF r
<1>4. \A i \in 1..Len(s)-1 : i+1 \in 1..Len(s)
  BY <1>2
<1>5. IsInjective(r)
  <2> SUFFICES ASSUME NEW i \in 1..Len(s)-1, NEW j \in 1..Len(s)-1, r[i] = r[j]
               PROVE  i = j
    BY <1>2 DEF IsInjective, r
  <2>1. s[i+1] = s[j+1] /\ i+1 \in 1..Len(s) /\ j+1 \in 1..Len(s)
    BY <1>1, <1>4 DEF r
  <2>2. i+1 = j+1
    BY <1>3, <2>1
  <2> QED BY <1>2, <2>2
<1>6. Range(r) \subseteq Range(s) \ {s[1]}
  <2> SUFFICES ASSUME NEW i \in 1..Len(s)-1 PROVE r[i] \in Range(s) \ {s[1]}
    BY <1>2 DEF Range, r
  <2>1. r[i] = s[i+1] /\ i+1 \in 1..Len(s) /\ 1 \in 1..Len(s) /\ i+1 # 1
    BY <1>1, <1>2, <1>4 DEF r
  <2> QED BY <1>2, <1>3, <2>1 DEF Range
<1>7. Range(s) \ {s[1]} \subseteq Range(r)
  <2> SUFFICES ASSUME NEW i \in 1..Len(s), s[i] # s[1] PROVE s[i] \in Range(r)
    BY <1>2 DEF Range
  <2>1. i-1 \in 1..Len(s)-1 /\ (i-1)+1 = i
    BY <1>2
  <2>2. r[i-1] = s[i]
    BY <1>1, <2>1 DEF r
  <2> QED BY <1>2, <2>1, <2>2 DEF Range, r
<1>8. s[1] \in Range(s)
  BY <1>2 DEF Range
<1> QED BY <1>1, <1>2, <1>5, <1>6, <1>7, <1>8 DEF r

\* Only the empty list has nothing in it.
LEMMA EmptyRange ==
    ASSUME NEW S, NEW s \in Seq(S)
    PROVE  s = <<>> <=> Range(s) = {}
<1>1. s = <<>> => Range(s) = {}
  BY DEF Range
<1>2. ASSUME s # <<>> PROVE Range(s) # {}
  <2>1. 1 \in DOMAIN s
    BY <1>2, EmptySeq, LenProperties
  <2> QED BY <2>1 DEF Range
<1> QED BY <1>1, <1>2

-----------------------------------------------------------------------------
(* The lists of the kernel as sets.  Each lemma is about one change of them *)
(* that a masked section makes.                                            *)

QueuedAny(t) == \E p \in Prios : t \in Range(rt_thread_priority_table[p])
WaitsAny(t)  == \E l \in Lists : t \in Range(suspend_thread[l])

\* The ready queue: every thread once, where its state and priority say.
ReadyOnce == \A p \in Prios : IsInjective(rt_thread_priority_table[p])
ReadyInv  == ReadyOnce /\ QueuedIsReady /\ BitsHaveLists /\ ListsHaveBits

\* The defunct list: closed threads.
DefunctOnce ==
    /\ IsInjective(rt_thread_defunct)
    /\ \A t \in Range(rt_thread_defunct) : stat[t] = "CLOSE"

\* The suspend lists: suspended threads, each on one of them.
WaitingOnce ==
    /\ \A l \in Lists : IsInjective(suspend_thread[l])
    /\ \A l \in Lists : \A t \in Range(suspend_thread[l]) : stat[t] = "SUSPEND"
    /\ \A l, m \in Lists : \A t \in Threads :
          t \in Range(suspend_thread[l]) /\ t \in Range(suspend_thread[m]) => l = m

\* The members of the lists are threads.
LEMMA ListsOfThreads ==
    ASSUME IInv
    PROVE  /\ \A p \in Prios : /\ rt_thread_priority_table[p] \in Seq(Threads)
                               /\ Range(rt_thread_priority_table[p]) \subseteq Threads
           /\ \A l \in Lists : /\ suspend_thread[l] \in Seq(Threads)
                               /\ Range(suspend_thread[l]) \subseteq Threads
           /\ rt_thread_defunct \in Seq(Threads)
           /\ Range(rt_thread_defunct) \subseteq Threads
BY RangeOfSeq DEF IInv, ListsOK, TableOK, SuspendOK, DefunctOK

\* Taking a thread off all lists of a kind.
LEMMA ReadyUnlinked ==
    ASSUME IInv, ReadyOnce, NEW t, NEW p \in Prios
    PROVE  /\ IsInjective(Unlinked(rt_thread_priority_table, t)[p])
           /\ Range(Unlinked(rt_thread_priority_table, t)[p]) =
                  Range(rt_thread_priority_table[p]) \ {t}
           /\ t \notin Range(rt_thread_priority_table[p]) =>
                  Unlinked(rt_thread_priority_table, t)[p] = rt_thread_priority_table[p]
<1> DEFINE s == rt_thread_priority_table[p]
<1>1. Unlinked(rt_thread_priority_table, t)[p] = RemoveFirst(s, t)
  BY DEF Unlinked, IInv, ListsOK, TableOK
<1>2. s \in Seq(Threads) /\ IsInjective(s)
  BY ListsOfThreads DEF ReadyOnce
<1> HIDE DEF s
<1>3. IsInjective(RemoveFirst(s, t)) /\ Range(RemoveFirst(s, t)) = Range(s) \ {t}
  BY <1>2, RemoveFirstRange
<1>4. t \notin Range(s) => RemoveFirst(s, t) = s
  BY <1>2, RemoveAbsent
<1> QED BY <1>1, <1>3, <1>4 DEF s

LEMMA WaitingUnlinked ==
    ASSUME IInv, WaitingOnce, NEW t, NEW l \in Lists
    PROVE  /\ IsInjective(Unlinked(suspend_thread, t)[l])
           /\ Range(Unlinked(suspend_thread, t)[l]) = Range(suspend_thread[l]) \ {t}
<1> DEFINE s == suspend_thread[l]
<1>1. Unlinked(suspend_thread, t)[l] = RemoveFirst(s, t)
  BY DEF Unlinked, IInv, ListsOK, SuspendOK
<1>2. s \in Seq(Threads) /\ IsInjective(s)
  BY ListsOfThreads DEF WaitingOnce
<1> HIDE DEF s
<1>3. IsInjective(RemoveFirst(s, t)) /\ Range(RemoveFirst(s, t)) = Range(s) \ {t}
  BY <1>2, RemoveFirstRange
<1> QED BY <1>1, <1>3 DEF s

\* A step that leaves the queue and the threads in it alone.
LEMMA ReadyKept ==
    ASSUME IInv, ReadyInv, UNCHANGED queues,
           \A t \in Threads : QueuedAny(t) =>
               stat'[t] = stat[t] /\ current_priority'[t] = current_priority[t]
    PROVE  ReadyInv'
<1>1. \A p \in Prios : Range(rt_thread_priority_table[p]) \subseteq Threads
  BY ListsOfThreads
<1>2. QueuedIsReady'
  BY <1>1 DEF ReadyInv, QueuedIsReady, QueuedAny, queues
<1> QED BY <1>2 DEF ReadyInv, ReadyOnce, BitsHaveLists, ListsHaveBits, queues

\* rt_schedule_remove_thread: t leaves the queue, and the bit of its priority
\* goes with the last thread of that priority.
LEMMA ReadyAfterRemove ==
    ASSUME IInv, ReadyInv, NEW t \in Threads,
           rt_thread_priority_table' = Unlinked(rt_thread_priority_table, t),
           rt_thread_ready_priority_group' =
               GroupAfterRemove(rt_thread_priority_table', t),
           \A u \in Threads \ {t} :
               stat'[u] = stat[u] /\ current_priority'[u] = current_priority[u]
    PROVE  ReadyInv' /\ ~QueuedAny(t)'
<1>1. rt_thread_priority_table \in [Prios -> Seq(Threads)] /\ ReadyOnce
  BY DEF IInv, ListsOK, TableOK, ReadyInv
<1>2. \A p \in Prios :
        /\ IsInjective(rt_thread_priority_table'[p])
        /\ Range(rt_thread_priority_table'[p]) =
               Range(rt_thread_priority_table[p]) \ {t}
        /\ t \notin Range(rt_thread_priority_table[p]) =>
               rt_thread_priority_table'[p] = rt_thread_priority_table[p]
  BY <1>1, ReadyUnlinked
<1>3. \A p \in Prios : Range(rt_thread_priority_table[p]) \subseteq Threads
  BY ListsOfThreads
<1>4. ReadyOnce' /\ QueuedIsReady' /\ ~QueuedAny(t)'
  BY <1>2, <1>3 DEF ReadyOnce, ReadyInv, QueuedIsReady, QueuedAny
<1>5. BitsHaveLists'
  <2> SUFFICES ASSUME NEW p \in rt_thread_ready_priority_group'
               PROVE  rt_thread_priority_table'[p] # <<>>
    BY DEF BitsHaveLists
  <2>1. p \in rt_thread_ready_priority_group /\ p \in Prios
    BY DEF GroupAfterRemove, IInv, ListsOK, GroupOK
  <2>2. CASE p = current_priority[t]
    BY <2>2 DEF GroupAfterRemove
  <2>3. CASE p # current_priority[t]
    <3>1. t \notin Range(rt_thread_priority_table[p])
      BY <2>1, <2>3 DEF ReadyInv, QueuedIsReady
    <3> QED BY <1>2, <2>1, <3>1 DEF ReadyInv, BitsHaveLists
  <2> QED BY <2>2, <2>3
<1>6. ListsHaveBits'
  BY <1>1, BitsAfterRemove DEF ReadyInv, TableOK
<1> QED BY <1>4, <1>5, <1>6 DEF ReadyInv

\* rt_schedule_insert_thread, of a thread that is not in the queue.
LEMMA ReadyAfterInsert ==
    ASSUME IInv, ReadyInv, NEW t \in Threads, ~QueuedAny(t),
           rt_thread_priority_table' = Inserted(rt_thread_priority_table, t),
           rt_thread_ready_priority_group' =
               rt_thread_ready_priority_group \cup {current_priority[t]},
           stat'[t] = "READY", UNCHANGED current_priority,
           \A u \in Threads \ {t} : stat'[u] = stat[u]
    PROVE  ReadyInv' /\ Queued(t)'
<1> DEFINE q == current_priority[t]
<1>1. q \in Prios /\ rt_thread_priority_table \in [Prios -> Seq(Threads)]
  BY DEF IInv, TcbOK, ListsOK, TableOK
<1>2. /\ rt_thread_priority_table'[q] = Append(rt_thread_priority_table[q], t)
      /\ \A p \in Prios \ {q} :
            rt_thread_priority_table'[p] = rt_thread_priority_table[p]
  BY <1>1 DEF Inserted
<1>3. /\ Range(rt_thread_priority_table'[q]) =
             Range(rt_thread_priority_table[q]) \cup {t}
      /\ IsInjective(rt_thread_priority_table'[q])
      /\ rt_thread_priority_table'[q] # <<>>
  BY <1>1, <1>2, AppendRange, AppendProperties DEF ReadyInv, ReadyOnce, QueuedAny
<1>4. \A p \in Prios : Range(rt_thread_priority_table[p]) \subseteq Threads
  BY ListsOfThreads
<1>5. \A p \in Prios : t \notin Range(rt_thread_priority_table[p])
  BY DEF QueuedAny
<1> HIDE DEF q
<1>6. ReadyOnce'
  BY <1>2, <1>3 DEF ReadyInv, ReadyOnce
<1>7. QueuedIsReady'
  <2> SUFFICES ASSUME NEW p \in Prios, NEW u \in Range(rt_thread_priority_table'[p])
               PROVE  stat'[u] = "READY" /\ current_priority'[u] = p
    BY DEF QueuedIsReady
  <2>1. CASE u = t
    <3>1. p = q
      BY <1>2, <1>5, <2>1
    <3> QED BY <2>1, <3>1 DEF q
  <2>2. CASE u # t
    <3>1. u \in Range(rt_thread_priority_table[p])
      BY <1>2, <1>3, <2>2
    <3> QED BY <1>4, <2>2, <3>1 DEF ReadyInv, QueuedIsReady
  <2> QED BY <2>1, <2>2
<1>8. BitsHaveLists'
  <2> SUFFICES ASSUME NEW p \in rt_thread_ready_priority_group'
               PROVE  rt_thread_priority_table'[p] # <<>>
    BY DEF BitsHaveLists
  <2>1. rt_thread_ready_priority_group \subseteq Prios
    BY DEF IInv, ListsOK, GroupOK
  <2>2. p = q \/ p \in rt_thread_ready_priority_group
    BY DEF q
  <2> QED BY <1>2, <1>3, <2>1, <2>2 DEF ReadyInv, BitsHaveLists
<1>9. ListsHaveBits'
  BY BitsAfterInsert DEF ReadyInv, IInv, ListsOK
<1>10. Queued(t)'
  BY <1>3 DEF Queued, q
<1> QED BY <1>6, <1>7, <1>8, <1>9, <1>10 DEF ReadyInv

\* A thread of the queue moves to the tail of the list of priority p, which a
\* rotation and a change of its priority have in common.
LEMMA ReadyAfterMove ==
    ASSUME IInv, ReadyInv, NEW t \in Threads, NEW p \in Prios, QueuedAny(t),
           rt_thread_priority_table' =
               [Unlinked(rt_thread_priority_table, t) EXCEPT ![p] = Append(@, t)],
           rt_thread_ready_priority_group' =
               GroupAfterRemove(Unlinked(rt_thread_priority_table, t), t) \cup {p},
           UNCHANGED stat, current_priority'[t] = p,
           \A u \in Threads \ {t} : current_priority'[u] = current_priority[u]
    PROVE  ReadyInv' /\ Queued(t)'
<1> DEFINE rest == Unlinked(rt_thread_priority_table, t)
<1>1. rt_thread_priority_table \in [Prios -> Seq(Threads)] /\ ReadyOnce
  BY DEF IInv, ListsOK, TableOK, ReadyInv
<1>2. \A q \in Prios :
        /\ IsInjective(rest[q])
        /\ Range(rest[q]) = Range(rt_thread_priority_table[q]) \ {t}
        /\ t \notin Range(rt_thread_priority_table[q]) =>
               rest[q] = rt_thread_priority_table[q]
  BY <1>1, ReadyUnlinked
<1>3. rest \in [Prios -> Seq(Threads)]
  BY <1>1, UnlinkedType
<1>4. \A q \in Prios : Range(rt_thread_priority_table[q]) \subseteq Threads
  BY ListsOfThreads
<1>5. stat[t] = "READY"
  BY DEF QueuedAny, ReadyInv, QueuedIsReady
<1>6. /\ rt_thread_priority_table' = [rest EXCEPT ![p] = Append(@, t)]
      /\ rt_thread_ready_priority_group' = GroupAfterRemove(rest, t) \cup {p}
  OBVIOUS
<1> HIDE DEF rest
<1>7. /\ rt_thread_priority_table'[p] = Append(rest[p], t)
      /\ \A q \in Prios \ {p} : rt_thread_priority_table'[q] = rest[q]
  BY <1>3, <1>6
<1>8. /\ Range(rt_thread_priority_table'[p]) = Range(rest[p]) \cup {t}
      /\ IsInjective(rt_thread_priority_table'[p])
      /\ rt_thread_priority_table'[p] # <<>>
  <2>1. t \notin Range(rest[p]) /\ rest[p] \in Seq(Threads) /\ IsInjective(rest[p])
    BY <1>2, <1>3
  <2>2. /\ Range(Append(rest[p], t)) = Range(rest[p]) \cup {t}
        /\ IsInjective(Append(rest[p], t))
    BY <2>1, AppendRange
  <2>3. Append(rest[p], t) # <<>>
    BY <2>1, AppendProperties
  <2> QED BY <1>7, <2>2, <2>3
<1>9. ReadyOnce'
  BY <1>2, <1>7, <1>8 DEF ReadyOnce
<1>10. QueuedIsReady'
  <2> SUFFICES ASSUME NEW q \in Prios, NEW u \in Range(rt_thread_priority_table'[q])
               PROVE  stat'[u] = "READY" /\ current_priority'[u] = q
    BY DEF QueuedIsReady
  <2>1. CASE u = t
    <3>1. q = p
      BY <1>2, <1>7, <2>1
    <3> QED BY <1>5, <2>1, <3>1
  <2>2. CASE u # t
    <3>1. u \in Range(rt_thread_priority_table[q])
      BY <1>2, <1>7, <1>8, <2>2
    <3> QED BY <1>4, <2>2, <3>1 DEF ReadyInv, QueuedIsReady
  <2> QED BY <2>1, <2>2
<1>11. BitsHaveLists'
  <2> SUFFICES ASSUME NEW q \in rt_thread_ready_priority_group', q # p
               PROVE  rt_thread_priority_table'[q] # <<>>
    BY <1>8 DEF BitsHaveLists
  <2>1. q \in GroupAfterRemove(rest, t)
    BY <1>6
  <2>2. q \in rt_thread_ready_priority_group /\ q \in Prios
    BY <2>1 DEF GroupAfterRemove, IInv, ListsOK, GroupOK
  <2>3. CASE q = current_priority[t]
    BY <1>7, <2>1, <2>2, <2>3 DEF GroupAfterRemove
  <2>4. CASE q # current_priority[t]
    <3>1. t \notin Range(rt_thread_priority_table[q])
      BY <2>2, <2>4 DEF ReadyInv, QueuedIsReady
    <3> QED BY <1>2, <1>7, <2>2, <3>1 DEF ReadyInv, BitsHaveLists
  <2> QED BY <2>3, <2>4
<1>12. ListsHaveBits'
  <2>1. \A q \in Prios : rest[q] # <<>> => q \in GroupAfterRemove(rest, t)
    BY <1>1, UnlinkedNonEmpty DEF rest, ReadyInv, ListsHaveBits, GroupAfterRemove
  <2> QED BY <1>6, <1>7, <2>1 DEF ListsHaveBits
<1>13. Queued(t)'
  BY <1>8 DEF Queued
<1> QED BY <1>9, <1>10, <1>11, <1>12, <1>13 DEF ReadyInv

\* rt_thread_yield and the end of a time slice.
LEMMA ReadyAfterRotation ==
    ASSUME IInv, ReadyInv, NEW t \in Threads, Queued(t),
           rt_thread_priority_table' = Rotated(t),
           UNCHANGED <<rt_thread_ready_priority_group, stat, current_priority>>
    PROVE  ReadyInv' /\ Queued(t)'
<1> DEFINE p == current_priority[t]
<1>1. p \in Prios
  BY DEF IInv, TcbOK
<1>2. QueuedAny(t)
  BY <1>1 DEF Queued, QueuedAny
<1>3. p \in rt_thread_ready_priority_group
  <2>1. rt_thread_priority_table[p] # <<>>
    BY EmptyRange DEF Queued, Range
  <2> QED BY <1>1, <2>1 DEF ReadyInv, ListsHaveBits
<1>4. rt_thread_ready_priority_group' =
         GroupAfterRemove(Unlinked(rt_thread_priority_table, t), t) \cup {p}
  BY <1>3 DEF GroupAfterRemove
<1>5. rt_thread_priority_table' =
         [Unlinked(rt_thread_priority_table, t) EXCEPT ![p] = Append(@, t)]
  BY DEF Rotated
<1>6. /\ current_priority'[t] = p /\ UNCHANGED stat
      /\ \A u \in Threads \ {t} : current_priority'[u] = current_priority[u]
  OBVIOUS
<1> HIDE DEF p
<1> QED BY <1>1, <1>2, <1>4, <1>5, <1>6, ReadyAfterMove

\* The defunct list.
LEMMA DefunctKept ==
    ASSUME IInv, DefunctOnce,
           \/ UNCHANGED rt_thread_defunct
           \/ \E t \in Threads : rt_thread_defunct' = RemoveFirst(rt_thread_defunct, t)
           \/ rt_thread_defunct # <<>> /\ rt_thread_defunct' = Tail(rt_thread_defunct),
           \A t \in Range(rt_thread_defunct') : stat'[t] = stat[t]
    PROVE  DefunctOnce' /\ Range(rt_thread_defunct') \subseteq Range(rt_thread_defunct)
<1>1. rt_thread_defunct \in Seq(Threads)
  BY ListsOfThreads
<1>2. /\ IsInjective(rt_thread_defunct')
      /\ Range(rt_thread_defunct') \subseteq Range(rt_thread_defunct)
  <2>1. IsInjective(rt_thread_defunct)
    BY DEF DefunctOnce
  <2>2. ASSUME NEW t \in Threads, rt_thread_defunct' = RemoveFirst(rt_thread_defunct, t)
        PROVE  /\ IsInjective(rt_thread_defunct')
               /\ Range(rt_thread_defunct') \subseteq Range(rt_thread_defunct)
    BY <1>1, <2>1, <2>2, RemoveFirstRange
  <2>3. ASSUME rt_thread_defunct # <<>>, rt_thread_defunct' = Tail(rt_thread_defunct)
        PROVE  /\ IsInjective(rt_thread_defunct')
               /\ Range(rt_thread_defunct') \subseteq Range(rt_thread_defunct)
    BY <1>1, <2>1, <2>3, TailRange
  <2> QED BY <2>1, <2>2, <2>3
<1> QED BY <1>2 DEF DefunctOnce

LEMMA DefunctAfterClose ==
    ASSUME IInv, DefunctOnce, NEW t \in Threads, t \notin Range(rt_thread_defunct),
           rt_thread_defunct' = <<t>> \o rt_thread_defunct,
           stat'[t] = "CLOSE", \A u \in Threads \ {t} : stat'[u] = stat[u]
    PROVE  DefunctOnce'
           /\ Range(rt_thread_defunct') = Range(rt_thread_defunct) \cup {t}
<1>1. /\ rt_thread_defunct \in Seq(Threads)
      /\ Range(rt_thread_defunct) \subseteq Threads
  BY ListsOfThreads
<1>2. /\ IsInjective(rt_thread_defunct')
      /\ Range(rt_thread_defunct') = Range(rt_thread_defunct) \cup {t}
  BY <1>1, ConsRange DEF DefunctOnce
<1> QED BY <1>1, <1>2 DEF DefunctOnce

\* The suspend lists.
LEMMA WaitingKept ==
    ASSUME IInv, WaitingOnce, UNCHANGED suspend_thread,
           \A t \in Threads : WaitsAny(t) => stat'[t] = stat[t]
    PROVE  WaitingOnce'
<1>1. \A l \in Lists : Range(suspend_thread[l]) \subseteq Threads
  BY ListsOfThreads
<1> QED BY <1>1 DEF WaitingOnce, WaitsAny

LEMMA WaitingAfterUnlink ==
    ASSUME IInv, WaitingOnce, NEW t \in Threads,
           suspend_thread' = Unlinked(suspend_thread, t),
           \A u \in Threads \ {t} : stat'[u] = stat[u]
    PROVE  /\ WaitingOnce' /\ ~WaitsAny(t)'
           /\ \A u \in Threads : WaitsAny(u)' => WaitsAny(u)
<1>1. \A l \in Lists : Range(suspend_thread[l]) \subseteq Threads
  BY ListsOfThreads
<1>2. suspend_thread \in [Lists -> Seq(Threads)]
  BY DEF IInv, ListsOK, SuspendOK
<1>3. \A l \in Lists : /\ IsInjective(suspend_thread'[l])
                       /\ Range(suspend_thread'[l]) = Range(suspend_thread[l]) \ {t}
  BY <1>2, WaitingUnlinked
<1> QED BY <1>1, <1>3 DEF WaitingOnce, WaitsAny

-----------------------------------------------------------------------------
(* Applications in which no calls race.  A call that manages a thread from  *)
(* outside reads its state in one step and acts on it in later ones: it is  *)
(* safe when no other call can change the state in between.                 *)

Managing == {"startup", "delete", "suspend", "resume", "priority"}

Manages(f, c) == f[c] \cap {"delete", "suspend", "resume"} # {}

\* If there is a manager it is the only one; whom it deletes or resumes does not
\* wait for a time, whom it deletes or suspends does not end by itself; and no
\* thread ends with the scheduler locked.
Orderly(f) ==
    /\ \A c, d \in Threads : Manages(f, c) /\ c # d => f[d] \cap Managing = {}
    /\ \A c \in Threads : \A t \in Others(c) :
          /\ f[c] \cap {"delete", "resume"} # {} => "sleep" \notin f[t]
          /\ f[c] \cap {"delete", "suspend"} # {} => "exit" \notin f[t]
    /\ \A c \in Threads : ~ {"lock", "exit"} \subseteq f[c]

AppOK == api \in Apis /\ Orderly(api)

\* The next step of c has such a label and is about t.
Does(c, labels, t) ==
    pc[c] # <<>> /\ Head(pc[c])[1] \in labels /\ Head(pc[c])[2] = t

Resuming   == {"resume", "unlink", "insert"}
Suspending == {"suspend", "remove"}
Deleting   == {"dremove", "dtimer", "dclose", "ddefunct"}
Owning     == Resuming \cup Suspending \cup Deleting

\* What a call has still to do, as it follows from its next step.
Startings(t, c) == {<< <<"resume", t>>, <<"sched", c>> >>,
                    << <<"unlink", t>>, <<"insert", t>>, <<"sched", c>> >>,
                    << <<"insert", t>>, <<"sched", c>> >>}
Resumings(t)    == {<< <<"resume", t>> >>, << <<"unlink", t>>, <<"insert", t>> >>,
                    << <<"insert", t>> >>}
Suspendings(t)  == {<< <<"suspend", t>> >>, << <<"remove", t>> >>}
Parkings(c)     == {<< <<"suspend", c>>, <<"sched", c>> >>,
                    << <<"remove", c>>, <<"sched", c>> >>}
Detachings(t)   == {<< <<"dremove", t>>, <<"dtimer", t>>, <<"dclose", t>> >>,
                    << <<"dtimer", t>>, <<"dclose", t>> >>,
                    << <<"dclose", t>> >>}
Deletings(t)    == {<< <<"dremove", t>>, <<"dtimer", t>>, <<"dclose", t>>,
                       <<"ddefunct", t>> >>,
                    << <<"dtimer", t>>, <<"dclose", t>>, <<"ddefunct", t>> >>,
                    << <<"dclose", t>>, <<"ddefunct", t>> >>,
                    << <<"ddefunct", t>> >>}

\* A call that works on no thread from outside.
Foreign(s) == \A i \in DOMAIN s : s[i][1] \notin Owning \cup {"free"}

\* A call of c that works on t.
Works(c, t) ==
    \/ pc[c] \in Startings(t, c) /\ "startup" \in api[c]
    \/ pc[c] \in Resumings(t) /\ "resume" \in api[c]
    \/ pc[c] \in Suspendings(t) /\ "suspend" \in api[c]
    \/ pc[c] \in Detachings(t) \cup Deletings(t) /\ "delete" \in api[c]

Shape(c) ==
    \/ Foreign(pc[c])
    \/ \E t \in Others(c) : Works(c, t)
    \/ pc[c] \in Parkings(c) /\ "park" \in api[c]
    \/ c = Idle /\ \E t \in Threads : pc[c] = << <<"free", t>> >>

ShapeOK == \A c \in Threads : Shape(c)

\* No list, no timer and no hart has hold of t.
Loose(t)    == ~QueuedAny(t) /\ t \notin armed /\ t # rt_current_thread
Asleep(t)   == stat[t] = "SUSPEND" /\ Loose(t)
Detached(t) == Loose(t) /\ ~WaitsAny(t)
Gone(t)     == /\ stat[t] = "CLOSE" /\ t \notin Range(rt_thread_defunct)
               /\ t # rt_current_thread

\* What the next step of c relies on when it is about t.
Claim(c, t) ==
    /\ Does(c, {"resume"}, t) => "resume" \in api[c] \/ Asleep(t)
    /\ Does(c, {"unlink"}, t) => Asleep(t)
    /\ Does(c, {"insert"}, t) => Asleep(t) /\ ~WaitsAny(t)
    /\ Does(c, {"remove"}, t) => c = t \/ stat[t] \in {"READY", "SUSPEND"}
    /\ Does(c, {"dremove"}, t) => stat[t] \in {"READY", "SUSPEND"}
    /\ Does(c, {"dtimer", "dclose"}, t) =>
          stat[t] \in {"INIT", "READY", "SUSPEND"} /\ Detached(t)
    /\ Does(c, {"ddefunct"}, t) => Gone(t) /\ ~Does(Idle, {"free"}, t)
    /\ Does(c, {"free"}, t) => Gone(t)

Claims == \A c, t \in Threads : Claim(c, t)

\* One call at a time works on a thread from outside.
OneOwner ==
    \A c, d, t \in Threads :
        Does(c, Owning, t) /\ Does(d, Owning, t) /\ c # t /\ d # t => c = d

\* A thread that has ended is not in the middle of such a call.
DeadOwnNothing ==
    \A c, t \in Threads : stat[c] \in {"NONE", "CLOSE"} /\ Does(c, Owning, t) => c = t

\* A READY thread is queued, or on its way out.
NobodyLost ==
    \A t \in Threads : stat[t] = "READY" =>
        Queued(t) \/ \E c \in Threads : Does(c, {"dtimer", "dclose"}, t)

\* Only a thread that waits for a time has its timer running.
TimersOK == \A t \in armed : stat[t] = "SUSPEND" /\ "sleep" \in api[t]

\* The running thread is READY, or about to give the hart up, or has locked the
\* scheduler; and there is always the idle thread.
Leaving(c) ==
    \/ stat[c] = "SUSPEND"
       /\ (rt_scheduler_lock_nest > 0 \/ Does(c, {"sched"}, c))
    \/ stat[c] = "CLOSE" /\ rt_scheduler_lock_nest = 0
       /\ pc[c] = << <<"sched", c>> >>

CurrentOK ==
    /\ rt_current_thread \in Threads
    /\ stat[rt_current_thread] = "READY" \/ Leaving(rt_current_thread)
    /\ rt_scheduler_lock_nest > 0 => "lock" \in api[rt_current_thread]
    /\ stat[Idle] = "READY"

StepsInv == ShapeOK /\ Claims /\ OneOwner /\ DeadOwnNothing
DataInv  == ReadyInv /\ DefunctOnce /\ WaitingOnce /\ NobodyLost /\ TimersOK
OInv     == AppOK /\ StepsInv /\ DataInv /\ CurrentOK

-----------------------------------------------------------------------------
(* What the next step of a call says of the call.                          *)

\* The call of a thread that works on t.
LEMMA OwnerShape ==
    ASSUME IInv, ShapeOK, NEW c \in Threads, NEW t, Does(c, Owning, t)
    PROVE  \/ t \in Others(c) /\ Works(c, t)
           \/ t = c /\ pc[c] \in Parkings(c) /\ "park" \in api[c]
<1>1. pc[c] \in Seq(Step) /\ pc[c] # <<>> /\ Head(pc[c])[1] \in Owning /\ Head(pc[c])[2] = t
  BY DEF Does, IInv, StepsOK
<1>2. ~Foreign(pc[c])
  <2>1. 1 \in DOMAIN pc[c] /\ Head(pc[c]) = pc[c][1]
    BY <1>1, HeadTailProperties, EmptySeq, LenProperties
  <2> QED BY <1>1, <2>1 DEF Foreign
<1>3. \A u \in Others(c) : Works(c, u) => u = t
  BY <1>1 DEF Works, Startings, Resumings, Suspendings, Detachings, Deletings
<1>4. pc[c] \in Parkings(c) => c = t
  BY <1>1 DEF Parkings
<1>5. \A u \in Threads : pc[c] # << <<"free", u>> >>
  BY <1>1 DEF Owning, Resuming, Suspending, Deleting
<1> QED BY <1>2, <1>3, <1>4, <1>5 DEF ShapeOK, Shape

\* The call and the next step, together.
LEMMA NextResuming ==
    ASSUME IInv, ShapeOK, NEW c \in Threads, NEW t, Does(c, Resuming, t)
    PROVE  /\ t \in Others(c)
           /\ \/ /\ "startup" \in api[c]
                 /\ \/ pc[c] = << <<"resume", t>>, <<"sched", c>> >>
                    \/ pc[c] = << <<"unlink", t>>, <<"insert", t>>, <<"sched", c>> >>
                    \/ pc[c] = << <<"insert", t>>, <<"sched", c>> >>
              \/ /\ "resume" \in api[c]
                 /\ \/ pc[c] = << <<"resume", t>> >>
                    \/ pc[c] = << <<"unlink", t>>, <<"insert", t>> >>
                    \/ pc[c] = << <<"insert", t>> >>
<1>1. pc[c] # <<>> /\ Head(pc[c])[1] \in Resuming
  BY DEF Does
<1>2. Does(c, Owning, t)
  BY DEF Does, Owning
<1>3. Head(pc[c])[1] \notin Suspending \cup Deleting
  BY <1>1 DEF Resuming, Suspending, Deleting
<1>4. pc[c] \notin Parkings(c) /\ pc[c] \notin Suspendings(t)
  BY <1>3 DEF Suspending, Parkings, Suspendings
<1>5. pc[c] \notin Detachings(t) \cup Deletings(t)
  BY <1>3 DEF Deleting, Detachings, Deletings
<1> QED BY <1>2, <1>4, <1>5, OwnerShape DEF Works, Startings, Resumings

LEMMA NextSuspending ==
    ASSUME IInv, ShapeOK, NEW c \in Threads, NEW t, Does(c, Suspending, t)
    PROVE  \/ /\ t \in Others(c) /\ "suspend" \in api[c]
              /\ \/ pc[c] = << <<"suspend", t>> >>
                 \/ pc[c] = << <<"remove", t>> >>
           \/ /\ t = c /\ "park" \in api[c]
              /\ \/ pc[c] = << <<"suspend", c>>, <<"sched", c>> >>
                 \/ pc[c] = << <<"remove", c>>, <<"sched", c>> >>
<1>1. pc[c] # <<>> /\ Head(pc[c])[1] \in Suspending
  BY DEF Does
<1>2. Does(c, Owning, t)
  BY DEF Does, Owning
<1>3. Head(pc[c])[1] \notin Resuming \cup Deleting
  BY <1>1 DEF Resuming, Suspending, Deleting
<1>4. pc[c] \notin Startings(t, c) \cup Resumings(t)
  BY <1>3 DEF Resuming, Startings, Resumings
<1>5. pc[c] \notin Detachings(t) \cup Deletings(t)
  BY <1>3 DEF Deleting, Detachings, Deletings
<1> QED BY <1>2, <1>4, <1>5, OwnerShape DEF Works, Suspendings, Parkings

LEMMA NextDeleting ==
    ASSUME IInv, ShapeOK, NEW c \in Threads, NEW t, Does(c, Deleting, t)
    PROVE  /\ t \in Others(c) /\ "delete" \in api[c]
           /\ pc[c] \in Detachings(t) \cup Deletings(t)
<1>1. pc[c] # <<>> /\ Head(pc[c])[1] \in Deleting
  BY DEF Does
<1>2. Does(c, Owning, t)
  BY DEF Does, Owning
<1>3. Head(pc[c])[1] \notin Resuming \cup Suspending
  BY <1>1 DEF Resuming, Suspending, Deleting
<1>4. pc[c] \notin Startings(t, c) \cup Resumings(t)
  BY <1>3 DEF Resuming, Startings, Resumings
<1>5. pc[c] \notin Suspendings(t) /\ pc[c] \notin Parkings(c)
  BY <1>3 DEF Suspending, Suspendings, Parkings
<1> QED BY <1>2, <1>4, <1>5, OwnerShape DEF Works

LEMMA NextFree ==
    ASSUME IInv, ShapeOK, NEW c \in Threads, NEW t, Does(c, {"free"}, t)
    PROVE  c = Idle /\ pc[c] = << <<"free", t>> >>
<1>1. pc[c] \in Seq(Step) /\ pc[c] # <<>> /\ Head(pc[c])[1] = "free" /\ Head(pc[c])[2] = t
  BY DEF Does, IInv, StepsOK
<1>2. ~Foreign(pc[c])
  <2>1. 1 \in DOMAIN pc[c] /\ Head(pc[c]) = pc[c][1]
    BY <1>1, HeadTailProperties, EmptySeq, LenProperties
  <2> QED BY <1>1, <2>1 DEF Foreign
<1>3. \A u \in Others(c) : ~Works(c, u)
  BY <1>1 DEF Works, Startings, Resumings, Suspendings, Detachings, Deletings
<1>4. pc[c] \notin Parkings(c)
  BY <1>1 DEF Parkings
<1> QED BY <1>1, <1>2, <1>3, <1>4 DEF ShapeOK, Shape

\* A call that works on no thread goes on that way.
LEMMA NextForeign ==
    ASSUME IInv, ShapeOK, NEW c \in Threads, pc[c] # <<>>,
           Head(pc[c])[1] \notin Owning \cup {"free"}
    PROVE  Foreign(Tail(pc[c]))
<1>1. pc[c] \in Seq(Step)
  BY DEF IInv, StepsOK
<1>2. \A u \in Others(c) : ~Works(c, u)
  BY DEF Works, Startings, Resumings, Suspendings, Detachings, Deletings,
         Owning, Resuming, Suspending, Deleting
<1>3. pc[c] \notin Parkings(c) /\ \A u \in Threads : pc[c] # << <<"free", u>> >>
  BY DEF Parkings, Owning, Suspending
<1>4. Foreign(pc[c])
  BY <1>2, <1>3 DEF ShapeOK, Shape
<1>5. /\ Tail(pc[c]) \in Seq(Step) /\ Len(Tail(pc[c])) = Len(pc[c]) - 1
      /\ \A i \in 1..Len(pc[c])-1 : Tail(pc[c])[i] = pc[c][i+1]
      /\ Len(pc[c]) \in Nat /\ DOMAIN pc[c] = 1..Len(pc[c])
      /\ DOMAIN Tail(pc[c]) = 1..Len(pc[c])-1
  BY <1>1, HeadTailProperties, LenProperties
<1>6. \A i \in 1..Len(pc[c])-1 : i+1 \in 1..Len(pc[c])
  BY <1>5
<1> QED BY <1>4, <1>5, <1>6 DEF Foreign

\* Short calls that work on no thread.
LEMMA ForeignShort ==
    ASSUME NEW c
    PROVE  Foreign(<<>>) /\ Foreign(<< <<"sched", c>> >>)
           /\ Foreign(<< <<"sched", c>>, <<"awake", c>> >>)
BY DEF Foreign, Owning, Resuming, Suspending, Deleting

-----------------------------------------------------------------------------
(* What a step leaves alone.                                               *)

\* The step does nothing to u, or lets go of it.
Untouched(u) ==
    /\ stat'[u] = stat[u]
    /\ QueuedAny(u)' => QueuedAny(u)
    /\ WaitsAny(u)' => WaitsAny(u)
    /\ u \in armed' => u \in armed
    /\ u \in Range(rt_thread_defunct') => u \in Range(rt_thread_defunct)

\* The hart stays with its thread or goes to one of the ready queue.
HartMoves == rt_current_thread' = rt_current_thread \/ QueuedAny(rt_current_thread)'

LEMMA HartAway ==
    ASSUME IInv', ReadyInv', HartMoves, NEW t \in Threads, t # rt_current_thread,
           ~QueuedAny(t)' \/ stat'[t] # "READY"
    PROVE  t # rt_current_thread'
BY DEF HartMoves, QueuedAny, ReadyInv, QueuedIsReady

LEMMA DoesKept ==
    ASSUME NEW d \in Threads, pc'[d] = pc[d]
    PROVE  \A labels, t : Does(d, labels, t)' <=> Does(d, labels, t)
BY DEF Does

\* What a call relies on survives the steps that have nothing to do with it.
LEMMA ClaimKept ==
    ASSUME IInv', ReadyInv', NEW d \in Threads, NEW u \in Threads, Claim(d, u),
           pc'[d] = pc[d], api' = api, Untouched(u), HartMoves,
           Does(Idle, {"free"}, u)' => Does(Idle, {"free"}, u)
    PROVE  Claim(d, u)'
<1>1. \A labels : Does(d, labels, u)' => Does(d, labels, u)
  BY DoesKept
<1>2. Loose(u) => Loose(u)'
  BY HartAway DEF Loose, Untouched
<1>3. /\ Asleep(u) => Asleep(u)'
      /\ Detached(u) => Detached(u)'
      /\ ~WaitsAny(u) => ~WaitsAny(u)'
  BY <1>2 DEF Asleep, Detached, Untouched
<1>4. Gone(u) => Gone(u)'
  <2> SUFFICES ASSUME Gone(u) PROVE Gone(u)'
    OBVIOUS
  <2>1. stat'[u] = "CLOSE" /\ u \notin Range(rt_thread_defunct')
    BY DEF Gone, Untouched
  <2>2. u # rt_current_thread'
    BY <2>1, HartAway DEF Gone
  <2> QED BY <2>1, <2>2 DEF Gone
<1>5. stat'[u] = stat[u]
  BY DEF Untouched
<1>6. (Does(d, {"resume"}, u) => "resume" \in api[d] \/ Asleep(u))'
  BY <1>1, <1>3 DEF Claim
<1>7. (Does(d, {"unlink"}, u) => Asleep(u))'
  BY <1>1, <1>3 DEF Claim
<1>8. (Does(d, {"insert"}, u) => Asleep(u) /\ ~WaitsAny(u))'
  BY <1>1, <1>3 DEF Claim
<1>9. (Does(d, {"remove"}, u) => d = u \/ stat[u] \in {"READY", "SUSPEND"})'
  BY <1>1, <1>5 DEF Claim
<1>10. (Does(d, {"dremove"}, u) => stat[u] \in {"READY", "SUSPEND"})'
  BY <1>1, <1>5 DEF Claim
<1>11. (Does(d, {"dtimer", "dclose"}, u) =>
          stat[u] \in {"INIT", "READY", "SUSPEND"} /\ Detached(u))'
  BY <1>1, <1>3, <1>5 DEF Claim
<1>12. (Does(d, {"ddefunct"}, u) => Gone(u) /\ ~Does(Idle, {"free"}, u))'
  BY <1>1, <1>4 DEF Claim
<1>13. (Does(d, {"free"}, u) => Gone(u))'
  BY <1>1, <1>4 DEF Claim
<1> QED BY <1>6, <1>7, <1>8, <1>9, <1>10, <1>11, <1>12, <1>13 DEF Claim

\* One step of c that works on t at most.
LEMMA StepsKept ==
    ASSUME IInv, IInv', StepsInv, ReadyInv', NEW c \in Threads, NEW t \in Threads,
           \A d \in Threads \ {c} : pc'[d] = pc[d], api' = api,
           \A u \in Threads \ {t} : Untouched(u), HartMoves,
           \A u \in Threads \ {t} :
               Does(Idle, {"free"}, u)' => Does(Idle, {"free"}, u),
           Shape(c)', \A u \in Threads : Claim(c, u)',
           \A d \in Threads \ {c} : Claim(d, t)',
           \A u \in Threads \ {c} : Does(c, Owning, u)' =>
               \A d \in Threads \ {c, u} : ~Does(d, Owning, u),
           stat'[c] \in {"NONE", "CLOSE"} => \A u \in Threads : ~Does(c, Owning, u)',
           stat'[t] \in {"NONE", "CLOSE"} =>
               \A u \in Threads : Does(t, Owning, u)' => u = t
    PROVE  StepsInv'
<1>1. ShapeOK'
  <2>1. ASSUME NEW d \in Threads \ {c} PROVE Shape(d)'
    <3>1. Shape(d) /\ pc'[d] = pc[d] /\ api' = api
      BY DEF StepsInv, ShapeOK
    <3> QED BY <3>1 DEF Shape, Works
  <2> QED BY <2>1 DEF ShapeOK
<1>2. Claims'
  <2>1. ASSUME NEW d \in Threads \ {c}, NEW u \in Threads \ {t} PROVE Claim(d, u)'
    <3>1. Claim(d, u) /\ Untouched(u) /\ pc'[d] = pc[d]
      BY DEF StepsInv, Claims
    <3> QED BY <3>1, ClaimKept
  <2> QED BY <2>1 DEF Claims
<1>3. OneOwner'
  <2>1. ASSUME NEW d \in Threads \ {c}, NEW u \in Threads
        PROVE  Does(d, Owning, u)' <=> Does(d, Owning, u)
    BY DoesKept
  <2> SUFFICES ASSUME NEW d \in Threads, NEW e \in Threads, NEW u \in Threads,
                      Does(d, Owning, u)', Does(e, Owning, u)', d # u, e # u
               PROVE  d = e
    BY DEF OneOwner
  <2>2. CASE d # c /\ e # c
    BY <2>1, <2>2 DEF StepsInv, OneOwner
  <2>3. CASE d = c /\ e # c
    BY <2>1, <2>3
  <2>4. CASE d # c /\ e = c
    BY <2>1, <2>4
  <2> QED BY <2>2, <2>3, <2>4
<1>4. DeadOwnNothing'
  <2> SUFFICES ASSUME NEW d \in Threads, NEW u \in Threads, Does(d, Owning, u)',
                      stat'[d] \in {"NONE", "CLOSE"}, d # c, d # t
               PROVE  d = u
    BY DEF DeadOwnNothing
  <2>1. Does(d, Owning, u)
    BY DoesKept
  <2>2. stat'[d] = stat[d]
    BY DEF Untouched
  <2> QED BY <2>1, <2>2 DEF StepsInv, DeadOwnNothing
<1> QED BY <1>1, <1>2, <1>3, <1>4 DEF StepsInv

\* A manager works alone.
LEMMA Sole ==
    ASSUME IInv, AppOK, ShapeOK, NEW c \in Threads, Manages(api, c),
           NEW d \in Threads \ {c}, NEW u, Does(d, Owning, u)
    PROVE  u = d
<1>1. api[d] \cap Managing = {}
  BY DEF AppOK, Orderly
<1>2. ~Works(d, u)
  BY <1>1 DEF Works, Managing
<1> QED BY <1>2, OwnerShape

\* The running thread is READY, or suspended with the scheduler locked, unless
\* it is about to schedule.
LEMMA Alive ==
    ASSUME OInv, NEW c \in Threads, Running(c), ~Does(c, {"sched"}, c)
    PROVE  \/ stat[c] = "READY"
           \/ stat[c] = "SUSPEND" /\ rt_scheduler_lock_nest > 0
<1>1. pc[c] # << <<"sched", c>> >>
  BY DEF Does
<1> QED BY <1>1 DEF OInv, CurrentOK, Leaving, Running

\* A step that only moves the running thread along in its call.
LEMMA PcOnly ==
    ASSUME IInv, IInv', OInv, NEW c \in Threads, Running(c), ~Does(c, {"sched"}, c),
           UNCHANGED <<stat, current_priority, armed, lists, rt_current_thread, api>>,
           \A d \in Threads \ {c} : pc'[d] = pc[d],
           Shape(c)', \A u \in Threads : Claim(c, u)',
           \A u \in Threads : ~Does(c, {"free"}, u)',
           \A u \in Threads \ {c} : Does(c, Owning, u)' =>
               \A d \in Threads \ {c, u} : ~Does(d, Owning, u),
           \A u \in Threads : Does(c, {"dtimer", "dclose"}, u) =>
               Does(c, {"dtimer", "dclose"}, u)',
           stat[c] = "READY" \/ rt_scheduler_lock_nest' > 0 \/ Does(c, {"sched"}, c)',
           rt_scheduler_lock_nest' > 0 => "lock" \in api[c]
    PROVE  OInv'
<1>1. \A u \in Threads : Untouched(u)
  BY DEF Untouched, QueuedAny, WaitsAny, lists, queues
<1>2. HartMoves
  BY DEF HartMoves
<1>3. stat[c] \in {"READY", "SUSPEND"}
  BY Alive
<1>4. ReadyInv'
  <2>1. ReadyInv /\ UNCHANGED queues
    BY DEF OInv, DataInv, lists
  <2> QED BY <2>1, ReadyKept
<1>5. \A u \in Threads : Does(Idle, {"free"}, u)' => Does(Idle, {"free"}, u)
  <2>1. CASE c = Idle
    BY <2>1
  <2>2. CASE c # Idle
    <3>1. pc'[Idle] = pc[Idle]
      BY <2>2, KernelAssumption
    <3> QED BY <3>1 DEF Does
  <2> QED BY <2>1, <2>2
<1>6. StepsInv'
  <2>1. ASSUME NEW d \in Threads \ {c} PROVE Claim(d, c)'
    <3>1. Claim(d, c) /\ Untouched(c) /\ pc'[d] = pc[d]
      BY <1>1 DEF StepsInv, Claims, OInv
    <3> QED BY <1>2, <1>4, <1>5, <3>1, ClaimKept
  <2> QED BY <1>1, <1>2, <1>3, <1>4, <1>5, <2>1, StepsKept DEF OInv
<1>7. NobodyLost'
  <2> SUFFICES ASSUME NEW u \in Threads, stat[u] = "READY", ~Queued(u)
               PROVE  \E d \in Threads : Does(d, {"dtimer", "dclose"}, u)'
    BY DEF NobodyLost, Queued, lists, queues
  <2>1. PICK d \in Threads : Does(d, {"dtimer", "dclose"}, u)
    BY DEF OInv, DataInv, NobodyLost
  <2> QED BY <2>1, DoesKept
<1>8. DefunctOnce' /\ WaitingOnce' /\ TimersOK'
  BY DEF OInv, DataInv, DefunctOnce, WaitingOnce, TimersOK, lists
<1>9. CurrentOK'
  BY <1>3 DEF OInv, CurrentOK, Running, Leaving
<1>10. AppOK'
  BY DEF OInv, AppOK
<1> QED BY <1>4, <1>6, <1>7, <1>8, <1>9, <1>10 DEF OInv, DataInv

-----------------------------------------------------------------------------
(* Short sequences, element by element.                                    *)

LEMMA ConcatIs ==
    ASSUME NEW S, NEW s \in Seq(S), NEW u \in Seq(S), NEW r \in Seq(S),
           Len(r) = Len(s) + Len(u), \A i \in 1..Len(s) : r[i] = s[i],
           \A i \in 1..Len(u) : r[Len(s) + i] = u[i]
    PROVE  s \o u = r
<1>1. /\ s \o u \in Seq(S) /\ Len(s \o u) = Len(s) + Len(u)
      /\ \A i \in 1..Len(s) + Len(u) :
            (s \o u)[i] = IF i <= Len(s) THEN s[i] ELSE u[i - Len(s)]
  BY ConcatProperties
<1>2. Len(s) \in Nat /\ Len(u) \in Nat
  BY LenProperties
<1>3. ASSUME NEW i \in 1..Len(s) + Len(u) PROVE (s \o u)[i] = r[i]
  <2>1. CASE i <= Len(s)
    BY <1>1, <1>2, <2>1
  <2>2. CASE ~(i <= Len(s))
    <3>1. i - Len(s) \in 1..Len(u) /\ Len(s) + (i - Len(s)) = i
      BY <1>2, <2>2
    <3> QED BY <1>1, <2>2, <3>1
  <2> QED BY <2>1, <2>2
<1> QED BY <1>1, <1>3, SeqEqual

LEMMA Concat11 ==
    ASSUME NEW a, NEW y
    PROVE  <<a>> \o <<y>> = <<a, y>>
<1> DEFINE S == {a, y}
           s == <<a>>
           u == <<y>>
           r == <<a, y>>
<1>1. s \in Seq(S) /\ Len(s) = 1 /\ s[1] = a
  OBVIOUS
<1>2. u \in Seq(S) /\ Len(u) = 1 /\ u[1] = y
  OBVIOUS
<1>3. r \in Seq(S) /\ Len(r) = 2 /\ r[1] = a /\ r[2] = y
  OBVIOUS
<1> HIDE DEF s, u, r, S
<1>4. \A i \in 1..Len(s) : r[i] = s[i]
  BY <1>1, <1>3
<1>5. \A i \in 1..Len(u) : r[Len(s) + i] = u[i]
  BY <1>1, <1>2, <1>3
<1>6. Len(r) = Len(s) + Len(u)
  BY <1>1, <1>2, <1>3
<1>7. s \in Seq(S) /\ u \in Seq(S) /\ r \in Seq(S)
  BY <1>1, <1>2, <1>3
<1>8. s \o u = r
  BY ONLY <1>4, <1>5, <1>6, <1>7, ConcatIs
<1> QED BY <1>8 DEF s, u, r

LEMMA Concat21 ==
    ASSUME NEW a, NEW b, NEW y
    PROVE  <<a, b>> \o <<y>> = <<a, b, y>>
<1> DEFINE S == {a, b, y}
           s == <<a, b>>
           u == <<y>>
           r == <<a, b, y>>
<1>1. s \in Seq(S) /\ Len(s) = 2 /\ s[1] = a /\ s[2] = b
  OBVIOUS
<1>2. u \in Seq(S) /\ Len(u) = 1 /\ u[1] = y
  OBVIOUS
<1>3. r \in Seq(S) /\ Len(r) = 3 /\ r[1] = a /\ r[2] = b /\ r[3] = y
  OBVIOUS
<1> HIDE DEF s, u, r, S
<1>4. \A i \in 1..Len(s) : r[i] = s[i]
  BY <1>1, <1>3
<1>5. \A i \in 1..Len(u) : r[Len(s) + i] = u[i]
  BY <1>1, <1>2, <1>3
<1>6. Len(r) = Len(s) + Len(u)
  BY <1>1, <1>2, <1>3
<1>7. s \in Seq(S) /\ u \in Seq(S) /\ r \in Seq(S)
  BY <1>1, <1>2, <1>3
<1>8. s \o u = r
  BY ONLY <1>4, <1>5, <1>6, <1>7, ConcatIs
<1> QED BY <1>8 DEF s, u, r

LEMMA Concat12 ==
    ASSUME NEW x, NEW a, NEW b
    PROVE  <<x>> \o <<a, b>> = <<x, a, b>>
<1> DEFINE S == {x, a, b}
           s == <<x>>
           u == <<a, b>>
           r == <<x, a, b>>
<1>1. s \in Seq(S) /\ Len(s) = 1 /\ s[1] = x
  OBVIOUS
<1>2. u \in Seq(S) /\ Len(u) = 2 /\ u[1] = a /\ u[2] = b
  OBVIOUS
<1>3. r \in Seq(S) /\ Len(r) = 3 /\ r[1] = x /\ r[2] = a /\ r[3] = b
  OBVIOUS
<1> HIDE DEF s, u, r, S
<1>4. \A i \in 1..Len(s) : r[i] = s[i]
  BY <1>1, <1>3
<1>5. \A i \in 1..Len(u) : r[Len(s) + i] = u[i]
  BY <1>1, <1>2, <1>3
<1>6. Len(r) = Len(s) + Len(u)
  BY <1>1, <1>2, <1>3
<1>7. s \in Seq(S) /\ u \in Seq(S) /\ r \in Seq(S)
  BY <1>1, <1>2, <1>3
<1>8. s \o u = r
  BY ONLY <1>4, <1>5, <1>6, <1>7, ConcatIs
<1> QED BY <1>8 DEF s, u, r

LEMMA Concat31 ==
    ASSUME NEW x, NEW a, NEW b, NEW y
    PROVE  <<x, a, b>> \o <<y>> = <<x, a, b, y>>
<1> DEFINE S == {x, a, b, y}
           s == <<x, a, b>>
           u == <<y>>
           r == <<x, a, b, y>>
<1>1. s \in Seq(S) /\ Len(s) = 3 /\ s[1] = x /\ s[2] = a /\ s[3] = b
  OBVIOUS
<1>2. u \in Seq(S) /\ Len(u) = 1 /\ u[1] = y
  OBVIOUS
<1>3. r \in Seq(S) /\ Len(r) = 4 /\ r[1] = x /\ r[2] = a /\ r[3] = b /\ r[4] = y
  OBVIOUS
<1> HIDE DEF s, u, r, S
<1>4. \A i \in 1..Len(s) : r[i] = s[i]
  BY <1>1, <1>3
<1>5. \A i \in 1..Len(u) : r[Len(s) + i] = u[i]
  BY <1>1, <1>2, <1>3
<1>6. Len(r) = Len(s) + Len(u)
  BY <1>1, <1>2, <1>3
<1>7. s \in Seq(S) /\ u \in Seq(S) /\ r \in Seq(S)
  BY <1>1, <1>2, <1>3
<1>8. s \o u = r
  BY ONLY <1>4, <1>5, <1>6, <1>7, ConcatIs
<1> QED BY <1>8 DEF s, u, r

LEMMA ConcatNothing ==
    ASSUME NEW S, NEW s \in Seq(S)
    PROVE  s \o <<>> = s /\ <<>> \o s = s
OBVIOUS

LEMMA DoesNothing ==
    ASSUME NEW c, pc[c] = <<>>, NEW labels, NEW u
    PROVE  ~Does(c, labels, u)
BY DEF Does

LEMMA Proceeds ==
    ASSUME IInv, NEW c \in Threads, NEW steps, Proceed(c, steps)
    PROVE  /\ pc'[c] = steps \o Tail(pc[c])
           /\ \A d \in Threads \ {c} : pc'[d] = pc[d]
BY DEF Proceed, IInv, StepsOK

LEMMA Returns ==
    ASSUME IInv, NEW c \in Threads, pc[c] # <<>>, Return(c)
    PROVE  /\ pc'[c] = Tail(pc[c])
           /\ \A d \in Threads \ {c} : pc'[d] = pc[d]
<1>1. Tail(pc[c]) \in Seq(Step)
  BY HeadTailProperties DEF IInv, StepsOK
<1>2. pc'[c] = <<>> \o Tail(pc[c]) /\ \A d \in Threads \ {c} : pc'[d] = pc[d]
  BY Proceeds DEF Return
<1> QED BY <1>1, <1>2, ConcatNothing

-----------------------------------------------------------------------------
(* The calls up to their first masked section.                             *)

LEMMA ResumeCallOrderly ==
    ASSUME IInv, IInv', OInv, NEW c \in Threads, NEW t \in Others(c),
           ResumeCall(c, t), api' = api
    PROVE  OInv'
<1>1. /\ pc[c] = <<>> /\ Running(c) /\ "resume" \in api[c]
      /\ pc'[c] = << <<"resume", t>> >>
      /\ \A d \in Threads \ {c} : pc'[d] = pc[d]
      /\ t \in Threads \ {c}
  BY DEF ResumeCall, Call, Goto, IInv, StepsOK, Others
<1>2. \A labels, u : Does(c, labels, u)' <=> "resume" \in labels /\ u = t
  BY <1>1 DEF Does
<1>3. Shape(c)'
  BY <1>1 DEF Shape, Works, Resumings, ResumeCall, Others
<1>4. \A u \in Threads : Claim(c, u)'
  BY <1>1, <1>2 DEF Claim
<1>5. \A d \in Threads \ {c, t} : ~Does(d, Owning, t)
  BY <1>1, Sole DEF OInv, StepsInv, Manages
<1>6. \A labels, u : ~Does(c, labels, u)
  BY <1>1, DoesNothing
<1>7. stat[c] = "READY" \/ rt_scheduler_lock_nest > 0
  BY <1>1, <1>6, Alive
<1>8. rt_scheduler_lock_nest > 0 => "lock" \in api[c]
  BY <1>1 DEF Running, OInv, CurrentOK
<1> QED BY <1>1, <1>2, <1>3, <1>4, <1>5, <1>6, <1>7, <1>8, PcOnly DEF ResumeCall, tcb

LEMMA ScheduleCallOrderly ==
    ASSUME IInv, IInv', OInv, NEW c \in Threads, ScheduleCall(c), api' = api
    PROVE  OInv'
<1>1. /\ pc[c] = <<>> /\ Running(c)
      /\ pc'[c] = << <<"sched", c>> >>
      /\ \A d \in Threads \ {c} : pc'[d] = pc[d]
  BY DEF ScheduleCall, Call, Goto, IInv, StepsOK
<1>2. \A labels, u : Does(c, labels, u)' <=> "sched" \in labels /\ u = c
  BY <1>1 DEF Does
<1>3. Shape(c)'
  BY <1>1, ForeignShort DEF Shape
<1>4. \A u \in Threads : Claim(c, u)' /\ ~Does(c, Owning, u)'
  BY <1>2 DEF Claim, Owning, Resuming, Suspending, Deleting
<1>5. \A labels, u : ~Does(c, labels, u)
  BY <1>1, DoesNothing
<1>6. rt_scheduler_lock_nest > 0 => "lock" \in api[c]
  BY <1>1 DEF Running, OInv, CurrentOK
<1> QED BY <1>1, <1>2, <1>3, <1>4, <1>5, <1>6, PcOnly DEF ScheduleCall, tcb

\* A suspended thread that no one but the manager knows of.
LEMMA ResumeCheckOrderly ==
    ASSUME IInv, IInv', OInv, NEW c \in Threads, ResumeCheck(c), api' = api
    PROVE  OInv'
<1>0. PICK t : t = Target(c)
  OBVIOUS
<1>1. /\ Running(c) /\ Does(c, {"resume"}, t) /\ Does(c, Resuming, t)
      /\ pc[c] \in Seq(Step) /\ \A d \in Threads \ {c} : pc'[d] = pc[d]
  BY <1>0 DEF ResumeCheck, At, Target, Does, Resuming, Proceed, Return, IInv, StepsOK
<1>2. ShapeOK /\ Claims
  BY DEF OInv, StepsInv
<1>3. /\ t \in Others(c) /\ t \in Threads \ {c}
      /\ \/ "startup" \in api[c] /\ pc[c] = << <<"resume", t>>, <<"sched", c>> >>
         \/ "resume" \in api[c] /\ pc[c] = << <<"resume", t>> >>
  <2>1. t \in Others(c) /\ t \in Threads \ {c}
    BY <1>1, <1>2, NextResuming DEF Others
  <2>2. Head(pc[c])[1] = "resume"
    BY <1>1 DEF Does
  <2> QED BY <1>1, <1>2, <2>1, <2>2, NextResuming
<1>4. \A d \in Threads \ {c, t} : ~Does(d, Owning, t)
  <2>1. Does(c, Owning, t)
    BY <1>1 DEF Does, Owning
  <2> QED BY <1>3, <2>1 DEF OInv, StepsInv, OneOwner
<1>5. /\ stat[c] = "READY" \/ rt_scheduler_lock_nest > 0
      /\ rt_scheduler_lock_nest > 0 => "lock" \in api[c]
      /\ ~Does(c, {"sched"}, c)
      /\ \A u : ~Does(c, {"dtimer", "dclose"}, u)
  <2>1. /\ ~Does(c, {"sched"}, c)
        /\ \A u : ~Does(c, {"dtimer", "dclose"}, u)
    BY <1>3 DEF Does
  <2> QED BY <1>1, <2>1, Alive DEF Running, OInv, CurrentOK
<1>6. CASE stat[t] = "SUSPEND"
  <2>1. \/ /\ "startup" \in api[c]
           /\ pc'[c] = << <<"unlink", t>>, <<"insert", t>>, <<"sched", c>> >>
        \/ /\ "resume" \in api[c]
           /\ pc'[c] = << <<"unlink", t>>, <<"insert", t>> >>
    <3>1. pc'[c] = << <<"unlink", t>>, <<"insert", t>> >> \o Tail(pc[c])
      BY <1>0, <1>6, Proceeds DEF ResumeCheck
    <3>2. CASE "startup" \in api[c] /\ pc[c] = << <<"resume", t>>, <<"sched", c>> >>
      <4>1. Tail(pc[c]) = << <<"sched", c>> >>
        BY <3>2
      <4>2. << <<"unlink", t>>, <<"insert", t>> >> \o << <<"sched", c>> >>
               = << <<"unlink", t>>, <<"insert", t>>, <<"sched", c>> >>
        BY Concat21
      <4> QED BY <3>1, <3>2, <4>1, <4>2
    <3>3. CASE "resume" \in api[c] /\ pc[c] = << <<"resume", t>> >>
      <4>1. Tail(pc[c]) = <<>>
        BY <3>3
      <4> QED BY <3>1, <3>3, <4>1
    <3> QED BY <1>3, <3>2, <3>3
  <2>2. \A labels, u : Does(c, labels, u)' <=> "unlink" \in labels /\ u = t
    BY <2>1 DEF Does
  <2>3. Shape(c)'
    BY <1>3, <2>1 DEF Shape, Works, Startings, Resumings, Others
  <2>4. Asleep(t)
    <3>1. CASE ~Asleep(t)
      <4>1. "resume" \in api[c]
        BY <1>1, <1>2, <1>3, <3>1 DEF Claims, Claim
      <4>2. "sleep" \notin api[t]
        BY <1>3, <4>1 DEF OInv, AppOK, Orderly
      <4>3. t \notin armed
        BY <4>2 DEF OInv, DataInv, TimersOK
      <4>4. ~QueuedAny(t)
        BY <1>6 DEF OInv, DataInv, ReadyInv, QueuedIsReady, QueuedAny
      <4>5. t # rt_current_thread
        BY <1>1, <1>3 DEF Running
      <4> QED BY <1>6, <4>3, <4>4, <4>5 DEF Asleep, Loose
    <3> QED BY <3>1
  <2>5. Asleep(t)'
    BY <2>4 DEF Asleep, Loose, QueuedAny, ResumeCheck, tcb, lists, queues
  <2>6. \A u \in Threads : Claim(c, u)'
    BY <2>2, <2>5 DEF Claim
  <2>7. UNCHANGED <<stat, current_priority, armed, lists, rt_current_thread,
                    rt_scheduler_lock_nest>>
    BY DEF ResumeCheck, tcb
  <2> QED BY <1>1, <1>4, <1>5, <2>2, <2>3, <2>6, <2>7, PcOnly
<1>7. CASE stat[t] # "SUSPEND"
  <2>1. pc'[c] = <<>> \/ pc'[c] = << <<"sched", c>> >>
    <3>1. pc'[c] = Tail(pc[c])
      BY <1>0, <1>1, <1>7, Returns DEF ResumeCheck, Does
    <3>2. CASE pc[c] = << <<"resume", t>>, <<"sched", c>> >>
      BY <3>1, <3>2
    <3>3. CASE pc[c] = << <<"resume", t>> >>
      BY <3>1, <3>3
    <3> QED BY <1>3, <3>2, <3>3
  <2>2. \A labels, u : Does(c, labels, u)' => "sched" \in labels
    BY <2>1 DEF Does
  <2>3. Shape(c)'
    BY <2>1, ForeignShort DEF Shape
  <2>4. \A u \in Threads : Claim(c, u)' /\ ~Does(c, Owning, u)'
    BY <2>2 DEF Claim, Owning, Resuming, Suspending, Deleting
  <2>5. UNCHANGED <<stat, current_priority, armed, lists, rt_current_thread,
                    rt_scheduler_lock_nest>>
    BY DEF ResumeCheck, tcb
  <2> QED BY <1>1, <1>5, <2>2, <2>3, <2>4, <2>5, PcOnly
<1> QED BY <1>6, <1>7

\* The running thread between two calls, and in one.
LEMMA InOwnCode ==
    ASSUME OInv, NEW c \in Threads, Running(c), pc[c] = <<>>
    PROVE  /\ stat[c] = "READY" \/ (stat[c] = "SUSPEND" /\ rt_scheduler_lock_nest > 0)
           /\ rt_scheduler_lock_nest > 0 => "lock" \in api[c]
           /\ \A labels, u : ~Does(c, labels, u)
<1>1. \A labels, u : ~Does(c, labels, u)
  BY DEF Does
<1>2. ~Does(c, {"sched"}, c)
  BY <1>1
<1>3. stat[c] = "READY" \/ (stat[c] = "SUSPEND" /\ rt_scheduler_lock_nest > 0)
  BY <1>2, Alive DEF At
<1>4. rt_scheduler_lock_nest > 0 => "lock" \in api[c]
  BY DEF At, Running, OInv, CurrentOK
<1> QED BY <1>1, <1>3, <1>4

LEMMA InACall ==
    ASSUME OInv, NEW c \in Threads, NEW label, label # "sched", At(c, label)
    PROVE  /\ stat[c] = "READY" \/ (stat[c] = "SUSPEND" /\ rt_scheduler_lock_nest > 0)
           /\ rt_scheduler_lock_nest > 0 => "lock" \in api[c]
           /\ ~Does(c, {"sched"}, c)
           /\ Does(c, {label}, Target(c))
<1>1. ~Does(c, {"sched"}, c) /\ Does(c, {label}, Target(c)) /\ Running(c)
  BY DEF Does, At, Target
<1>2. ~Does(c, {"sched"}, c)
  BY <1>1
<1>3. stat[c] = "READY" \/ (stat[c] = "SUSPEND" /\ rt_scheduler_lock_nest > 0)
  BY <1>2, Alive DEF At
<1>4. rt_scheduler_lock_nest > 0 => "lock" \in api[c]
  BY DEF At, Running, OInv, CurrentOK
<1> QED BY <1>1, <1>3, <1>4

LEMMA SuspendCallOrderly ==
    ASSUME IInv, IInv', OInv, NEW c \in Threads, NEW t \in Others(c) \cup {c},
           SuspendCall(c, t), api' = api
    PROVE  OInv'
<1>1. /\ pc[c] = <<>> /\ Running(c) /\ t \in Threads
      /\ \A d \in Threads \ {c} : pc'[d] = pc[d]
      /\ UNCHANGED <<stat, current_priority, armed, lists, rt_current_thread,
                     rt_scheduler_lock_nest>>
  BY DEF SuspendCall, Call, Goto, IInv, StepsOK, Others, tcb
<1>2. \/ "park" \in api[c] /\ t = c /\ pc'[c] = << <<"suspend", c>>, <<"sched", c>> >>
      \/ /\ "suspend" \in api[c] /\ t \in Others(c) /\ t # c
         /\ pc'[c] = << <<"suspend", t>> >>
  <2>1. CASE t = c
    <3>1. pc'[c] = << <<"suspend", c>> >> \o << <<"sched", c>> >>
      BY <2>1 DEF SuspendCall, Goto, IInv, StepsOK
    <3>2. << <<"suspend", c>> >> \o << <<"sched", c>> >>
             = << <<"suspend", c>>, <<"sched", c>> >>
      BY Concat11
    <3> QED BY <2>1, <3>1, <3>2 DEF SuspendCall, Call
  <2>2. CASE t # c
    <3>1. pc'[c] = << <<"suspend", t>> >> \o <<>>
      BY <2>2 DEF SuspendCall, Goto, IInv, StepsOK
    <3> QED BY <2>2, <3>1 DEF SuspendCall, Call
  <2> QED BY <2>1, <2>2
<1>3. \A labels, u : Does(c, labels, u)' <=> "suspend" \in labels /\ u = t
  BY <1>2 DEF Does
<1>4. Shape(c)'
  BY <1>2 DEF Shape, Works, Suspendings, Parkings, Others
<1>5. \A u \in Threads : Claim(c, u)'
  BY <1>3 DEF Claim
<1>6. \A u \in Threads \ {c} : Does(c, Owning, u)' =>
          \A d \in Threads \ {c, u} : ~Does(d, Owning, u)
  <2> SUFFICES ASSUME t # c, NEW d \in Threads \ {c, t} PROVE ~Does(d, Owning, t)
    BY <1>3
  <2>1. Manages(api, c)
    BY <1>2 DEF Manages
  <2> QED BY <2>1, Sole DEF OInv, StepsInv
<1>7. \A u \in Threads : ~Does(c, {"free"}, u)'
  BY <1>3
<1> QED BY <1>1, <1>4, <1>5, <1>6, <1>7, InOwnCode, PcOnly

LEMMA SuspendCheckOrderly ==
    ASSUME IInv, IInv', OInv, NEW c \in Threads, SuspendCheck(c), api' = api
    PROVE  OInv'
<1>0. PICK t : t = Target(c)
  OBVIOUS
<1>1. /\ At(c, "suspend") /\ Running(c) /\ pc[c] # <<>>
      /\ UNCHANGED <<stat, current_priority, armed, lists, rt_current_thread,
                     rt_scheduler_lock_nest>>
  BY DEF SuspendCheck, At, tcb
<1>2. /\ stat[c] = "READY" \/ rt_scheduler_lock_nest > 0
      /\ rt_scheduler_lock_nest > 0 => "lock" \in api[c]
      /\ ~Does(c, {"sched"}, c)
      /\ Does(c, {"suspend"}, t)
  BY <1>0, <1>1, InACall
<1>3. \/ /\ "park" \in api[c] /\ t = c
         /\ pc[c] = << <<"suspend", c>>, <<"sched", c>> >>
      \/ /\ "suspend" \in api[c] /\ t \in Others(c)
         /\ pc[c] = << <<"suspend", t>> >>
  <2>1. Does(c, Suspending, t) /\ Head(pc[c])[1] = "suspend"
    BY <1>2 DEF Does, Suspending
  <2> QED BY <2>1, NextSuspending DEF OInv, StepsInv
<1>4. t \in Threads /\ \A u : ~Does(c, {"dtimer", "dclose"}, u)
  BY <1>2, <1>3 DEF Others, Does
<1>5. CASE stat[t] = "READY"
  <2>1. pc'[c] = << <<"remove", t>> >> \o Tail(pc[c])
        /\ \A d \in Threads \ {c} : pc'[d] = pc[d]
    BY <1>0, <1>5, Proceeds DEF SuspendCheck
  <2>2. \/ "park" \in api[c] /\ t = c /\ pc'[c] = << <<"remove", c>>, <<"sched", c>> >>
        \/ /\ "suspend" \in api[c] /\ t \in Others(c) /\ t # c
           /\ pc'[c] = << <<"remove", t>> >>
    <3>1. CASE /\ "park" \in api[c] /\ t = c
               /\ pc[c] = << <<"suspend", c>>, <<"sched", c>> >>
      <4>1. Tail(pc[c]) = << <<"sched", c>> >>
        BY <3>1
      <4>2. << <<"remove", c>> >> \o << <<"sched", c>> >>
               = << <<"remove", c>>, <<"sched", c>> >>
        BY Concat11
      <4> QED BY <2>1, <3>1, <4>1, <4>2
    <3>2. CASE /\ "suspend" \in api[c] /\ t \in Others(c)
               /\ pc[c] = << <<"suspend", t>> >>
      <4>1. Tail(pc[c]) = <<>> /\ t # c
        BY <3>2 DEF Others
      <4> QED BY <2>1, <3>2, <4>1
    <3> QED BY <1>3, <3>1, <3>2
  <2>3. \A labels, u : Does(c, labels, u)' <=> "remove" \in labels /\ u = t
    <3>1. pc'[c] # <<>> /\ Head(pc'[c]) = <<"remove", t>>
      <4>1. CASE pc'[c] = << <<"remove", c>>, <<"sched", c>> >> /\ t = c
        BY <4>1
      <4>2. CASE pc'[c] = << <<"remove", t>> >>
        BY <4>2
      <4> QED BY <2>2, <4>1, <4>2
    <3> QED BY <3>1 DEF Does
  <2>4. Shape(c)'
    BY <2>2 DEF Shape, Works, Suspendings, Parkings, Others
  <2>5. \A u \in Threads : Claim(c, u)'
    BY <1>1, <1>5, <2>3 DEF Claim
  <2>6. \A u \in Threads \ {c} : Does(c, Owning, u)' =>
            \A d \in Threads \ {c, u} : ~Does(d, Owning, u)
    <3> SUFFICES ASSUME t # c, NEW d \in Threads \ {c, t} PROVE ~Does(d, Owning, t)
      BY <2>3
    <3>1. Manages(api, c)
      BY <2>2 DEF Manages
    <3> QED BY <3>1, Sole DEF OInv, StepsInv
  <2>7. \A u \in Threads : ~Does(c, {"free"}, u)'
    BY <2>3
  <2> QED BY <1>1, <1>2, <1>4, <2>1, <2>4, <2>5, <2>6, <2>7, PcOnly
<1>6. CASE stat[t] # "READY"
  <2>1. pc'[c] = Tail(pc[c]) /\ \A d \in Threads \ {c} : pc'[d] = pc[d]
    BY <1>0, <1>1, <1>6, Returns DEF SuspendCheck
  <2>2. pc'[c] = <<>> \/ pc'[c] = << <<"sched", c>> >>
    <3>1. CASE pc[c] = << <<"suspend", c>>, <<"sched", c>> >>
      BY <2>1, <3>1
    <3>2. CASE pc[c] = << <<"suspend", t>> >>
      BY <2>1, <3>2
    <3> QED BY <1>3, <3>1, <3>2
  <2>3. \A labels, u : Does(c, labels, u)' => "sched" \in labels
    BY <2>2 DEF Does
  <2>4. Shape(c)'
    BY <2>2, ForeignShort DEF Shape
  <2>5. \A u \in Threads : Claim(c, u)' /\ ~Does(c, Owning, u)'
    BY <2>3 DEF Claim, Owning, Resuming, Suspending, Deleting
  <2>6. \A u \in Threads : ~Does(c, {"free"}, u)'
    BY <2>3
  <2> QED BY <1>1, <1>2, <1>4, <2>1, <2>4, <2>5, <2>6, PcOnly
<1> QED BY <1>5, <1>6

LEMMA DeleteOrderly ==
    ASSUME IInv, IInv', OInv, NEW c \in Threads, NEW t \in Others(c),
           Delete(c, t), api' = api
    PROVE  OInv'
<1>1. /\ pc[c] = <<>> /\ Running(c) /\ t \in Threads \ {c} /\ "delete" \in api[c]
      /\ \A d \in Threads \ {c} : pc'[d] = pc[d]
      /\ UNCHANGED <<stat, current_priority, armed, lists, rt_current_thread,
                     rt_scheduler_lock_nest>>
      /\ stat[t] \in {"INIT", "READY", "SUSPEND"}
  BY DEF Delete, Call, Goto, IInv, StepsOK, Others, tcb
<1> DEFINE init == stat[t] = "INIT"
           s    == IF init THEN <<>> ELSE << <<"dremove", t>> >>
           u    == IF t \in Static THEN <<>> ELSE << <<"ddefunct", t>> >>
           m    == << <<"dtimer", t>>, <<"dclose", t>> >>
<1>2. pc'[c] = (s \o m) \o u
  BY DEF Delete, Goto, IInv, StepsOK
<1>3. \/ init /\ s \o m = m
      \/ ~init /\ s \o m = << <<"dremove", t>>, <<"dtimer", t>>, <<"dclose", t>> >>
  <2>1. CASE init
    BY <2>1
  <2>2. CASE ~init
    BY <2>2, Concat12
  <2> QED BY <2>1, <2>2
<1>4. \/ init /\ pc'[c] = m
      \/ init /\ pc'[c] = << <<"dtimer", t>>, <<"dclose", t>>, <<"ddefunct", t>> >>
      \/ ~init /\ pc'[c] = << <<"dremove", t>>, <<"dtimer", t>>, <<"dclose", t>> >>
      \/ /\ ~init
         /\ pc'[c] = << <<"dremove", t>>, <<"dtimer", t>>, <<"dclose", t>>,
                        <<"ddefunct", t>> >>
  <2>1. CASE t \in Static
    <3>1. u = <<>>
      BY <2>1
    <3> HIDE DEF init, s, u
    <3>2. (s \o m) \o <<>> = s \o m
      BY <1>3
    <3> QED BY <1>2, <1>3, <3>1, <3>2
  <2>2. CASE t \notin Static
    <3>1. u = << <<"ddefunct", t>> >>
      BY <2>2
    <3>2. m \o << <<"ddefunct", t>> >>
             = << <<"dtimer", t>>, <<"dclose", t>>, <<"ddefunct", t>> >>
      BY Concat21
    <3>3. << <<"dremove", t>>, <<"dtimer", t>>, <<"dclose", t>> >>
              \o << <<"ddefunct", t>> >>
             = << <<"dremove", t>>, <<"dtimer", t>>, <<"dclose", t>>,
                  <<"ddefunct", t>> >>
      BY Concat31
    <3> HIDE DEF init, s, u
    <3> QED BY <1>2, <1>3, <3>1, <3>2, <3>3
  <2> QED BY <2>1, <2>2
<1>5. Shape(c)'
  BY <1>1, <1>4 DEF Shape, Works, Detachings, Deletings, Others
<1>6. \A d \in Threads \ {c, t} : ~Does(d, Owning, t)
  BY <1>1, Sole DEF OInv, StepsInv, Manages
<1>7. \A v \in Threads : Claim(c, v)' /\ ~Does(c, {"free"}, v)'
  <2>1. CASE init
    <3>1. \A labels, v : Does(c, labels, v)' <=> "dtimer" \in labels /\ v = t
      <4>1. pc'[c] # <<>> /\ Head(pc'[c]) = <<"dtimer", t>>
        BY <1>4, <2>1
      <4> QED BY <4>1 DEF Does
    <3>2. Detached(t)
      <4>1. ~QueuedAny(t)
        BY <2>1 DEF OInv, DataInv, ReadyInv, QueuedIsReady, QueuedAny
      <4>2. ~WaitsAny(t) /\ t \notin armed
        BY <2>1 DEF OInv, DataInv, WaitingOnce, TimersOK, WaitsAny
      <4>3. t # rt_current_thread
        BY <1>1 DEF Running
      <4> QED BY <4>1, <4>2, <4>3 DEF Detached, Loose
    <3>3. Detached(t)' /\ stat'[t] = "INIT"
      BY <1>1, <2>1, <3>2 DEF Detached, Loose, QueuedAny, WaitsAny, lists, queues
    <3> QED BY <3>1, <3>3 DEF Claim
  <2>2. CASE ~init
    <3>1. \A labels, v : Does(c, labels, v)' <=> "dremove" \in labels /\ v = t
      <4>1. pc'[c] # <<>> /\ Head(pc'[c]) = <<"dremove", t>>
        BY <1>4, <2>2
      <4> QED BY <4>1 DEF Does
    <3>2. stat'[t] \in {"READY", "SUSPEND"}
      BY <1>1, <2>2
    <3> QED BY <3>1, <3>2 DEF Claim
  <2> QED BY <2>1, <2>2
<1>8. \A v \in Threads : Does(c, Owning, v)' => v = t
  <2>1. pc'[c] # <<>> /\ Head(pc'[c])[2] = t
    BY <1>4
  <2> QED BY <2>1 DEF Does
<1> HIDE DEF init, s, u, m
<1> QED BY <1>1, <1>5, <1>6, <1>7, <1>8, InOwnCode, PcOnly

\* rt_thread_sleep's last step, rt_enter_critical and rt_exit_critical.
LEMMA SleepReturnOrderly ==
    ASSUME IInv, IInv', OInv, NEW c \in Threads, SleepReturn(c), api' = api
    PROVE  OInv'
<1>1. /\ At(c, "awake") /\ Running(c) /\ pc[c] # <<>> /\ Head(pc[c])[1] = "awake"
      /\ UNCHANGED <<stat, current_priority, armed, lists, rt_current_thread,
                     rt_scheduler_lock_nest>>
  BY DEF SleepReturn, At
<1>2. pc'[c] = Tail(pc[c]) /\ \A d \in Threads \ {c} : pc'[d] = pc[d]
  BY <1>1, Returns DEF SleepReturn
<1>3. Foreign(pc'[c])
  <2>1. Head(pc[c])[1] \notin Owning \cup {"free"}
    BY <1>1 DEF Owning, Resuming, Suspending, Deleting
  <2> QED BY <1>1, <1>2, <2>1, NextForeign DEF OInv, StepsInv
<1>4. Shape(c)' /\ \A u : ~Does(c, Owning \cup {"free"}, u)'
  <2>1. pc'[c] \in Seq(Step)
    BY DEF IInv, StepsOK
  <2>2. pc'[c] # <<>> => 1 \in DOMAIN pc'[c] /\ Head(pc'[c]) = pc'[c][1]
    BY <2>1, HeadTailProperties, EmptySeq, LenProperties
  <2> QED BY <1>3, <2>2 DEF Shape, Foreign, Does
<1>5. \A u \in Threads : Claim(c, u)' /\ ~Does(c, {"free"}, u)' /\ ~Does(c, Owning, u)'
  BY <1>4 DEF Claim, Does, Owning, Resuming, Suspending, Deleting
<1>6. \A u : ~Does(c, {"dtimer", "dclose"}, u)
  BY <1>1 DEF Does
<1>7. /\ stat[c] = "READY" \/ rt_scheduler_lock_nest > 0
      /\ rt_scheduler_lock_nest > 0 => "lock" \in api[c]
      /\ ~Does(c, {"sched"}, c)
  BY <1>1, InACall
<1> QED BY <1>1, <1>2, <1>4, <1>5, <1>6, <1>7, PcOnly

LEMMA EnterCriticalOrderly ==
    ASSUME IInv, IInv', OInv, NEW c \in Threads, EnterCritical(c), api' = api
    PROVE  OInv'
<1>1. /\ pc[c] = <<>> /\ pc' = pc /\ Running(c) /\ "lock" \in api[c]
      /\ UNCHANGED <<stat, current_priority, armed, lists, rt_current_thread>>
      /\ rt_scheduler_lock_nest' = rt_scheduler_lock_nest + 1
  BY DEF EnterCritical, Call, tcb
<1>2. rt_scheduler_lock_nest' > 0
  BY <1>1, KernelAssumption DEF IInv, HartOK
<1>3. \A labels, u : ~Does(c, labels, u) /\ ~Does(c, labels, u)'
  BY <1>1 DEF Does
<1>4. Shape(c)'
  BY <1>1, ForeignShort DEF Shape
<1>5. \A u \in Threads : Claim(c, u)'
  BY <1>3 DEF Claim
<1> QED BY <1>1, <1>2, <1>3, <1>4, <1>5, PcOnly

LEMMA ExitCriticalOrderly ==
    ASSUME IInv, IInv', OInv, NEW c \in Threads, ExitCritical(c), api' = api
    PROVE  OInv'
<1>1. /\ pc[c] = <<>> /\ Running(c) /\ "lock" \in api[c]
      /\ \A d \in Threads \ {c} : pc'[d] = pc[d]
      /\ UNCHANGED <<stat, current_priority, armed, lists, rt_current_thread>>
  BY DEF ExitCritical, Call, Goto, tcb, IInv, StepsOK
<1>2. \/ rt_scheduler_lock_nest' > 0 /\ pc'[c] = <<>>
      \/ pc'[c] = << <<"sched", c>> >>
  <2>1. rt_scheduler_lock_nest \in Nat
    BY KernelAssumption DEF IInv, HartOK
  <2>2. CASE rt_scheduler_lock_nest = 1
    BY <2>2 DEF ExitCritical, Goto, IInv, StepsOK
  <2>3. CASE rt_scheduler_lock_nest # 1
    BY <1>1, <2>1, <2>3 DEF ExitCritical
  <2> QED BY <2>2, <2>3
<1>3. \A labels, u : /\ ~Does(c, labels, u)
                     /\ Does(c, labels, u)' => "sched" \in labels
  BY <1>1, <1>2 DEF Does
<1>4. Shape(c)'
  BY <1>2, ForeignShort DEF Shape
<1>5. ASSUME NEW u \in Threads
      PROVE  Claim(c, u)' /\ ~Does(c, Owning, u)' /\ ~Does(c, {"free"}, u)'
  <2>1. "sched" \notin Owning
    BY DEF Owning, Resuming, Suspending, Deleting
  <2>2. ~Does(c, {"resume"}, u)' /\ ~Does(c, {"unlink"}, u)' /\ ~Does(c, {"insert"}, u)'
        /\ ~Does(c, {"remove"}, u)' /\ ~Does(c, {"dremove"}, u)'
    BY <1>3
  <2>3. ~Does(c, {"dtimer", "dclose"}, u)' /\ ~Does(c, {"ddefunct"}, u)'
        /\ ~Does(c, {"free"}, u)'
    BY <1>3
  <2>4. Claim(c, u)'
    BY <2>2, <2>3 DEF Claim
  <2> QED BY <1>3, <2>1, <2>3, <2>4
<1>6. rt_scheduler_lock_nest' > 0 \/ Does(c, {"sched"}, c)'
  <2>1. CASE rt_scheduler_lock_nest' > 0
    BY <2>1
  <2>2. CASE pc'[c] = << <<"sched", c>> >>
    BY <2>2 DEF Does
  <2> QED BY <1>2, <2>1, <2>2
<1> QED BY <1>1, <1>3, <1>4, <1>5, <1>6, PcOnly

-----------------------------------------------------------------------------
(* What the masked sections do to the threads they are not about.          *)

\* The idle thread is always there to run.
LEMMA IdleQueued ==
    ASSUME IInv, OInv
    PROVE  Queued(Idle) /\ Idle \in Threads /\ stat[Idle] = "READY"
<1>1. Idle \in Threads /\ stat[Idle] = "READY"
  BY KernelAssumption DEF OInv, CurrentOK
<1>2. ASSUME NEW c \in Threads, Does(c, {"dtimer", "dclose"}, Idle) PROVE FALSE
  <2>1. Does(c, Deleting, Idle)
    BY <1>2 DEF Does, Deleting
  <2> QED BY <2>1, NextDeleting DEF OInv, StepsInv, Others
<1> QED BY <1>1, <1>2 DEF OInv, DataInv, NobodyLost

LEMMA HighestIsListed ==
    ASSUME NEW table \in [Prios -> Seq(Threads)], NEW group \in SUBSET Prios,
           group # {}, \A p \in group : table[p] # <<>>
    PROVE  \E p \in Prios : HighestReady(table, group) \in Range(table[p])
<1> DEFINE p == CHOOSE q \in group : \A r \in group : q <= r
<1>1. p \in group
  <2>1. group \in SUBSET Nat
    BY KernelAssumption DEF Prios
  <2>2. \E q \in group : \A r \in group : q <= r
    BY <2>1, HasMinimum
  <2> QED BY <2>2
<1>2. HighestReady(table, group) = IF table[p] = <<>> THEN NoThread ELSE Head(table[p])
  BY DEF HighestReady
<1> HIDE DEF p
<1>3. table[p] \in Seq(Threads) /\ table[p] # <<>> /\ p \in Prios
  BY <1>1
<1>4. Head(table[p]) \in Range(table[p])
  <2>1. 1 \in DOMAIN table[p] /\ Head(table[p]) = table[p][1]
    BY <1>3, HeadTailProperties, EmptySeq, LenProperties
  <2> QED BY <2>1 DEF Range
<1> QED BY <1>2, <1>3, <1>4

\* rt_schedule takes a READY thread of the queue, unless it is locked.
LEMMA ScheduleMoves ==
    ASSUME IInv, IInv', ReadyInv', Queued(Idle)', Schedule,
           UNCHANGED rt_scheduler_lock_nest
    PROVE  /\ HartMoves
           /\ rt_scheduler_lock_nest = 0 =>
                 rt_current_thread' \in Threads /\ stat'[rt_current_thread'] = "READY"
           /\ rt_scheduler_lock_nest > 0 => rt_current_thread' = rt_current_thread
<1>1. rt_scheduler_lock_nest \in Nat
  BY KernelAssumption DEF IInv, HartOK
<1>2. CASE rt_scheduler_lock_nest # 0
  BY <1>1, <1>2 DEF Schedule, Scheduled, HartMoves
<1>3. CASE rt_scheduler_lock_nest = 0
  <2>1. /\ rt_thread_priority_table' \in [Prios -> Seq(Threads)]
        /\ rt_thread_ready_priority_group' \in SUBSET Prios
        /\ \A p \in Prios : Range(rt_thread_priority_table'[p]) \subseteq Threads
    BY RangeOfSeq DEF IInv, ListsOK, TableOK, GroupOK
  <2>2. current_priority'[Idle] \in Prios
    BY KernelAssumption DEF IInv, TcbOK
  <2>3. rt_thread_priority_table'[current_priority'[Idle]] # <<>>
    BY DEF Queued, Range
  <2>4. rt_thread_ready_priority_group' # {}
    BY <2>2, <2>3 DEF ReadyInv, ListsHaveBits
  <2>5. \A p \in rt_thread_ready_priority_group' : rt_thread_priority_table'[p] # <<>>
    BY DEF ReadyInv, BitsHaveLists
  <2>6. rt_current_thread' =
           HighestReady(rt_thread_priority_table', rt_thread_ready_priority_group')
    BY <1>3 DEF Schedule, Scheduled
  <2>7. PICK p \in Prios : rt_current_thread' \in Range(rt_thread_priority_table'[p])
    BY <2>1, <2>4, <2>5, <2>6, HighestIsListed
  <2>8. QueuedAny(rt_current_thread)'
    BY <2>7 DEF QueuedAny
  <2>9. rt_current_thread' \in Threads
    BY <2>1, <2>7
  <2>10. stat'[rt_current_thread'] = "READY"
    BY <2>7 DEF ReadyInv, QueuedIsReady
  <2> QED BY <1>3, <2>8, <2>9, <2>10 DEF HartMoves
<1> QED BY <1>2, <1>3

\* The threads but t stay where they are in the ready queue.
OthersStay(t) ==
    \A u \in Threads \ {t} : /\ Queued(u) => Queued(u)'
                             /\ QueuedAny(u)' => QueuedAny(u)

LEMMA StayWhen ==
    ASSUME IInv, NEW t \in Threads,
           \A p \in Prios : Range(rt_thread_priority_table'[p]) \ {t} =
                            Range(rt_thread_priority_table[p]) \ {t},
           \A u \in Threads \ {t} : current_priority'[u] = current_priority[u]
    PROVE  OthersStay(t)
<1>1. current_priority \in [Threads -> Prios]
  BY DEF IInv, TcbOK
<1> QED BY <1>1 DEF OthersStay, Queued, QueuedAny

LEMMA StayAfterUnlink ==
    ASSUME IInv, ReadyOnce, NEW t \in Threads,
           rt_thread_priority_table' = Unlinked(rt_thread_priority_table, t),
           \A u \in Threads \ {t} : current_priority'[u] = current_priority[u]
    PROVE  OthersStay(t) /\ ~QueuedAny(t)'
<1>1. \A p \in Prios : Range(rt_thread_priority_table'[p]) =
                       Range(rt_thread_priority_table[p]) \ {t}
  BY ReadyUnlinked
<1> QED BY <1>1, StayWhen DEF QueuedAny

LEMMA StayAfterInsert ==
    ASSUME IInv, NEW t \in Threads,
           rt_thread_priority_table' = Inserted(rt_thread_priority_table, t),
           UNCHANGED current_priority
    PROVE  OthersStay(t)
<1> DEFINE q == current_priority[t]
<1>1. q \in Prios /\ rt_thread_priority_table \in [Prios -> Seq(Threads)]
  BY DEF IInv, TcbOK, ListsOK, TableOK
<1>2. /\ rt_thread_priority_table'[q] = Append(rt_thread_priority_table[q], t)
      /\ \A p \in Prios \ {q} :
            rt_thread_priority_table'[p] = rt_thread_priority_table[p]
  BY <1>1 DEF Inserted
<1>3. Range(rt_thread_priority_table'[q]) = Range(rt_thread_priority_table[q]) \cup {t}
  BY <1>1, <1>2, AppendRange
<1> HIDE DEF q
<1>4. \A p \in Prios : Range(rt_thread_priority_table'[p]) \ {t} =
                       Range(rt_thread_priority_table[p]) \ {t}
  BY <1>2, <1>3
<1> QED BY <1>4, StayWhen

LEMMA StayAfterMove ==
    ASSUME IInv, ReadyOnce, NEW t \in Threads, NEW p \in Prios,
           rt_thread_priority_table' =
               [Unlinked(rt_thread_priority_table, t) EXCEPT ![p] = Append(@, t)],
           \A u \in Threads \ {t} : current_priority'[u] = current_priority[u]
    PROVE  OthersStay(t)
<1> DEFINE rest == Unlinked(rt_thread_priority_table, t)
<1>1. rest \in [Prios -> Seq(Threads)]
  BY UnlinkedType DEF IInv, ListsOK, TableOK
<1>2. \A q \in Prios : Range(rest[q]) = Range(rt_thread_priority_table[q]) \ {t}
  BY ReadyUnlinked
<1>3. rt_thread_priority_table' = [rest EXCEPT ![p] = Append(@, t)]
  OBVIOUS
<1> HIDE DEF rest
<1>4. /\ rt_thread_priority_table'[p] = Append(rest[p], t)
      /\ \A q \in Prios \ {p} : rt_thread_priority_table'[q] = rest[q]
  BY <1>1, <1>3
<1>5. Range(rt_thread_priority_table'[p]) = Range(rest[p]) \cup {t}
  <2>1. rest[p] \in Seq(Threads)
    BY <1>1
  <2>2. Range(Append(rest[p], t)) = Range(rest[p]) \cup {t}
    BY <2>1, AppendRange
  <2> QED BY <1>4, <2>2
<1>6. \A q \in Prios : Range(rt_thread_priority_table'[q]) \ {t} =
                       Range(rt_thread_priority_table[q]) \ {t}
  BY <1>2, <1>4, <1>5
<1> QED BY <1>6, StayWhen

\* Nobody is lost if t is not.
LEMMA LostKept ==
    ASSUME NobodyLost, NEW c \in Threads, NEW t \in Threads, OthersStay(t),
           \A d \in Threads \ {c} : pc'[d] = pc[d],
           \A u \in Threads \ {t} : stat'[u] = stat[u],
           \A u \in Threads \ {t} :
               Does(c, {"dtimer", "dclose"}, u) => Does(c, {"dtimer", "dclose"}, u)',
           stat'[t] = "READY" =>
               Queued(t)' \/ \E d \in Threads : Does(d, {"dtimer", "dclose"}, t)'
    PROVE  NobodyLost'
<1> SUFFICES ASSUME NEW u \in Threads \ {t}, stat[u] = "READY", ~Queued(u)
             PROVE  \E d \in Threads : Does(d, {"dtimer", "dclose"}, u)'
  BY DEF NobodyLost, OthersStay
<1>1. PICK d \in Threads : Does(d, {"dtimer", "dclose"}, u)
  BY DEF NobodyLost
<1> QED BY <1>1, DoesKept

\* rt_list_remove, of all lists.
LEMMA UnlinkKeeps ==
    ASSUME IInv, DataInv, NEW t \in Threads, Unlink(t),
           UNCHANGED current_priority, \A u \in Threads \ {t} : stat'[u] = stat[u],
           stat[t] \in {"INIT", "READY", "SUSPEND"}
    PROVE  /\ OthersStay(t) /\ ~QueuedAny(t)' /\ ~WaitsAny(t)'
           /\ DefunctOnce' /\ WaitingOnce'
           /\ \A u \in Threads : WaitsAny(u)' => WaitsAny(u)
           /\ Range(rt_thread_defunct') \subseteq Range(rt_thread_defunct)
<1>1. OthersStay(t) /\ ~QueuedAny(t)'
  BY StayAfterUnlink DEF Unlink, DataInv, ReadyInv
<1>2. /\ WaitingOnce' /\ ~WaitsAny(t)'
      /\ \A u \in Threads : WaitsAny(u)' => WaitsAny(u)
  BY WaitingAfterUnlink DEF Unlink, DataInv
<1>3. /\ rt_thread_defunct \in Seq(Threads)
      /\ t \notin Range(rt_thread_defunct)
      /\ Range(rt_thread_defunct) \subseteq Threads
  BY ListsOfThreads DEF DataInv, DefunctOnce
<1>4. rt_thread_defunct' = rt_thread_defunct
  BY <1>3, RemoveAbsent DEF Unlink
<1>5. DefunctOnce'
  BY <1>3, <1>4 DEF DataInv, DefunctOnce
<1> QED BY <1>1, <1>2, <1>4, <1>5

-----------------------------------------------------------------------------
(* The masked sections.                                                    *)

\* A step whose call works on no thread after it.
LEMMA ForeignStep ==
    ASSUME IInv', NEW c \in Threads, Foreign(pc'[c])
    PROVE  /\ Shape(c)' /\ \A u \in Threads : Claim(c, u)'
           /\ \A u \in Threads : ~Does(c, Owning, u)'
           /\ \A u \in Threads : ~Does(c, {"free"}, u)'
<1>1. pc'[c] \in Seq(Step)
  BY DEF IInv, StepsOK
<1>2. pc'[c] # <<>> => 1 \in DOMAIN pc'[c] /\ Head(pc'[c]) = pc'[c][1]
  BY <1>1, HeadTailProperties, EmptySeq, LenProperties
<1>3. \A u : ~Does(c, Owning \cup {"free"}, u)'
  BY <1>2 DEF Foreign, Does
<1>4. \A u \in Threads : Claim(c, u)' /\ ~Does(c, {"free"}, u)' /\ ~Does(c, Owning, u)'
  BY <1>3 DEF Claim, Does, Owning, Resuming, Suspending, Deleting
<1> QED BY <1>4 DEF Shape

LEMMA SchedOrderly ==
    ASSUME IInv, IInv', OInv, NEW c \in Threads, Sched(c), api' = api
    PROVE  OInv'
<1>1. /\ At(c, "sched") /\ rt_current_thread = c /\ pc[c] # <<>> /\ Schedule
      /\ UNCHANGED <<stat, current_priority, armed, lists, rt_scheduler_lock_nest>>
  BY DEF Sched, At, Running, tcb
<1>2. pc'[c] = Tail(pc[c]) /\ \A d \in Threads \ {c} : pc'[d] = pc[d]
  BY <1>1, Returns DEF Sched
<1>3. Foreign(pc'[c])
  <2>1. Head(pc[c])[1] \notin Owning \cup {"free"}
    BY <1>1 DEF At, Owning, Resuming, Suspending, Deleting
  <2> QED BY <1>1, <1>2, <2>1, NextForeign DEF OInv, StepsInv
<1>4. ReadyInv'
  BY <1>1, ReadyKept DEF OInv, DataInv, lists
<1>5. Queued(Idle)' /\ stat'[Idle] = "READY"
  BY <1>1, IdleQueued DEF Queued, lists, queues
<1>6. /\ HartMoves
      /\ rt_scheduler_lock_nest = 0 =>
            rt_current_thread' \in Threads /\ stat'[rt_current_thread'] = "READY"
      /\ rt_scheduler_lock_nest > 0 => rt_current_thread' = rt_current_thread
  BY <1>1, <1>4, <1>5, ScheduleMoves
<1>7. \A u \in Threads : Untouched(u)
  BY <1>1 DEF Untouched, QueuedAny, WaitsAny, lists, queues
<1>8. \A u \in Threads : Does(Idle, {"free"}, u)' => Does(Idle, {"free"}, u)
  BY <1>2, <1>3, ForeignStep, KernelAssumption, DoesKept
<1>9. StepsInv'
  <2>1. ASSUME NEW d \in Threads \ {c} PROVE Claim(d, c)'
    <3>1. Claim(d, c) /\ Untouched(c) /\ pc'[d] = pc[d]
      BY <1>2, <1>7 DEF StepsInv, Claims, OInv
    <3> QED BY <1>4, <1>6, <1>8, <3>1, ClaimKept
  <2>2. /\ Shape(c)' /\ \A u \in Threads : Claim(c, u)'
        /\ \A u \in Threads : ~Does(c, Owning, u)'
    BY <1>3, ForeignStep
  <2> QED BY <1>2, <1>4, <1>6, <1>7, <1>8, <2>1, <2>2, StepsKept DEF OInv
<1>10. NobodyLost'
  <2>1. \A u \in Threads : ~Does(c, {"dtimer", "dclose"}, u)
    BY <1>1 DEF At, Does
  <2>2. OthersStay(c) /\ (Queued(c) => Queued(c)')
    BY <1>1 DEF OthersStay, Queued, QueuedAny, lists, queues
  <2>3. stat'[c] = "READY" => Queued(c)' \/ \E d \in Threads : Does(d, {"dtimer", "dclose"}, c)'
    <3> SUFFICES ASSUME stat[c] = "READY", ~Queued(c)
                 PROVE  \E d \in Threads : Does(d, {"dtimer", "dclose"}, c)'
      BY <1>1, <2>2
    <3>1. PICK d \in Threads : Does(d, {"dtimer", "dclose"}, c)
      BY DEF OInv, DataInv, NobodyLost
    <3> QED BY <1>2, <2>1, <3>1, DoesKept
  <2> QED BY <1>1, <1>2, <2>1, <2>2, <2>3, LostKept DEF OInv, DataInv
<1>11. DefunctOnce' /\ WaitingOnce' /\ TimersOK'
  BY <1>1 DEF OInv, DataInv, DefunctOnce, WaitingOnce, TimersOK, lists
<1>12. CurrentOK'
  <2>1. rt_scheduler_lock_nest \in Nat
    BY KernelAssumption DEF IInv, HartOK
  <2>2. CASE rt_scheduler_lock_nest = 0
    BY <1>1, <1>5, <1>6, <2>2 DEF CurrentOK
  <2>3. CASE rt_scheduler_lock_nest > 0
    BY <1>1, <1>5, <1>6, <2>3 DEF OInv, CurrentOK, Leaving
  <2> QED BY <2>1, <2>2, <2>3
<1>13. AppOK'
  BY DEF OInv, AppOK
<1> QED BY <1>4, <1>9, <1>10, <1>11, <1>12, <1>13 DEF OInv, DataInv

\* A thread object comes into use: nothing of the kernel refers to it.
LEMMA CreateOrderly ==
    ASSUME IInv, IInv', OInv, NEW c \in Threads, NEW t \in Others(c),
           Create(c, t), api' = api
    PROVE  OInv'
<1>1. /\ Running(c) /\ pc[c] = <<>> /\ t \in Threads \ {c, Idle} /\ stat[t] = "NONE"
      /\ stat'[t] = "INIT" /\ \A u \in Threads \ {t} : stat'[u] = stat[u]
      /\ \A u \in Threads \ {t} : current_priority'[u] = current_priority[u]
      /\ pc'[t] = <<>> /\ \A d \in Threads \ {t} : pc'[d] = pc[d]
      /\ UNCHANGED <<armed, lists, rt_current_thread, rt_scheduler_lock_nest>>
  BY DEF Create, Call, Others, IInv, TcbOK, StepsOK
<1>2. ~QueuedAny(t) /\ ~WaitsAny(t) /\ t \notin Range(rt_thread_defunct) /\ t \notin armed
  BY <1>1 DEF OInv, DataInv, ReadyInv, QueuedIsReady, QueuedAny, WaitingOnce,
              WaitsAny, DefunctOnce, TimersOK
<1>3. ReadyInv'
  BY <1>1, <1>2, ReadyKept DEF OInv, DataInv, lists
<1>4. \A u \in Threads \ {t} : Untouched(u)
  BY <1>1 DEF Untouched, QueuedAny, WaitsAny, lists, queues
<1>5. HartMoves
  BY <1>1 DEF HartMoves
<1>6. \A u \in Threads : Does(Idle, {"free"}, u)' => Does(Idle, {"free"}, u)
  BY <1>1, KernelAssumption, DoesKept
<1>7. \A labels, u : ~Does(t, labels, u)'
  BY <1>1 DEF Does
<1>8. ASSUME NEW d \in Threads \ {t} PROVE Claim(d, t)'
  <2>1. Claim(d, t)
    BY <1>1 DEF OInv, StepsInv, Claims
  <2>2. \A labels : Does(d, labels, t)' => Does(d, labels, t)
    BY <1>1, DoesKept
  <2>3. ~Asleep(t) /\ ~Gone(t)
    BY <1>1 DEF Asleep, Gone
  <2>4. /\ ~Does(d, {"unlink"}, t) /\ ~Does(d, {"insert"}, t)
        /\ ~Does(d, {"dremove"}, t) /\ ~Does(d, {"dtimer", "dclose"}, t)
        /\ ~Does(d, {"ddefunct"}, t) /\ ~Does(d, {"free"}, t)
        /\ ~Does(d, {"remove"}, t)
    BY <1>1, <2>1, <2>3 DEF Claim
  <2>5. Does(d, {"resume"}, t)' => "resume" \in api'[d]
    BY <2>1, <2>2, <2>3 DEF Claim
  <2> QED BY <2>2, <2>4, <2>5 DEF Claim
<1>9. StepsInv'
  <2>1. Shape(t)' /\ \A u \in Threads : Claim(t, u)'
    BY <1>1, <1>7, ForeignShort DEF Shape, Claim
  <2> QED BY <1>1, <1>3, <1>4, <1>5, <1>6, <1>7, <1>8, <2>1, StepsKept DEF OInv
<1>10. NobodyLost'
  <2>1. OthersStay(t)
    BY <1>1 DEF OthersStay, Queued, QueuedAny, lists, queues
  <2>2. ASSUME NEW u \in Threads, Does(t, {"dtimer", "dclose"}, u) PROVE FALSE
    <3>1. Does(t, Owning, u) /\ Does(t, Deleting, u)
      BY <2>2 DEF Does, Owning, Deleting
    <3>2. t = u
      BY <1>1, <3>1 DEF OInv, StepsInv, DeadOwnNothing
    <3> QED BY <1>1, <3>1, <3>2, NextDeleting DEF OInv, StepsInv, Others
  <2> QED BY <1>1, <2>1, <2>2, LostKept DEF OInv, DataInv
<1>11. DefunctOnce' /\ WaitingOnce' /\ TimersOK'
  <2>1. \A u \in Threads : u # t => stat'[u] = stat[u]
    BY <1>1
  <2>2. \A l \in Lists : Range(suspend_thread[l]) \subseteq Threads
    BY ListsOfThreads
  <2>3. Range(rt_thread_defunct) \subseteq Threads /\ armed \subseteq Threads
    BY ListsOfThreads DEF IInv, TcbOK
  <2>4. DefunctOnce'
    BY <1>1, <1>2, <2>1, <2>3 DEF OInv, DataInv, DefunctOnce, lists
  <2>5. WaitingOnce'
    BY <1>1, <1>2, <2>1, <2>2 DEF OInv, DataInv, WaitingOnce, WaitsAny, lists
  <2>6. TimersOK'
    BY <1>1, <1>2, <2>1, <2>3 DEF OInv, DataInv, TimersOK
  <2> QED BY <2>4, <2>5, <2>6
<1>12. CurrentOK'
  <2>1. rt_current_thread = c /\ c # t /\ stat'[c] = stat[c] /\ pc'[c] = pc[c]
    BY <1>1 DEF Running
  <2>2. stat'[Idle] = stat[Idle]
    BY <1>1, KernelAssumption
  <2> QED BY <1>1, <2>1, <2>2 DEF OInv, CurrentOK, Leaving, Does
<1>13. AppOK'
  BY DEF OInv, AppOK
<1> QED BY <1>3, <1>9, <1>10, <1>11, <1>12, <1>13 DEF OInv, DataInv

\* A call that does not work on t from outside relies on nothing of it.
LEMMA Bystander ==
    ASSUME IInv, ShapeOK, NEW d \in Threads, NEW t \in Threads,
           d = t \/ ~Does(d, Owning, t), ~Does(d, {"free"}, t), pc'[d] = pc[d]
    PROVE  Claim(d, t)'
<1>1. ~Does(d, Resuming, t) /\ ~Does(d, Deleting, t)
  <2>1. CASE d = t
    BY <2>1, NextResuming, NextDeleting DEF Others
  <2>2. CASE ~Does(d, Owning, t)
    BY <2>2 DEF Does, Owning
  <2> QED BY <2>1, <2>2
<1>2. Does(d, {"remove"}, t) => d = t
  BY DEF Does, Owning, Suspending
<1>3. /\ ~Does(d, Resuming, t)' /\ ~Does(d, Deleting, t)' /\ ~Does(d, {"free"}, t)'
      /\ Does(d, {"remove"}, t)' => d = t
  BY <1>1, <1>2, DoesKept
<1>4. /\ ~Does(d, {"resume"}, t)' /\ ~Does(d, {"unlink"}, t)' /\ ~Does(d, {"insert"}, t)'
      /\ ~Does(d, {"dremove"}, t)' /\ ~Does(d, {"dtimer", "dclose"}, t)'
      /\ ~Does(d, {"ddefunct"}, t)'
  BY <1>3 DEF Does, Resuming, Deleting
<1> QED BY <1>3, <1>4 DEF Claim

\* The idle thread frees what it was freeing.
LEMMA FreeKept ==
    ASSUME NEW c \in Threads, \A d \in Threads \ {c} : pc'[d] = pc[d],
           \A u \in Threads : ~Does(c, {"free"}, u)'
    PROVE  \A u \in Threads : Does(Idle, {"free"}, u)' => Does(Idle, {"free"}, u)
<1>1. CASE Idle = c
  BY <1>1
<1>2. CASE Idle # c
  BY <1>2, KernelAssumption, DoesKept
<1> QED BY <1>1, <1>2

\* A list that t is not on stays as it is when t is taken off all lists.
LEMMA UnlinkUnqueued ==
    ASSUME IInv, NEW t \in Threads, ~QueuedAny(t)
    PROVE  Unlinked(rt_thread_priority_table, t) = rt_thread_priority_table
<1>1. rt_thread_priority_table \in [Prios -> Seq(Threads)]
  BY DEF IInv, ListsOK, TableOK
<1>2. \A p \in Prios : RemoveFirst(rt_thread_priority_table[p], t) = rt_thread_priority_table[p]
  BY <1>1, RemoveAbsent DEF QueuedAny
<1> QED BY <1>1, <1>2 DEF Unlinked

\* The lists keep their order when the state of a thread that is on none changes.
LEMMA ListsKept ==
    ASSUME IInv, DataInv, NEW t \in Threads, UNCHANGED <<rt_thread_defunct, suspend_thread>>,
           \A u \in Threads \ {t} : stat'[u] = stat[u],
           t \notin Range(rt_thread_defunct), ~WaitsAny(t)
    PROVE  DefunctOnce' /\ WaitingOnce'
<1>1. /\ Range(rt_thread_defunct) \subseteq Threads
      /\ \A l \in Lists : Range(suspend_thread[l]) \subseteq Threads
  BY ListsOfThreads
<1>2. DefunctOnce'
  BY <1>1 DEF DataInv, DefunctOnce
<1>3. WaitingOnce'
  BY <1>1 DEF DataInv, WaitingOnce, WaitsAny
<1> QED BY <1>2, <1>3

\* So do the timers when no timer is started.
LEMMA TimersKept ==
    ASSUME IInv, DataInv, NEW t \in Threads, armed' \subseteq armed, api' = api,
           \A u \in Threads \ {t} : stat'[u] = stat[u], t \notin armed'
    PROVE  TimersOK'
BY DEF DataInv, TimersOK, IInv, TcbOK

\* The running thread goes on running.
LEMMA CurrentKept ==
    ASSUME OInv, NEW c \in Threads, NEW t \in Threads \ {c, Idle}, Running(c),
           ~Does(c, {"sched"}, c), \A u \in Threads \ {t} : stat'[u] = stat[u],
           UNCHANGED <<rt_current_thread, rt_scheduler_lock_nest, api>>
    PROVE  CurrentOK'
<1>1. \/ stat[c] = "READY"
      \/ stat[c] = "SUSPEND" /\ rt_scheduler_lock_nest > 0
  BY Alive
<1>2. stat'[c] = stat[c] /\ stat'[Idle] = stat[Idle]
  BY KernelAssumption
<1> QED BY <1>1, <1>2 DEF OInv, CurrentOK, Leaving, Running

\* rt_thread_startup: the thread is new, and no call works on it.
LEMMA StartupOrderly ==
    ASSUME IInv, IInv', OInv, NEW c \in Threads, NEW t \in Others(c),
           Startup(c, t), api' = api
    PROVE  OInv'
<1>1. /\ Running(c) /\ pc[c] = <<>> /\ t \in Threads \ {c, Idle} /\ stat[t] = "INIT"
      /\ "startup" \in api[c]
      /\ stat'[t] = "SUSPEND" /\ \A u \in Threads \ {t} : stat'[u] = stat[u]
      /\ \A u \in Threads \ {t} : current_priority'[u] = current_priority[u]
      /\ pc'[c] = << <<"resume", t>>, <<"sched", c>> >>
      /\ \A d \in Threads \ {c} : pc'[d] = pc[d]
      /\ UNCHANGED <<armed, lists, rt_current_thread, rt_scheduler_lock_nest>>
  BY DEF Startup, Startable, Call, Others, Goto, IInv, TcbOK, StepsOK
<1>2. ~QueuedAny(t) /\ ~WaitsAny(t) /\ t \notin Range(rt_thread_defunct) /\ t \notin armed
  BY <1>1 DEF OInv, DataInv, ReadyInv, QueuedIsReady, QueuedAny, WaitingOnce,
              WaitsAny, DefunctOnce, TimersOK
<1>3. ReadyInv'
  BY <1>1, <1>2, ReadyKept DEF OInv, DataInv, lists
<1>4. \A u \in Threads \ {t} : Untouched(u)
  BY <1>1 DEF Untouched, QueuedAny, WaitsAny, lists, queues
<1>5. HartMoves
  BY <1>1 DEF HartMoves
<1>6. \A labels, u : ~Does(c, labels, u)
  BY <1>1 DEF Does
<1>7. \A labels, u : Does(c, labels, u)' <=> "resume" \in labels /\ u = t
  BY <1>1 DEF Does
<1>8. \A u \in Threads : Does(Idle, {"free"}, u)' => Does(Idle, {"free"}, u)
  <2>1. \A u \in Threads : ~Does(c, {"free"}, u)'
    BY <1>7
  <2> QED BY <1>1, <2>1, FreeKept
<1>9. ShapeOK /\ Claims
  BY DEF OInv, StepsInv
<1>10. ~Asleep(t) /\ ~Gone(t)
  BY <1>1 DEF Asleep, Gone
<1>11. ASSUME NEW d \in Threads \ {c, t} PROVE ~Does(d, Owning, t)
  <2> SUFFICES ASSUME Does(d, Owning, t) PROVE FALSE
    OBVIOUS
  <2>1. Works(d, t)
    BY <1>9, OwnerShape
  <2>2. ~Manages(api, d)
    BY <1>1 DEF OInv, AppOK, Orderly, Managing
  <2>3. pc[d] \in Startings(t, d) /\ "resume" \notin api[d]
    BY <2>1, <2>2 DEF Works, Manages
  <2>4. Does(d, {"resume"}, t) \/ Does(d, {"unlink"}, t) \/ Does(d, {"insert"}, t)
    BY <2>3 DEF Startings, Does
  <2> QED BY <1>1, <1>9, <1>10, <2>3, <2>4 DEF Claims, Claim
<1>12. ASSUME NEW d \in Threads \ {c} PROVE Claim(d, t)'
  <2>1. ~Does(d, {"free"}, t)
    BY <1>1, <1>9, <1>10 DEF Claims, Claim
  <2> QED BY <1>1, <1>9, <1>11, <2>1, Bystander
<1>13. Shape(c)'
  BY <1>1 DEF Shape, Works, Startings, Startup, Others
<1>14. Asleep(t)'
  BY <1>1, <1>2 DEF Asleep, Loose, QueuedAny, Running, lists, queues
<1>15. \A u \in Threads : Claim(c, u)'
  BY <1>7, <1>14 DEF Claim
<1>16. stat'[c] = stat[c] /\ stat[c] \in {"READY", "SUSPEND"}
  BY <1>1, InOwnCode
<1>17. StepsInv'
  BY <1>1, <1>3, <1>4, <1>5, <1>7, <1>8, <1>11, <1>12, <1>13, <1>15, <1>16, StepsKept DEF OInv
<1>18. NobodyLost'
  <2>1. OthersStay(t)
    BY <1>1 DEF OthersStay, Queued, QueuedAny, lists, queues
  <2> QED BY <1>1, <1>6, <2>1, LostKept DEF OInv, DataInv
<1>19. DefunctOnce' /\ WaitingOnce' /\ TimersOK'
  BY <1>1, <1>2, ListsKept, TimersKept DEF OInv, lists
<1>20. CurrentOK'
  BY <1>1, <1>6, CurrentKept
<1>21. AppOK'
  BY DEF OInv, AppOK
<1> QED BY <1>3, <1>17, <1>18, <1>19, <1>20, <1>21 DEF OInv, DataInv

LEMMA ResumeUnlinkOrderly ==
    ASSUME IInv, IInv', OInv, NEW c \in Threads, ResumeUnlink(c), api' = api
    PROVE  OInv'
<1>0. PICK t : t = Target(c)
  OBVIOUS
<1>1. /\ At(c, "unlink") /\ Running(c) /\ pc[c] # <<>>
      /\ Unlink(t) /\ armed' = armed \ {t}
      /\ UNCHANGED <<stat, current_priority, rt_thread_ready_priority_group,
                     rt_current_thread, rt_scheduler_lock_nest>>
  BY <1>0 DEF ResumeUnlink, At, TimerStopped
<1>2. /\ ~Does(c, {"sched"}, c)
      /\ Does(c, {"unlink"}, t)
  BY <1>0, <1>1, InACall
<1>3. ShapeOK /\ Claims /\ DataInv /\ ReadyInv
  BY DEF OInv, StepsInv, DataInv
<1>4. /\ t \in Others(c)
      /\ \/ /\ "startup" \in api[c]
            /\ pc[c] = << <<"unlink", t>>, <<"insert", t>>, <<"sched", c>> >>
         \/ "resume" \in api[c] /\ pc[c] = << <<"unlink", t>>, <<"insert", t>> >>
  <2>1. Does(c, Resuming, t) /\ Head(pc[c])[1] = "unlink"
    BY <1>2 DEF Does, Resuming
  <2> QED BY <1>3, <2>1, NextResuming
<1>5. t \in Threads \ {c, Idle}
  BY <1>4 DEF Others
<1>6. pc'[c] = Tail(pc[c]) /\ \A d \in Threads \ {c} : pc'[d] = pc[d]
  BY <1>1, Returns DEF ResumeUnlink
<1>7. \/ "startup" \in api[c] /\ pc'[c] = << <<"insert", t>>, <<"sched", c>> >>
      \/ "resume" \in api[c] /\ pc'[c] = << <<"insert", t>> >>
  <2>1. CASE /\ "startup" \in api[c]
             /\ pc[c] = << <<"unlink", t>>, <<"insert", t>>, <<"sched", c>> >>
    BY <1>6, <2>1
  <2>2. CASE "resume" \in api[c] /\ pc[c] = << <<"unlink", t>>, <<"insert", t>> >>
    BY <1>6, <2>2
  <2> QED BY <1>4, <2>1, <2>2
<1>8. \A labels, u : Does(c, labels, u)' <=> "insert" \in labels /\ u = t
  BY <1>7 DEF Does
<1>9. Asleep(t)
  BY <1>2, <1>3, <1>5 DEF Claims, Claim
<1>10. UNCHANGED queues
  BY <1>1, <1>5, <1>9, UnlinkUnqueued DEF Unlink, Asleep, Loose, queues
<1>11. ReadyInv'
  BY <1>1, <1>3, <1>10, ReadyKept
<1>12. /\ OthersStay(t) /\ ~WaitsAny(t)' /\ DefunctOnce' /\ WaitingOnce'
       /\ \A u \in Threads : WaitsAny(u)' => WaitsAny(u)
       /\ Range(rt_thread_defunct') \subseteq Range(rt_thread_defunct)
  BY <1>1, <1>3, <1>5, <1>9, UnlinkKeeps DEF Asleep
<1>13. \A u \in Threads \ {t} : Untouched(u)
  BY <1>1, <1>10, <1>12 DEF Untouched, QueuedAny, queues
<1>14. HartMoves
  BY <1>1 DEF HartMoves
<1>15. \A u \in Threads : Does(Idle, {"free"}, u)' => Does(Idle, {"free"}, u)
  <2>1. \A u \in Threads : ~Does(c, {"free"}, u)'
    BY <1>8
  <2> QED BY <1>6, <2>1, FreeKept
<1>16. Asleep(t)'
  BY <1>1, <1>9, <1>10 DEF Asleep, Loose, QueuedAny, queues
<1>17. \A u \in Threads : Claim(c, u)'
  BY <1>8, <1>12, <1>16 DEF Claim
<1>18. \A d \in Threads \ {c, t} : ~Does(d, Owning, t)
  <2>1. Does(c, Owning, t)
    BY <1>2 DEF Does, Owning, Resuming
  <2> QED BY <1>5, <2>1 DEF OInv, StepsInv, OneOwner
<1>19. ASSUME NEW d \in Threads \ {c} PROVE Claim(d, t)'
  <2>1. ~Does(d, {"free"}, t)
    BY <1>3, <1>5, <1>9 DEF Claims, Claim, Asleep, Gone
  <2> QED BY <1>3, <1>5, <1>6, <1>18, <2>1, Bystander
<1>20. Shape(c)'
  BY <1>4, <1>7 DEF Shape, Works, Startings, Resumings, Others
<1>21. stat'[c] \in {"READY", "SUSPEND"} /\ stat'[t] = "SUSPEND"
  BY <1>1, <1>2, <1>9, Alive DEF Asleep
<1>22. StepsInv'
  BY <1>5, <1>6, <1>8, <1>11, <1>13, <1>14, <1>15, <1>17, <1>18, <1>19, <1>20, <1>21,
     StepsKept DEF OInv
<1>23. NobodyLost'
  <2>1. \A u : ~Does(c, {"dtimer", "dclose"}, u)
    BY <1>2 DEF Does
  <2> QED BY <1>1, <1>5, <1>6, <1>12, <1>21, <2>1, LostKept DEF OInv, DataInv
<1>24. TimersOK'
  BY <1>1, <1>3, <1>5, TimersKept
<1>25. CurrentOK'
  BY <1>1, <1>2, <1>5, CurrentKept
<1>26. AppOK'
  BY DEF OInv, AppOK
<1> QED BY <1>11, <1>12, <1>22, <1>23, <1>24, <1>25, <1>26 DEF OInv, DataInv

LEMMA ResumeInsertOrderly ==
    ASSUME IInv, IInv', OInv, NEW c \in Threads, ResumeInsert(c), api' = api
    PROVE  OInv'
<1>0. PICK t : t = Target(c)
  OBVIOUS
<1>1. /\ At(c, "insert") /\ Running(c) /\ pc[c] # <<>>
      /\ InsertThread(t)
      /\ UNCHANGED <<current_priority, armed, rt_thread_defunct, suspend_thread,
                     rt_current_thread, rt_scheduler_lock_nest>>
  BY <1>0 DEF ResumeInsert, At
<1>2. /\ ~Does(c, {"sched"}, c)
      /\ Does(c, {"insert"}, t)
  BY <1>0, <1>1, InACall
<1>3. ShapeOK /\ Claims /\ DataInv /\ ReadyInv
  BY DEF OInv, StepsInv, DataInv
<1>4. /\ t \in Others(c)
      /\ \/ pc[c] = << <<"insert", t>>, <<"sched", c>> >>
         \/ pc[c] = << <<"insert", t>> >>
  <2>1. Does(c, Resuming, t) /\ Head(pc[c])[1] = "insert"
    BY <1>2 DEF Does, Resuming
  <2> QED BY <1>3, <2>1, NextResuming
<1>5. t \in Threads \ {c, Idle}
  BY <1>4 DEF Others
<1>6. pc'[c] = Tail(pc[c]) /\ \A d \in Threads \ {c} : pc'[d] = pc[d]
  BY <1>1, Returns DEF ResumeInsert
<1>7. Foreign(pc'[c])
  <2>1. CASE pc[c] = << <<"insert", t>>, <<"sched", c>> >>
    <3>1. pc'[c] = << <<"sched", c>> >>
      BY <1>6, <2>1
    <3> QED BY <3>1, ForeignShort
  <2>2. CASE pc[c] = << <<"insert", t>> >>
    <3>1. pc'[c] = <<>>
      BY <1>6, <2>2
    <3> QED BY <3>1, ForeignShort
  <2> QED BY <1>4, <2>1, <2>2
<1>8. /\ Shape(c)' /\ \A u \in Threads : Claim(c, u)'
      /\ \A u \in Threads : ~Does(c, Owning, u)'
      /\ \A u \in Threads : ~Does(c, {"free"}, u)'
  BY <1>7, ForeignStep
<1>9. Asleep(t) /\ ~WaitsAny(t) /\ stat[t] = "SUSPEND" /\ ~QueuedAny(t) /\ t \notin armed
  BY <1>2, <1>3, <1>5 DEF Claims, Claim, Asleep, Loose
<1>10. /\ stat'[t] = "READY" /\ \A u \in Threads \ {t} : stat'[u] = stat[u]
       /\ rt_thread_priority_table' = Inserted(rt_thread_priority_table, t)
       /\ rt_thread_ready_priority_group' =
              rt_thread_ready_priority_group \cup {current_priority[t]}
  BY <1>1, <1>5 DEF InsertThread, IInv, TcbOK
<1>11. ReadyInv' /\ Queued(t)'
  BY <1>1, <1>3, <1>5, <1>9, <1>10, ReadyAfterInsert
<1>12. OthersStay(t)
  BY <1>1, <1>5, <1>10, StayAfterInsert
<1>13. \A u \in Threads \ {t} : Untouched(u)
  BY <1>1, <1>10, <1>12 DEF Untouched, OthersStay, WaitsAny
<1>14. HartMoves
  BY <1>1 DEF HartMoves
<1>15. \A u \in Threads : Does(Idle, {"free"}, u)' => Does(Idle, {"free"}, u)
  BY <1>6, <1>8, FreeKept
<1>18. \A d \in Threads \ {c, t} : ~Does(d, Owning, t)
  <2>1. Does(c, Owning, t)
    BY <1>2 DEF Does, Owning, Resuming
  <2> QED BY <1>5, <2>1 DEF OInv, StepsInv, OneOwner
<1>19. ASSUME NEW d \in Threads \ {c} PROVE Claim(d, t)'
  <2>1. ~Does(d, {"free"}, t)
    BY <1>3, <1>5, <1>9 DEF Claims, Claim, Gone
  <2> QED BY <1>3, <1>5, <1>6, <1>18, <2>1, Bystander
<1>22. StepsInv'
  BY <1>5, <1>6, <1>8, <1>10, <1>11, <1>13, <1>14, <1>15, <1>19, StepsKept DEF OInv
<1>23. NobodyLost'
  <2>1. \A u : ~Does(c, {"dtimer", "dclose"}, u)
    BY <1>2 DEF Does
  <2> QED BY <1>5, <1>6, <1>10, <1>11, <1>12, <2>1, LostKept DEF OInv, DataInv
<1>24. DefunctOnce' /\ WaitingOnce' /\ TimersOK'
  <2>1. t \notin Range(rt_thread_defunct)
    BY <1>3, <1>9 DEF DataInv, DefunctOnce
  <2> QED BY <1>1, <1>3, <1>5, <1>9, <1>10, <2>1, ListsKept, TimersKept
<1>25. CurrentOK'
  BY <1>1, <1>2, <1>5, <1>10, CurrentKept
<1>26. AppOK'
  BY DEF OInv, AppOK
<1> QED BY <1>11, <1>22, <1>23, <1>24, <1>25, <1>26 DEF OInv, DataInv

\* What a call relies on of the running thread is little.
LEMMA RunningClaims ==
    ASSUME OInv, NEW c \in Threads, Running(c), stat[c] \in {"READY", "SUSPEND"},
           NEW d \in Threads
    PROVE  /\ ~Does(d, {"unlink"}, c) /\ ~Does(d, {"insert"}, c)
           /\ ~Does(d, {"dtimer", "dclose"}, c)
           /\ ~Does(d, {"ddefunct"}, c) /\ ~Does(d, {"free"}, c)
           /\ Does(d, {"resume"}, c) => "resume" \in api[d]
<1>1. Claim(d, c)
  BY DEF OInv, StepsInv, Claims
<1>2. ~Asleep(c) /\ ~Detached(c) /\ ~Gone(c)
  BY DEF Running, Asleep, Detached, Loose, Gone
<1> QED BY <1>1, <1>2 DEF Claim

\* It may suspend itself at any time.
LEMMA SelfSuspended ==
    ASSUME OInv, NEW c \in Threads, Running(c), stat[c] \in {"READY", "SUSPEND"},
           NEW d \in Threads \ {c}, pc'[d] = pc[d], api' = api, stat'[c] = "SUSPEND"
    PROVE  Claim(d, c)'
<1>1. /\ ~Does(d, {"unlink"}, c) /\ ~Does(d, {"insert"}, c)
      /\ ~Does(d, {"dtimer", "dclose"}, c)
      /\ ~Does(d, {"ddefunct"}, c) /\ ~Does(d, {"free"}, c)
      /\ Does(d, {"resume"}, c) => "resume" \in api[d]
  BY RunningClaims
<1>2. /\ ~Does(d, {"unlink"}, c)' /\ ~Does(d, {"insert"}, c)'
      /\ ~Does(d, {"dtimer", "dclose"}, c)'
      /\ ~Does(d, {"ddefunct"}, c)' /\ ~Does(d, {"free"}, c)'
      /\ Does(d, {"resume"}, c)' => "resume" \in api'[d]
  BY <1>1, DoesKept
<1> QED BY <1>2 DEF Claim

\* Applications leave the idle thread alone.
LEMMA IdleCallsNothing ==
    ASSUME OInv
    PROVE  api[Idle] = {} /\ Idle \in Threads
BY KernelAssumption DEF OInv, AppOK

LEMMA SuspendRemoveOrderly ==
    ASSUME IInv, IInv', OInv, NEW c \in Threads, SuspendRemove(c), api' = api
    PROVE  OInv'
<1>0. PICK t : t = Target(c)
  OBVIOUS
<1>1. /\ At(c, "remove") /\ Running(c) /\ pc[c] # <<>>
      /\ RemoveThread(t) /\ Unlink(t) /\ armed' = armed \ {t}
      /\ UNCHANGED <<current_priority, rt_current_thread, rt_scheduler_lock_nest>>
  BY <1>0 DEF SuspendRemove, At, TimerStopped, RemoveThread
<1>2. /\ ~Does(c, {"sched"}, c)
      /\ Does(c, {"remove"}, t)
      /\ stat[c] \in {"READY", "SUSPEND"}
  BY <1>0, <1>1, InACall
<1>3. ShapeOK /\ Claims /\ DataInv /\ ReadyInv
  BY DEF OInv, StepsInv, DataInv
<1>4. \/ /\ t = c /\ "park" \in api[c]
         /\ pc[c] = << <<"remove", c>>, <<"sched", c>> >>
      \/ t \in Others(c) /\ pc[c] = << <<"remove", t>> >>
  <2>1. Does(c, Suspending, t) /\ Head(pc[c])[1] = "remove"
    BY <1>2 DEF Does, Suspending
  <2> QED BY <1>3, <2>1, NextSuspending
<1>5. t \in Threads \ {Idle}
  BY <1>4, IdleCallsNothing DEF Others
<1>6. pc'[c] = Tail(pc[c]) /\ \A d \in Threads \ {c} : pc'[d] = pc[d]
  BY <1>1, Returns DEF SuspendRemove
<1>7. \/ t = c /\ pc'[c] = << <<"sched", c>> >>
      \/ t # c /\ pc'[c] = <<>>
  <2>1. CASE t = c /\ pc[c] = << <<"remove", c>>, <<"sched", c>> >>
    BY <1>6, <2>1
  <2>2. CASE t \in Others(c) /\ pc[c] = << <<"remove", t>> >>
    BY <1>6, <2>2 DEF Others
  <2> QED BY <1>4, <2>1, <2>2
<1>8. /\ Shape(c)' /\ \A u \in Threads : Claim(c, u)'
      /\ \A u \in Threads : ~Does(c, Owning, u)'
      /\ \A u \in Threads : ~Does(c, {"free"}, u)'
  <2>1. Foreign(pc'[c])
    BY <1>7, ForeignShort
  <2> QED BY <2>1, ForeignStep
<1>9. stat[t] \in {"READY", "SUSPEND"}
  <2>1. CASE t = c
    BY <1>2, <2>1
  <2>2. CASE t # c
    BY <1>2, <1>3, <1>5, <2>2 DEF Claims, Claim
  <2> QED BY <2>1, <2>2
<1>10. stat'[t] = "SUSPEND" /\ \A u \in Threads \ {t} : stat'[u] = stat[u]
  BY <1>0, <1>5 DEF SuspendRemove, IInv, TcbOK
<1>11. ReadyInv'
  BY <1>1, <1>3, <1>5, <1>10, ReadyAfterRemove DEF RemoveThread, Unlink
<1>12. /\ OthersStay(t) /\ DefunctOnce' /\ WaitingOnce'
       /\ \A u \in Threads : WaitsAny(u)' => WaitsAny(u)
       /\ Range(rt_thread_defunct') \subseteq Range(rt_thread_defunct)
  BY <1>1, <1>3, <1>5, <1>9, <1>10, UnlinkKeeps
<1>13. \A u \in Threads \ {t} : Untouched(u)
  BY <1>1, <1>10, <1>12 DEF Untouched, OthersStay
<1>14. HartMoves
  BY <1>1 DEF HartMoves
<1>15. \A u \in Threads : Does(Idle, {"free"}, u)' => Does(Idle, {"free"}, u)
  BY <1>6, <1>8, FreeKept
<1>16. ASSUME NEW d \in Threads \ {c} PROVE Claim(d, t)'
  <2>1. CASE t = c
    BY <1>1, <1>2, <1>6, <1>10, <2>1, SelfSuspended
  <2>2. CASE t # c
    <3>1. Does(c, Owning, t)
      BY <1>2 DEF Does, Owning, Suspending
    <3>2. d = t \/ ~Does(d, Owning, t)
      BY <1>5, <2>2, <3>1 DEF OInv, StepsInv, OneOwner
    <3>3. ~Does(d, {"free"}, t)
      BY <1>3, <1>5, <1>9 DEF Claims, Claim, Gone
    <3> QED BY <1>3, <1>5, <1>6, <3>2, <3>3, Bystander
  <2> QED BY <2>1, <2>2
<1>17. StepsInv'
  BY <1>5, <1>6, <1>8, <1>10, <1>11, <1>13, <1>14, <1>15, <1>16, StepsKept DEF OInv
<1>18. NobodyLost'
  <2>1. \A u : ~Does(c, {"dtimer", "dclose"}, u)
    BY <1>2 DEF Does
  <2> QED BY <1>5, <1>6, <1>10, <1>12, <2>1, LostKept DEF OInv, DataInv
<1>19. TimersOK'
  BY <1>1, <1>3, <1>5, <1>10, TimersKept
<1>20. CurrentOK'
  <2>1. CASE t = c
    <3>1. Does(c, {"sched"}, c)'
      BY <1>7, <2>1 DEF Does
    <3>2. stat'[Idle] = "READY"
      BY <1>5, <1>10, IdleQueued
    <3> QED BY <1>1, <1>10, <2>1, <3>1, <3>2 DEF OInv, CurrentOK, Leaving, Running
  <2>2. CASE t # c
    BY <1>1, <1>2, <1>5, <1>10, <2>2, CurrentKept
  <2> QED BY <2>1, <2>2
<1>21. AppOK'
  BY DEF OInv, AppOK
<1> QED BY <1>11, <1>12, <1>17, <1>18, <1>19, <1>20, <1>21 DEF OInv, DataInv

\* The running thread, if READY, is in the ready queue.
LEMMA RunningQueued ==
    ASSUME IInv, OInv, NEW c \in Threads, rt_current_thread = c, stat[c] = "READY"
    PROVE  Queued(c)
<1>1. ASSUME NEW d \in Threads, Does(d, {"dtimer", "dclose"}, c) PROVE FALSE
  BY <1>1 DEF OInv, StepsInv, Claims, Claim, Detached, Loose
<1> QED BY <1>1 DEF OInv, DataInv, NobodyLost

LEMMA YieldOrderly ==
    ASSUME IInv, IInv', OInv, NEW c \in Threads, Yield(c), api' = api
    PROVE  OInv'
<1>1. /\ Running(c) /\ pc[c] = <<>> /\ stat[c] = "READY"
      /\ rt_thread_priority_table' = Rotated(c)
      /\ pc'[c] = << <<"sched", c>> >> /\ \A d \in Threads \ {c} : pc'[d] = pc[d]
      /\ UNCHANGED <<stat, current_priority, armed, rt_thread_ready_priority_group,
                     rt_thread_defunct, suspend_thread, rt_current_thread,
                     rt_scheduler_lock_nest>>
  BY DEF Yield, Call, Rotates, Goto, tcb, IInv, StepsOK
<1>2. ReadyInv /\ Queued(c) /\ current_priority[c] \in Prios
  BY <1>1, RunningQueued DEF OInv, DataInv, Running, IInv, TcbOK
<1>3. ReadyInv' /\ Queued(c)'
  BY <1>1, <1>2, ReadyAfterRotation
<1>4. OthersStay(c)
  BY <1>1, <1>2, StayAfterMove DEF Rotated, ReadyInv
<1>5. \A u \in Threads : Untouched(u)
  BY <1>1, <1>2, <1>4 DEF Untouched, OthersStay, WaitsAny, Queued, QueuedAny
<1>6. HartMoves
  BY <1>1 DEF HartMoves
<1>7. /\ Shape(c)' /\ \A u \in Threads : Claim(c, u)'
      /\ \A u \in Threads : ~Does(c, Owning, u)'
      /\ \A u \in Threads : ~Does(c, {"free"}, u)'
  BY <1>1, ForeignShort, ForeignStep
<1>8. \A u \in Threads : Does(Idle, {"free"}, u)' => Does(Idle, {"free"}, u)
  BY <1>1, <1>7, FreeKept
<1>9. StepsInv'
  <2>1. ASSUME NEW d \in Threads \ {c} PROVE Claim(d, c)'
    <3>1. Claim(d, c) /\ Untouched(c) /\ pc'[d] = pc[d]
      BY <1>1, <1>5 DEF StepsInv, Claims, OInv
    <3> QED BY <1>3, <1>6, <1>8, <3>1, ClaimKept
  <2> QED BY <1>1, <1>3, <1>5, <1>6, <1>7, <1>8, <2>1, StepsKept DEF OInv
<1>10. NobodyLost'
  <2>1. \A u : ~Does(c, {"dtimer", "dclose"}, u)
    BY <1>1 DEF Does
  <2> QED BY <1>1, <1>3, <1>4, <2>1, LostKept DEF OInv, DataInv
<1>11. DefunctOnce' /\ WaitingOnce' /\ TimersOK'
  BY <1>1 DEF OInv, DataInv, DefunctOnce, WaitingOnce, TimersOK
<1>12. CurrentOK'
  BY <1>1 DEF OInv, CurrentOK, Leaving, Running
<1>13. AppOK'
  BY DEF OInv, AppOK
<1> QED BY <1>3, <1>9, <1>10, <1>11, <1>12, <1>13 DEF OInv, DataInv

LEMMA SleepOrderly ==
    ASSUME IInv, IInv', OInv, NEW c \in Threads, Sleep(c), api' = api
    PROVE  OInv'
<1>1. /\ Running(c) /\ pc[c] = <<>> /\ "sleep" \in api[c] /\ armed' = armed \cup {c}
      /\ pc'[c] = << <<"sched", c>>, <<"awake", c>> >>
      /\ \A d \in Threads \ {c} : pc'[d] = pc[d]
      /\ UNCHANGED <<current_priority, rt_current_thread, rt_scheduler_lock_nest>>
  BY DEF Sleep, Call, Goto, IInv, StepsOK
<1>2. stat[c] \in {"READY", "SUSPEND"} /\ c # Idle
  BY <1>1, InOwnCode, IdleCallsNothing
<1>3. DataInv /\ ReadyInv
  BY DEF OInv, DataInv
<1>4. stat'[c] = "SUSPEND" /\ \A u \in Threads \ {c} : stat'[u] = stat[u]
  BY <1>2 DEF Sleep, IInv, TcbOK
<1>5. /\ ReadyInv' /\ OthersStay(c) /\ DefunctOnce' /\ WaitingOnce'
      /\ \A u \in Threads : WaitsAny(u)' => WaitsAny(u)
      /\ Range(rt_thread_defunct') \subseteq Range(rt_thread_defunct)
  <2>1. CASE stat[c] = "READY"
    <3>1. RemoveThread(c) /\ Unlink(c)
      BY <2>1 DEF Sleep, RemoveThread
    <3>2. ReadyInv'
      BY <1>1, <1>3, <1>4, <3>1, ReadyAfterRemove DEF RemoveThread, Unlink
    <3> QED BY <1>1, <1>2, <1>3, <1>4, <3>1, <3>2, UnlinkKeeps
  <2>2. CASE stat[c] # "READY"
    <3>1. UNCHANGED <<stat, lists>>
      BY <2>2 DEF Sleep
    <3>2. ReadyInv'
      BY <1>1, <1>3, <3>1, ReadyKept DEF lists
    <3>3. OthersStay(c)
      BY <1>1, <3>1 DEF OthersStay, Queued, QueuedAny, lists, queues
    <3>4. DefunctOnce' /\ WaitingOnce'
      BY <1>3, <3>1 DEF DataInv, DefunctOnce, WaitingOnce, lists
    <3> QED BY <3>1, <3>2, <3>3, <3>4 DEF WaitsAny, lists
  <2> QED BY <2>1, <2>2
<1>6. \A u \in Threads \ {c} : Untouched(u)
  BY <1>1, <1>4, <1>5 DEF Untouched, OthersStay
<1>7. HartMoves
  BY <1>1 DEF HartMoves
<1>8. /\ Shape(c)' /\ \A u \in Threads : Claim(c, u)'
      /\ \A u \in Threads : ~Does(c, Owning, u)'
      /\ \A u \in Threads : ~Does(c, {"free"}, u)'
  BY <1>1, ForeignShort, ForeignStep
<1>9. \A u \in Threads : Does(Idle, {"free"}, u)' => Does(Idle, {"free"}, u)
  BY <1>1, <1>8, FreeKept
<1>10. \A d \in Threads \ {c} : Claim(d, c)'
  BY <1>1, <1>2, <1>4, SelfSuspended
<1>11. StepsInv'
  BY <1>1, <1>4, <1>5, <1>6, <1>7, <1>8, <1>9, <1>10, StepsKept DEF OInv
<1>12. NobodyLost'
  <2>1. \A u : ~Does(c, {"dtimer", "dclose"}, u)
    BY <1>1 DEF Does
  <2> QED BY <1>1, <1>4, <1>5, <2>1, LostKept DEF OInv, DataInv
<1>13. TimersOK'
  BY <1>1, <1>3, <1>4 DEF DataInv, TimersOK, IInv, TcbOK
<1>14. CurrentOK'
  <2>1. Does(c, {"sched"}, c)'
    BY <1>1 DEF Does
  <2>2. stat'[Idle] = "READY"
    BY <1>2, <1>4, IdleQueued
  <2> QED BY <1>1, <1>4, <2>1, <2>2 DEF OInv, CurrentOK, Leaving, Running
<1>15. AppOK'
  BY DEF OInv, AppOK
<1> QED BY <1>5, <1>11, <1>12, <1>13, <1>14, <1>15 DEF OInv, DataInv

\* rt_thread_exit: nobody manages a thread that ends by itself.
LEMMA ExitOrderly ==
    ASSUME IInv, IInv', OInv, NEW c \in Threads, Exit(c), api' = api
    PROVE  OInv'
<1>1. /\ Running(c) /\ pc[c] = <<>> /\ "exit" \in api[c] /\ armed' = armed \ {c}
      /\ rt_thread_priority_table' = Unlinked(rt_thread_priority_table, c)
      /\ rt_thread_ready_priority_group' =
             GroupAfterRemove(rt_thread_priority_table', c)
      /\ \/ rt_thread_defunct' = rt_thread_defunct
         \/ rt_thread_defunct' = <<c>> \o rt_thread_defunct
      /\ stat'[c] = "CLOSE" /\ \A u \in Threads \ {c} : stat'[u] = stat[u]
      /\ pc'[c] = << <<"sched", c>> >> /\ \A d \in Threads \ {c} : pc'[d] = pc[d]
      /\ UNCHANGED <<current_priority, suspend_thread, rt_current_thread,
                     rt_scheduler_lock_nest>>
  BY DEF Exit, Call, Goto, TimerStopped, IInv, TcbOK, StepsOK
<1>2. stat[c] = "READY" /\ rt_scheduler_lock_nest = 0 /\ c # Idle
  <2>1. "lock" \notin api[c]
    BY <1>1 DEF OInv, AppOK, Orderly
  <2>2. rt_scheduler_lock_nest \in Nat
    BY KernelAssumption DEF IInv, HartOK
  <2> QED BY <1>1, <2>1, <2>2, InOwnCode, IdleCallsNothing
<1>3. DataInv /\ ReadyInv /\ ShapeOK /\ Claims
  BY DEF OInv, StepsInv, DataInv
<1>4. c \notin Range(rt_thread_defunct) /\ ~WaitsAny(c)
  BY <1>2, <1>3 DEF DataInv, DefunctOnce, WaitingOnce, WaitsAny
<1>5. ReadyInv'
  BY <1>1, <1>3, ReadyAfterRemove
<1>6. OthersStay(c)
  BY <1>1, <1>3, StayAfterUnlink DEF ReadyInv
<1>7. /\ DefunctOnce' /\ WaitingOnce'
      /\ \A u \in Threads \ {c} :
            u \in Range(rt_thread_defunct') => u \in Range(rt_thread_defunct)
  <2>1. CASE rt_thread_defunct' = rt_thread_defunct
    BY <1>1, <1>3, <1>4, <2>1, ListsKept
  <2>2. CASE rt_thread_defunct' = <<c>> \o rt_thread_defunct
    <3>1. /\ DefunctOnce'
          /\ Range(rt_thread_defunct') = Range(rt_thread_defunct) \cup {c}
      BY <1>1, <1>3, <1>4, <2>2, DefunctAfterClose DEF DataInv
    <3>2. WaitingOnce'
      <4>1. \A u \in Threads : WaitsAny(u) => stat'[u] = stat[u]
        BY <1>1, <1>4
      <4> QED BY <1>1, <1>3, <4>1, WaitingKept DEF DataInv
    <3> QED BY <3>1, <3>2
  <2> QED BY <1>1, <2>1, <2>2
<1>8. \A u \in Threads \ {c} : Untouched(u)
  BY <1>1, <1>6, <1>7 DEF Untouched, OthersStay, WaitsAny
<1>9. HartMoves
  BY <1>1 DEF HartMoves
<1>10. /\ Shape(c)' /\ \A u \in Threads : Claim(c, u)'
       /\ \A u \in Threads : ~Does(c, Owning, u)'
       /\ \A u \in Threads : ~Does(c, {"free"}, u)'
  BY <1>1, ForeignShort, ForeignStep
<1>11. \A u \in Threads : Does(Idle, {"free"}, u)' => Does(Idle, {"free"}, u)
  BY <1>1, <1>10, FreeKept
<1>12. ASSUME NEW d \in Threads \ {c} PROVE Claim(d, c)'
  <2>1. /\ ~Does(d, {"unlink"}, c) /\ ~Does(d, {"insert"}, c)
        /\ ~Does(d, {"dtimer", "dclose"}, c)
        /\ ~Does(d, {"ddefunct"}, c) /\ ~Does(d, {"free"}, c)
        /\ Does(d, {"resume"}, c) => "resume" \in api[d]
    BY <1>1, <1>2, RunningClaims
  <2>2. ~Does(d, {"remove"}, c)
    <3> SUFFICES ASSUME Does(d, {"remove"}, c) PROVE FALSE
      OBVIOUS
    <3>1. Does(d, Suspending, c)
      BY DEF Does, Suspending
    <3>2. c \in Others(d) /\ "suspend" \in api[d]
      BY <1>3, <3>1, NextSuspending
    <3> QED BY <1>1, <3>2 DEF OInv, AppOK, Orderly
  <2>3. ~Does(d, {"dremove"}, c)
    <3> SUFFICES ASSUME Does(d, {"dremove"}, c) PROVE FALSE
      OBVIOUS
    <3>1. Does(d, Deleting, c)
      BY DEF Does, Deleting
    <3>2. c \in Others(d) /\ "delete" \in api[d]
      BY <1>3, <3>1, NextDeleting
    <3> QED BY <1>1, <3>2 DEF OInv, AppOK, Orderly
  <2>4. /\ ~Does(d, {"unlink"}, c)' /\ ~Does(d, {"insert"}, c)'
        /\ ~Does(d, {"dtimer", "dclose"}, c)'
        /\ ~Does(d, {"ddefunct"}, c)' /\ ~Does(d, {"free"}, c)'
        /\ ~Does(d, {"remove"}, c)' /\ ~Does(d, {"dremove"}, c)'
        /\ Does(d, {"resume"}, c)' => "resume" \in api'[d]
    BY <1>1, <2>1, <2>2, <2>3, DoesKept
  <2> QED BY <2>4 DEF Claim
<1>13. StepsInv'
  BY <1>1, <1>5, <1>8, <1>9, <1>10, <1>11, <1>12, StepsKept DEF OInv
<1>14. NobodyLost'
  <2>1. \A u : ~Does(c, {"dtimer", "dclose"}, u)
    BY <1>1 DEF Does
  <2> QED BY <1>1, <1>6, <2>1, LostKept DEF OInv, DataInv
<1>15. TimersOK'
  BY <1>1, <1>3, TimersKept
<1>16. CurrentOK'
  <2>1. stat'[Idle] = "READY"
    BY <1>1, <1>2, IdleQueued
  <2> QED BY <1>1, <1>2, <2>1 DEF OInv, CurrentOK, Leaving, Running
<1>17. AppOK'
  BY DEF OInv, AppOK
<1> QED BY <1>5, <1>7, <1>13, <1>14, <1>15, <1>16, <1>17 DEF OInv, DataInv

\* What a deletion has still to do after each of its steps.
LEMMA DeletingTail ==
    ASSUME IInv, ShapeOK, NEW c \in Threads, NEW t, NEW label \in Deleting,
           Does(c, {label}, t)
    PROVE  /\ t \in Others(c) /\ "delete" \in api[c] /\ Does(c, Owning, t)
           /\ label = "dremove" =>
                \/ Tail(pc[c]) = << <<"dtimer", t>>, <<"dclose", t>> >>
                \/ Tail(pc[c]) = << <<"dtimer", t>>, <<"dclose", t>>, <<"ddefunct", t>> >>
           /\ label = "dtimer" =>
                \/ Tail(pc[c]) = << <<"dclose", t>> >>
                \/ Tail(pc[c]) = << <<"dclose", t>>, <<"ddefunct", t>> >>
           /\ label = "dclose" =>
                Tail(pc[c]) = <<>> \/ Tail(pc[c]) = << <<"ddefunct", t>> >>
           /\ label = "ddefunct" => Tail(pc[c]) = <<>>
<1>1. Does(c, Deleting, t) /\ Does(c, Owning, t) /\ Head(pc[c])[1] = label
  BY DEF Does, Owning
<1>2. /\ t \in Others(c) /\ "delete" \in api[c]
      /\ pc[c] \in Detachings(t) \cup Deletings(t)
  BY <1>1, NextDeleting
<1>3. CASE pc[c] = << <<"dremove", t>>, <<"dtimer", t>>, <<"dclose", t>> >>
  BY <1>1, <1>2, <1>3
<1>4. CASE pc[c] = << <<"dtimer", t>>, <<"dclose", t>> >>
  BY <1>1, <1>2, <1>4
<1>5. CASE pc[c] = << <<"dclose", t>> >>
  BY <1>1, <1>2, <1>5
<1>6. CASE pc[c] = << <<"dremove", t>>, <<"dtimer", t>>, <<"dclose", t>>,
                      <<"ddefunct", t>> >>
  BY <1>1, <1>2, <1>6
<1>7. CASE pc[c] = << <<"dtimer", t>>, <<"dclose", t>>, <<"ddefunct", t>> >>
  BY <1>1, <1>2, <1>7
<1>8. CASE pc[c] = << <<"dclose", t>>, <<"ddefunct", t>> >>
  BY <1>1, <1>2, <1>8
<1>9. CASE pc[c] = << <<"ddefunct", t>> >>
  BY <1>1, <1>2, <1>9
<1> QED BY <1>2, <1>3, <1>4, <1>5, <1>6, <1>7, <1>8, <1>9 DEF Detachings, Deletings

\* What the four steps of a deletion have in common.
LEMMA DeletionStep ==
    ASSUME IInv, OInv, NEW c \in Threads, NEW label \in Deleting, At(c, label)
    PROVE  /\ Running(c) /\ pc[c] # <<>>
           /\ Target(c) \in Threads \ {c, Idle} /\ Target(c) \in Others(c)
           /\ "delete" \in api[c] /\ ~Does(c, {"sched"}, c)
           /\ Does(c, {label}, Target(c)) /\ stat[c] \in {"READY", "SUSPEND"}
           /\ \A d \in Threads \ {c, Target(c)} : ~Does(d, Owning, Target(c))
           /\ \A u : Does(Target(c), Owning, u) => u = Target(c)
<1>1. /\ Running(c) /\ pc[c] # <<>> /\ ~Does(c, {"sched"}, c)
      /\ Does(c, {label}, Target(c)) /\ stat[c] \in {"READY", "SUSPEND"}
  BY InACall DEF At, Deleting
<1>2. /\ Target(c) \in Others(c) /\ "delete" \in api[c] /\ Does(c, Owning, Target(c))
  BY <1>1, DeletingTail DEF OInv, StepsInv
<1>3. Target(c) \in Threads \ {c, Idle} /\ Manages(api, c)
  BY <1>2 DEF Others, Manages
<1>4. \A d \in Threads \ {c, Target(c)} : ~Does(d, Owning, Target(c))
  BY <1>2, <1>3 DEF OInv, StepsInv, OneOwner
<1>5. \A u : Does(Target(c), Owning, u) => u = Target(c)
  BY <1>3, Sole DEF OInv, StepsInv
<1> QED BY <1>1, <1>2, <1>3, <1>4, <1>5

LEMMA DeleteRemoveOrderly ==
    ASSUME IInv, IInv', OInv, NEW c \in Threads, DeleteRemove(c), api' = api
    PROVE  OInv'
<1>0. PICK t : t = Target(c)
  OBVIOUS
<1>1. /\ At(c, "dremove") /\ RemoveThread(t) /\ Unlink(t)
      /\ UNCHANGED <<stat, armed, current_priority, rt_current_thread,
                     rt_scheduler_lock_nest>>
  BY <1>0 DEF DeleteRemove, At, RemoveThread, tcb
<1>2. /\ Running(c) /\ pc[c] # <<>> /\ t \in Threads \ {c, Idle} /\ t \in Others(c)
      /\ "delete" \in api[c] /\ ~Does(c, {"sched"}, c)
      /\ Does(c, {"dremove"}, t) /\ stat[c] \in {"READY", "SUSPEND"}
      /\ \A d \in Threads \ {c, t} : ~Does(d, Owning, t)
  BY <1>0, <1>1, DeletionStep DEF Deleting
<1>3. ShapeOK /\ Claims /\ DataInv /\ ReadyInv
  BY DEF OInv, StepsInv, DataInv
<1>4. pc'[c] = Tail(pc[c]) /\ \A d \in Threads \ {c} : pc'[d] = pc[d]
  BY <1>2, Returns DEF DeleteRemove
<1>5. \/ pc'[c] = << <<"dtimer", t>>, <<"dclose", t>> >>
      \/ pc'[c] = << <<"dtimer", t>>, <<"dclose", t>>, <<"ddefunct", t>> >>
  BY <1>2, <1>3, <1>4, DeletingTail DEF Deleting
<1>6. \A labels, u : Does(c, labels, u)' <=> "dtimer" \in labels /\ u = t
  BY <1>5 DEF Does
<1>7. stat[t] \in {"READY", "SUSPEND"} /\ stat'[t] = stat[t]
  BY <1>1, <1>2, <1>3 DEF Claims, Claim
<1>8. ReadyInv'
  BY <1>1, <1>2, <1>3, ReadyAfterRemove DEF RemoveThread, Unlink
<1>9. /\ OthersStay(t) /\ ~QueuedAny(t)' /\ ~WaitsAny(t)'
      /\ DefunctOnce' /\ WaitingOnce'
      /\ \A u \in Threads : WaitsAny(u)' => WaitsAny(u)
      /\ Range(rt_thread_defunct') \subseteq Range(rt_thread_defunct)
  BY <1>1, <1>2, <1>3, <1>7, UnlinkKeeps
<1>10. \A u \in Threads \ {t} : Untouched(u)
  BY <1>1, <1>9 DEF Untouched, OthersStay
<1>11. HartMoves
  BY <1>1 DEF HartMoves
<1>12. \A u \in Threads : Does(Idle, {"free"}, u)' => Does(Idle, {"free"}, u)
  <2>1. \A u \in Threads : ~Does(c, {"free"}, u)'
    BY <1>6
  <2> QED BY <1>4, <2>1, FreeKept
<1>13. Shape(c)'
  BY <1>2, <1>5 DEF Shape, Works, Detachings, Deletings, Others
<1>14. Detached(t)'
  <2>1. "sleep" \notin api[t]
    BY <1>2 DEF OInv, AppOK, Orderly
  <2>2. t \notin armed' /\ t # rt_current_thread'
    BY <1>1, <1>2, <1>3, <2>1 DEF DataInv, TimersOK, Running
  <2> QED BY <1>9, <2>2 DEF Detached, Loose
<1>15. \A u \in Threads : Claim(c, u)'
  BY <1>6, <1>7, <1>14 DEF Claim
<1>16. ASSUME NEW d \in Threads \ {c} PROVE Claim(d, t)'
  <2>1. ~Does(d, {"free"}, t)
    BY <1>2, <1>3, <1>7 DEF Claims, Claim, Gone
  <2> QED BY <1>2, <1>3, <1>4, <2>1, Bystander
<1>17. StepsInv'
  BY <1>1, <1>2, <1>4, <1>6, <1>7, <1>8, <1>10, <1>11, <1>12, <1>13, <1>15, <1>16,
     StepsKept DEF OInv
<1>18. NobodyLost'
  <2>1. Does(c, {"dtimer", "dclose"}, t)'
    BY <1>6
  <2>2. \A u : ~Does(c, {"dtimer", "dclose"}, u)
    BY <1>2 DEF Does
  <2> QED BY <1>1, <1>2, <1>4, <1>9, <2>1, <2>2, LostKept DEF OInv, DataInv
<1>19. TimersOK'
  BY <1>1, <1>3 DEF DataInv, TimersOK
<1>20. CurrentOK'
  BY <1>1, <1>2, CurrentKept
<1>21. AppOK'
  BY DEF OInv, AppOK
<1> QED BY <1>8, <1>9, <1>17, <1>18, <1>19, <1>20, <1>21 DEF OInv, DataInv

LEMMA DeleteTimerOrderly ==
    ASSUME IInv, IInv', OInv, NEW c \in Threads, DeleteTimer(c), api' = api
    PROVE  OInv'
<1>0. PICK t : t = Target(c)
  OBVIOUS
<1>1. /\ At(c, "dtimer") /\ armed' = armed \ {t}
      /\ UNCHANGED <<stat, current_priority, lists, rt_current_thread,
                     rt_scheduler_lock_nest>>
  BY <1>0 DEF DeleteTimer, TimerStopped
<1>2. /\ Running(c) /\ pc[c] # <<>> /\ t \in Threads \ {c, Idle} /\ t \in Others(c)
      /\ "delete" \in api[c] /\ ~Does(c, {"sched"}, c)
      /\ Does(c, {"dtimer"}, t) /\ stat[c] \in {"READY", "SUSPEND"}
      /\ \A d \in Threads \ {c, t} : ~Does(d, Owning, t)
  BY <1>0, <1>1, DeletionStep DEF Deleting
<1>3. ShapeOK /\ Claims /\ DataInv /\ ReadyInv
  BY DEF OInv, StepsInv, DataInv
<1>4. pc'[c] = Tail(pc[c]) /\ \A d \in Threads \ {c} : pc'[d] = pc[d]
  BY <1>2, Returns DEF DeleteTimer
<1>5. \/ pc'[c] = << <<"dclose", t>> >>
      \/ pc'[c] = << <<"dclose", t>>, <<"ddefunct", t>> >>
  BY <1>2, <1>3, <1>4, DeletingTail DEF Deleting
<1>6. \A labels, u : Does(c, labels, u)' <=> "dclose" \in labels /\ u = t
  BY <1>5 DEF Does
<1>7. stat[t] \in {"INIT", "READY", "SUSPEND"} /\ Detached(t)
  <2>1. Does(c, {"dtimer", "dclose"}, t)
    BY <1>2 DEF Does
  <2> QED BY <1>2, <1>3, <2>1 DEF Claims, Claim
<1>8. ReadyInv'
  BY <1>1, <1>3, ReadyKept DEF lists
<1>9. OthersStay(t)
  BY <1>1 DEF OthersStay, Queued, QueuedAny, lists, queues
<1>10. \A u \in Threads \ {t} : Untouched(u)
  BY <1>1 DEF Untouched, QueuedAny, WaitsAny, lists, queues
<1>11. HartMoves
  BY <1>1 DEF HartMoves
<1>12. \A u \in Threads : Does(Idle, {"free"}, u)' => Does(Idle, {"free"}, u)
  <2>1. \A u \in Threads : ~Does(c, {"free"}, u)'
    BY <1>6
  <2> QED BY <1>4, <2>1, FreeKept
<1>13. Shape(c)'
  BY <1>2, <1>5 DEF Shape, Works, Detachings, Deletings, Others
<1>14. Detached(t)' /\ stat'[t] = stat[t]
  BY <1>1, <1>7 DEF Detached, Loose, QueuedAny, WaitsAny, lists, queues
<1>15. \A u \in Threads : Claim(c, u)'
  BY <1>6, <1>7, <1>14 DEF Claim
<1>16. ASSUME NEW d \in Threads \ {c} PROVE Claim(d, t)'
  <2>1. ~Does(d, {"free"}, t)
    BY <1>2, <1>3, <1>7 DEF Claims, Claim, Gone
  <2> QED BY <1>2, <1>3, <1>4, <2>1, Bystander
<1>17. StepsInv'
  BY <1>1, <1>2, <1>4, <1>6, <1>7, <1>8, <1>10, <1>11, <1>12, <1>13, <1>15, <1>16,
     StepsKept DEF OInv
<1>18. NobodyLost'
  <2>1. Does(c, {"dtimer", "dclose"}, t)'
    BY <1>6
  <2>2. \A u : Does(c, {"dtimer", "dclose"}, u) => u = t
    BY <1>2 DEF Does
  <2> QED BY <1>1, <1>2, <1>4, <1>9, <2>1, <2>2, LostKept DEF OInv, DataInv
<1>19. DefunctOnce' /\ WaitingOnce' /\ TimersOK'
  BY <1>1, <1>3 DEF DataInv, DefunctOnce, WaitingOnce, TimersOK, lists
<1>20. CurrentOK'
  BY <1>1, <1>2, CurrentKept
<1>21. AppOK'
  BY DEF OInv, AppOK
<1> QED BY <1>8, <1>17, <1>18, <1>19, <1>20, <1>21 DEF OInv, DataInv

LEMMA DeleteCloseOrderly ==
    ASSUME IInv, IInv', OInv, NEW c \in Threads, DeleteClose(c), api' = api
    PROVE  OInv'
<1>0. PICK t : t = Target(c)
  OBVIOUS
<1>1. /\ At(c, "dclose")
      /\ UNCHANGED <<current_priority, armed, lists, rt_current_thread,
                     rt_scheduler_lock_nest>>
  BY DEF DeleteClose
<1>2. /\ Running(c) /\ pc[c] # <<>> /\ t \in Threads \ {c, Idle} /\ t \in Others(c)
      /\ "delete" \in api[c] /\ ~Does(c, {"sched"}, c)
      /\ Does(c, {"dclose"}, t) /\ stat[c] \in {"READY", "SUSPEND"}
      /\ \A d \in Threads \ {c, t} : ~Does(d, Owning, t)
      /\ \A u : Does(t, Owning, u) => u = t
  BY <1>0, <1>1, DeletionStep DEF Deleting
<1>3. ShapeOK /\ Claims /\ DataInv /\ ReadyInv
  BY DEF OInv, StepsInv, DataInv
<1>4. pc'[c] = Tail(pc[c]) /\ \A d \in Threads \ {c} : pc'[d] = pc[d]
  BY <1>2, Returns DEF DeleteClose
<1>5. pc'[c] = <<>> \/ pc'[c] = << <<"ddefunct", t>> >>
  BY <1>2, <1>3, <1>4, DeletingTail DEF Deleting
<1>6. \A labels, u : Does(c, labels, u)' => "ddefunct" \in labels /\ u = t
  BY <1>5 DEF Does
<1>7. stat[t] \in {"INIT", "READY", "SUSPEND"} /\ Detached(t)
  <2>1. Does(c, {"dtimer", "dclose"}, t)
    BY <1>2 DEF Does
  <2> QED BY <1>2, <1>3, <2>1 DEF Claims, Claim
<1>8. stat'[t] = "CLOSE" /\ \A u \in Threads \ {t} : stat'[u] = stat[u]
  BY <1>0, <1>2 DEF DeleteClose, IInv, TcbOK
<1>9. ~QueuedAny(t) /\ ~WaitsAny(t) /\ t \notin Range(rt_thread_defunct) /\ t \notin armed
  BY <1>3, <1>7 DEF Detached, Loose, DataInv, DefunctOnce
<1>10. ReadyInv'
  BY <1>1, <1>3, <1>8, <1>9, ReadyKept DEF lists
<1>11. OthersStay(t)
  BY <1>1 DEF OthersStay, Queued, QueuedAny, lists, queues
<1>12. \A u \in Threads \ {t} : Untouched(u)
  BY <1>1, <1>8 DEF Untouched, QueuedAny, WaitsAny, lists, queues
<1>13. HartMoves
  BY <1>1 DEF HartMoves
<1>14. \A u \in Threads : Does(Idle, {"free"}, u)' => Does(Idle, {"free"}, u)
  <2>1. \A u \in Threads : ~Does(c, {"free"}, u)'
    BY <1>6
  <2> QED BY <1>4, <2>1, FreeKept
<1>15. Shape(c)'
  BY <1>2, <1>5, ForeignShort DEF Shape, Works, Detachings, Deletings, Others
<1>16. \A d \in Threads : ~Does(d, {"free"}, t)
  BY <1>2, <1>3, <1>7 DEF Claims, Claim, Gone
<1>17. \A u \in Threads : Claim(c, u)'
  <2>1. Gone(t)'
    BY <1>1, <1>7, <1>8, <1>9 DEF Gone, Detached, Loose, lists
  <2>2. ~Does(Idle, {"free"}, t)'
    BY <1>2, <1>14, <1>16, KernelAssumption
  <2> QED BY <1>6, <2>1, <2>2 DEF Claim
<1>18. ASSUME NEW d \in Threads \ {c} PROVE Claim(d, t)'
  BY <1>2, <1>3, <1>4, <1>16, Bystander
<1>19. StepsInv'
  <2>1. \A u \in Threads : Does(t, Owning, u)' => u = t
    BY <1>2, <1>4, DoesKept
  <2>2. stat'[c] \in {"READY", "SUSPEND"}
    BY <1>2, <1>8
  <2> QED BY <1>2, <1>4, <1>6, <1>10, <1>12, <1>13, <1>14, <1>15, <1>17, <1>18,
             <2>1, <2>2, StepsKept DEF OInv
<1>20. NobodyLost'
  <2>1. \A u : Does(c, {"dtimer", "dclose"}, u) => u = t
    BY <1>2 DEF Does
  <2> QED BY <1>2, <1>4, <1>8, <1>11, <2>1, LostKept DEF OInv, DataInv
<1>21. DefunctOnce' /\ WaitingOnce' /\ TimersOK'
  <2>1. armed' \subseteq armed /\ t \notin armed'
    BY <1>1, <1>9
  <2>2. UNCHANGED <<rt_thread_defunct, suspend_thread>>
    BY <1>1 DEF lists
  <2> QED BY <1>2, <1>3, <1>8, <1>9, <2>1, <2>2, ListsKept, TimersKept
<1>22. CurrentOK'
  BY <1>1, <1>2, <1>8, CurrentKept
<1>23. AppOK'
  BY DEF OInv, AppOK
<1> QED BY <1>10, <1>19, <1>20, <1>21, <1>22, <1>23 DEF OInv, DataInv

LEMMA DeleteDefunctOrderly ==
    ASSUME IInv, IInv', OInv, NEW c \in Threads, DeleteDefunct(c), api' = api
    PROVE  OInv'
<1>0. PICK t : t = Target(c)
  OBVIOUS
<1>1. /\ At(c, "ddefunct") /\ rt_thread_defunct' = <<t>> \o rt_thread_defunct
      /\ UNCHANGED <<stat, current_priority, armed, queues, suspend_thread,
                     rt_current_thread, rt_scheduler_lock_nest>>
  BY <1>0 DEF DeleteDefunct, tcb
<1>2. /\ Running(c) /\ pc[c] # <<>> /\ t \in Threads \ {c, Idle} /\ t \in Others(c)
      /\ ~Does(c, {"sched"}, c)
      /\ Does(c, {"ddefunct"}, t) /\ stat[c] \in {"READY", "SUSPEND"}
      /\ \A d \in Threads \ {c, t} : ~Does(d, Owning, t)
      /\ \A u : Does(t, Owning, u) => u = t
  BY <1>0, <1>1, DeletionStep DEF Deleting
<1>3. ShapeOK /\ Claims /\ DataInv /\ ReadyInv
  BY DEF OInv, StepsInv, DataInv
<1>4. pc'[c] = Tail(pc[c]) /\ \A d \in Threads \ {c} : pc'[d] = pc[d]
  BY <1>2, Returns DEF DeleteDefunct
<1>5. pc'[c] = <<>>
  BY <1>2, <1>3, <1>4, DeletingTail DEF Deleting
<1>6. /\ Shape(c)' /\ \A u \in Threads : Claim(c, u)'
      /\ \A u \in Threads : ~Does(c, Owning, u)'
      /\ \A u \in Threads : ~Does(c, {"free"}, u)'
  BY <1>5, ForeignShort, ForeignStep
<1>7. Gone(t) /\ ~Does(Idle, {"free"}, t)
  BY <1>2, <1>3 DEF Claims, Claim
<1>8. /\ DefunctOnce'
      /\ Range(rt_thread_defunct') = Range(rt_thread_defunct) \cup {t}
  <2>1. stat'[t] = "CLOSE" /\ \A u \in Threads \ {t} : stat'[u] = stat[u]
    BY <1>1, <1>7 DEF Gone
  <2>2. t \notin Range(rt_thread_defunct)
    BY <1>7 DEF Gone
  <2> QED BY <1>1, <1>2, <1>3, <2>1, <2>2, DefunctAfterClose DEF DataInv
<1>9. ReadyInv'
  BY <1>1, <1>3, ReadyKept
<1>10. OthersStay(t)
  BY <1>1 DEF OthersStay, Queued, QueuedAny, queues
<1>11. \A u \in Threads \ {t} : Untouched(u)
  BY <1>1, <1>8 DEF Untouched, QueuedAny, WaitsAny, queues
<1>12. HartMoves
  BY <1>1 DEF HartMoves
<1>13. \A u \in Threads : Does(Idle, {"free"}, u)' => Does(Idle, {"free"}, u)
  BY <1>4, <1>6, FreeKept
<1>14. ASSUME NEW d \in Threads \ {c} PROVE Claim(d, t)'
  <2>1. ~Does(d, {"free"}, t)
    BY <1>3, <1>7, NextFree
  <2> QED BY <1>2, <1>3, <1>4, <2>1, Bystander
<1>15. StepsInv'
  <2>1. \A u \in Threads : Does(t, Owning, u)' => u = t
    BY <1>2, <1>4, DoesKept
  <2>2. stat'[c] \in {"READY", "SUSPEND"}
    BY <1>1, <1>2
  <2> QED BY <1>2, <1>4, <1>6, <1>9, <1>11, <1>12, <1>13, <1>14, <2>1, <2>2, StepsKept
          DEF OInv
<1>16. NobodyLost'
  <2>1. \A u : ~Does(c, {"dtimer", "dclose"}, u)
    BY <1>2 DEF Does
  <2>2. stat'[t] # "READY"
    BY <1>1, <1>7 DEF Gone
  <2> QED BY <1>1, <1>2, <1>4, <1>10, <2>1, <2>2, LostKept DEF OInv, DataInv
<1>17. WaitingOnce' /\ TimersOK'
  BY <1>1, <1>3 DEF DataInv, WaitingOnce, TimersOK
<1>18. CurrentOK'
  BY <1>1, <1>2, CurrentKept
<1>19. AppOK'
  BY DEF OInv, AppOK
<1> QED BY <1>8, <1>9, <1>15, <1>16, <1>17, <1>18, <1>19 DEF OInv, DataInv

-----------------------------------------------------------------------------
(* The steps that move no thread along in its calls.                       *)

\* A step that changes t alone.
LEMMA StepsStay ==
    ASSUME IInv, IInv', StepsInv, ReadyInv', NEW t \in Threads, pc' = pc, api' = api,
           \A u \in Threads \ {t} : Untouched(u), HartMoves,
           \A d \in Threads : Claim(d, t)', stat'[t] \notin {"NONE", "CLOSE"}
    PROVE  StepsInv'
<1>1. \A d \in Threads : \A labels, u : Does(d, labels, u)' <=> Does(d, labels, u)
  BY DoesKept
<1>2. \A u \in Threads : Does(Idle, {"free"}, u)' => Does(Idle, {"free"}, u)
  BY <1>1, KernelAssumption
<1>3. Shape(t)'
  BY DEF StepsInv, ShapeOK, Shape, Works
<1>4. ASSUME NEW u \in Threads \ {t} PROVE Claim(t, u)'
  <2>1. Claim(t, u) /\ Untouched(u)
    BY DEF StepsInv, Claims
  <2> QED BY <1>2, <2>1, ClaimKept
<1>5. \A u \in Threads \ {t} : Does(t, Owning, u)' =>
         \A d \in Threads \ {t, u} : ~Does(d, Owning, u)
  BY <1>1 DEF StepsInv, OneOwner
<1> QED BY <1>2, <1>3, <1>4, <1>5, StepsKept

\* A step that changes none of this.
LEMMA NothingMoves ==
    ASSUME OInv, UNCHANGED <<stat, current_priority, armed, lists, rt_current_thread,
                             rt_scheduler_lock_nest, pc, api>>
    PROVE  OInv'
<1>1. ReadyInv' /\ DefunctOnce' /\ WaitingOnce' /\ TimersOK'
  BY DEF OInv, DataInv, ReadyInv, ReadyOnce, QueuedIsReady, BitsHaveLists,
         ListsHaveBits, DefunctOnce, WaitingOnce, TimersOK, lists, queues
<1>2. \A d, labels, u : Does(d, labels, u)' <=> Does(d, labels, u)
  BY DEF Does
<1>3. NobodyLost'
  BY <1>2 DEF OInv, DataInv, NobodyLost, Queued, lists, queues
<1>4. ShapeOK' /\ OneOwner' /\ DeadOwnNothing'
  BY <1>2 DEF OInv, StepsInv, ShapeOK, Shape, Works, OneOwner, DeadOwnNothing
<1>5. ASSUME NEW d \in Threads, NEW u \in Threads PROVE Claim(d, u)'
  <2>1. Claim(d, u)
    BY DEF OInv, StepsInv, Claims
  <2>2. /\ Loose(u)' <=> Loose(u)
        /\ WaitsAny(u)' <=> WaitsAny(u)
        /\ Gone(u)' <=> Gone(u)
    BY DEF Loose, Gone, QueuedAny, WaitsAny, lists, queues
  <2>3. (Asleep(u)' <=> Asleep(u)) /\ (Detached(u)' <=> Detached(u))
    BY <2>2 DEF Asleep, Detached
  <2> QED BY <1>2, <2>1, <2>2, <2>3 DEF Claim
<1>6. CurrentOK'
  BY <1>2 DEF OInv, CurrentOK, Leaving
<1>7. AppOK'
  BY DEF OInv, AppOK
<1> QED BY <1>1, <1>3, <1>4, <1>5, <1>6, <1>7 DEF OInv, DataInv, StepsInv, Claims

LEMMA TickExitOrderly ==
    ASSUME OInv, TickExit, api' = api
    PROVE  OInv'
BY NothingMoves DEF TickExit, tcb

\* The thread whose priority changes is not being deleted.
LEMMA ChangePriorityOrderly ==
    ASSUME IInv, IInv', OInv, NEW c \in Threads, NEW t \in Others(c), NEW p \in Prios,
           ChangePriority(c, t, p), api' = api
    PROVE  OInv'
<1>1. /\ Running(c) /\ pc[c] = <<>> /\ "priority" \in api[c] /\ t \in Threads \ {c, Idle}
      /\ stat[t] \in {"INIT", "READY", "SUSPEND"}
      /\ UNCHANGED <<stat, armed, rt_thread_defunct, suspend_thread, rt_current_thread,
                     rt_scheduler_lock_nest, pc>>
  BY DEF ChangePriority, Call, Others
<1>2. current_priority'[t] = p
      /\ \A u \in Threads \ {t} : current_priority'[u] = current_priority[u]
  BY <1>1 DEF ChangePriority, IInv, TcbOK
<1>3. ReadyInv /\ ReadyOnce
  BY DEF OInv, DataInv, ReadyInv
<1>4. /\ ReadyInv' /\ OthersStay(t) /\ (QueuedAny(t)' => QueuedAny(t))
      /\ stat'[t] = "READY" => Queued(t)'
  <2>1. CASE stat[t] = "READY"
    <3>1. ASSUME NEW d \in Threads, Does(d, {"dtimer", "dclose"}, t) PROVE FALSE
      <4>1. Does(d, Deleting, t)
        BY <3>1 DEF Does, Deleting
      <4>2. "delete" \in api[d]
        BY <4>1, NextDeleting DEF OInv, StepsInv
      <4>3. d # c
        BY <1>1, <3>1 DEF Does
      <4> QED BY <1>1, <4>2, <4>3 DEF OInv, AppOK, Orderly, Manages, Managing
    <3>2. Queued(t)
      BY <1>1, <2>1, <3>1 DEF OInv, DataInv, NobodyLost
    <3>3. QueuedAny(t)
      BY <1>1, <3>2 DEF Queued, QueuedAny, IInv, TcbOK
    <3>4. /\ rt_thread_priority_table' =
                [Unlinked(rt_thread_priority_table, t) EXCEPT ![p] = Append(@, t)]
          /\ rt_thread_ready_priority_group' =
                GroupAfterRemove(Unlinked(rt_thread_priority_table, t), t) \cup {p}
      BY <2>1 DEF ChangePriority
    <3>5. ReadyInv' /\ Queued(t)'
      BY <1>1, <1>2, <1>3, <3>3, <3>4, ReadyAfterMove
    <3>6. OthersStay(t)
      BY <1>1, <1>2, <1>3, <3>4, StayAfterMove
    <3> QED BY <3>3, <3>5, <3>6
  <2>2. CASE stat[t] # "READY"
    <3>1. UNCHANGED queues
      BY <2>2 DEF ChangePriority
    <3>2. ~QueuedAny(t)
      BY <2>2, <1>3 DEF QueuedAny, ReadyInv, QueuedIsReady
    <3>3. ReadyInv'
      BY <1>1, <1>2, <1>3, <3>1, <3>2, ReadyKept
    <3> QED BY <1>1, <1>2, <2>2, <3>1, <3>3 DEF OthersStay, Queued, QueuedAny, queues
  <2> QED BY <2>1, <2>2
<1>5. \A u \in Threads : Untouched(u)
  BY <1>1, <1>4 DEF Untouched, OthersStay, WaitsAny
<1>6. HartMoves
  BY <1>1 DEF HartMoves
<1>7. StepsInv'
  <2>1. ASSUME NEW d \in Threads PROVE Claim(d, t)'
    <3>1. Claim(d, t) /\ Untouched(t) /\ pc'[d] = pc[d]
      BY <1>1, <1>5 DEF StepsInv, Claims, OInv
    <3>2. Does(Idle, {"free"}, t)' => Does(Idle, {"free"}, t)
      BY <1>1 DEF Does
    <3> QED BY <1>1, <1>4, <1>6, <3>1, <3>2, ClaimKept
  <2> QED BY <1>1, <1>4, <1>5, <1>6, <2>1, StepsStay DEF OInv
<1>8. NobodyLost'
  <2>1. \A u : ~Does(c, {"dtimer", "dclose"}, u)
    BY <1>1 DEF Does
  <2> QED BY <1>1, <1>4, <2>1, LostKept DEF OInv, DataInv
<1>9. DefunctOnce' /\ WaitingOnce' /\ TimersOK'
  BY <1>1 DEF OInv, DataInv, DefunctOnce, WaitingOnce, TimersOK
<1>10. CurrentOK'
  BY <1>1 DEF OInv, CurrentOK, Leaving, Does
<1>11. AppOK'
  BY DEF OInv, AppOK
<1> QED BY <1>4, <1>7, <1>8, <1>9, <1>10, <1>11 DEF OInv, DataInv

\* What rt_schedule leaves behind in an interrupt.
LEMMA CurrentAfter ==
    ASSUME IInv, IInv', OInv, ReadyInv', Queued(Idle)', stat'[Idle] = "READY", Schedule,
           UNCHANGED <<rt_scheduler_lock_nest, pc, api>>,
           stat'[rt_current_thread] \in {stat[rt_current_thread], "READY"}
    PROVE  CurrentOK' /\ HartMoves
<1>1. /\ HartMoves
      /\ rt_scheduler_lock_nest = 0 =>
            rt_current_thread' \in Threads /\ stat'[rt_current_thread'] = "READY"
      /\ rt_scheduler_lock_nest > 0 => rt_current_thread' = rt_current_thread
  BY ScheduleMoves
<1>2. rt_scheduler_lock_nest \in Nat
  BY KernelAssumption DEF IInv, HartOK
<1>3. CASE rt_scheduler_lock_nest = 0
  BY <1>1, <1>3 DEF CurrentOK
<1>4. CASE rt_scheduler_lock_nest > 0
  BY <1>1, <1>4 DEF OInv, CurrentOK, Leaving
<1> QED BY <1>1, <1>2, <1>3, <1>4

LEMMA TickEnterOrderly ==
    ASSUME IInv, IInv', OInv, TickEnter, api' = api
    PROVE  OInv'
<1>0. PICK t : t = rt_current_thread
  OBVIOUS
<1>1. /\ t \in Threads
      /\ UNCHANGED <<stat, current_priority, armed, rt_thread_defunct, suspend_thread,
                     rt_scheduler_lock_nest, pc>>
  BY <1>0 DEF TickEnter, OInv, CurrentOK
<1>2. CASE remaining_tick[t] = 1 /\ Rotates(t)
  <2>1. /\ stat[t] = "READY" /\ Schedule /\ rt_thread_priority_table' = Rotated(t)
        /\ UNCHANGED rt_thread_ready_priority_group
    BY <1>0, <1>2 DEF TickEnter, Rotates
  <2>2. ReadyInv /\ ReadyOnce /\ Queued(t) /\ current_priority[t] \in Prios
    BY <1>0, <1>1, <2>1, RunningQueued DEF OInv, DataInv, ReadyInv, IInv, TcbOK
  <2>3. ReadyInv' /\ Queued(t)'
    BY <1>1, <2>1, <2>2, ReadyAfterRotation
  <2>4. OthersStay(t)
    BY <1>1, <2>1, <2>2, StayAfterMove DEF Rotated
  <2>5. Queued(Idle)' /\ stat'[Idle] = "READY"
    BY <1>1, <2>3, <2>4, IdleQueued DEF OthersStay
  <2>6. CurrentOK' /\ HartMoves
    BY <1>1, <2>1, <2>3, <2>5, CurrentAfter
  <2>7. \A u \in Threads : Untouched(u)
    BY <1>1, <2>2, <2>4 DEF Untouched, OthersStay, WaitsAny, Queued, QueuedAny
  <2>8. StepsInv'
    <3>1. ASSUME NEW d \in Threads PROVE Claim(d, t)'
      <4>1. Claim(d, t) /\ Untouched(t) /\ pc'[d] = pc[d]
        BY <1>1, <2>7 DEF StepsInv, Claims, OInv
      <4>2. Does(Idle, {"free"}, t)' => Does(Idle, {"free"}, t)
        BY <1>1 DEF Does
      <4> QED BY <1>1, <2>3, <2>6, <4>1, <4>2, ClaimKept
    <3> QED BY <1>1, <2>1, <2>3, <2>6, <2>7, <3>1, StepsStay DEF OInv
  <2>9. NobodyLost'
    <3>1. \A u \in Threads : Does(t, {"dtimer", "dclose"}, u) =>
             Does(t, {"dtimer", "dclose"}, u)'
      BY <1>1 DEF Does
    <3> QED BY <1>1, <2>3, <2>4, <3>1, LostKept DEF OInv, DataInv
  <2>10. DefunctOnce' /\ WaitingOnce' /\ TimersOK'
    BY <1>1 DEF OInv, DataInv, DefunctOnce, WaitingOnce, TimersOK
  <2>11. AppOK'
    BY DEF OInv, AppOK
  <2> QED BY <2>3, <2>6, <2>8, <2>9, <2>10, <2>11 DEF OInv, DataInv
<1>3. CASE ~ (remaining_tick[t] = 1 /\ Rotates(t))
  <2>1. UNCHANGED <<queues, rt_current_thread>>
    BY <1>0, <1>3 DEF TickEnter
  <2> QED BY <1>1, <2>1, NothingMoves DEF lists
<1> QED BY <1>2, <1>3

\* A thread whose time is over is suspended and in no ready list.
LEMMA ThreadTimeoutOrderly ==
    ASSUME IInv, IInv', OInv, NEW t \in Threads, ThreadTimeout(t), api' = api
    PROVE  OInv'
<1>1. /\ t \in armed /\ armed' = armed \ {t} /\ stat[t] = "SUSPEND" /\ Schedule
      /\ rt_thread_priority_table' = Inserted(Unlinked(rt_thread_priority_table, t), t)
      /\ rt_thread_ready_priority_group' =
            rt_thread_ready_priority_group \cup {current_priority[t]}
      /\ rt_thread_defunct' = RemoveFirst(rt_thread_defunct, t)
      /\ suspend_thread' = Unlinked(suspend_thread, t)
      /\ UNCHANGED <<current_priority, rt_scheduler_lock_nest, pc>>
  BY DEF ThreadTimeout, TimerStopped, OInv, DataInv, TimersOK
<1>2. stat'[t] = "READY" /\ \A u \in Threads \ {t} : stat'[u] = stat[u]
  BY DEF ThreadTimeout, IInv, TcbOK
<1>3. ReadyInv /\ ReadyOnce /\ DataInv
  BY DEF OInv, DataInv, ReadyInv
<1>4. ~QueuedAny(t)
  BY <1>1, <1>3 DEF QueuedAny, ReadyInv, QueuedIsReady
<1>5. rt_thread_priority_table' = Inserted(rt_thread_priority_table, t)
  BY <1>1, <1>4, UnlinkUnqueued
<1>6. ReadyInv' /\ Queued(t)'
  BY <1>1, <1>2, <1>3, <1>4, <1>5, ReadyAfterInsert
<1>7. OthersStay(t)
  BY <1>1, <1>5, StayAfterInsert
<1>8. t # Idle /\ Queued(Idle)' /\ stat'[Idle] = "READY"
  BY <1>1, <1>2, <1>7, IdleQueued DEF OthersStay
<1>9. CurrentOK' /\ HartMoves
  BY <1>1, <1>2, <1>6, <1>8, CurrentAfter DEF OInv, CurrentOK
<1>10. /\ WaitingOnce' /\ \A u \in Threads : WaitsAny(u)' => WaitsAny(u)
  BY <1>1, <1>2, <1>3, WaitingAfterUnlink DEF DataInv
<1>11. /\ DefunctOnce'
       /\ Range(rt_thread_defunct') \subseteq Range(rt_thread_defunct)
  <2>1. /\ t \notin Range(rt_thread_defunct)
        /\ rt_thread_defunct \in Seq(Threads)
        /\ Range(rt_thread_defunct) \subseteq Threads
    BY <1>1, <1>3, ListsOfThreads DEF DataInv, DefunctOnce
  <2>2. rt_thread_defunct' = rt_thread_defunct
    BY <1>1, <2>1, RemoveAbsent
  <2> QED BY <1>2, <1>3, <2>1, <2>2 DEF DataInv, DefunctOnce
<1>12. TimersOK'
  BY <1>1, <1>2, <1>3, TimersKept
<1>13. \A u \in Threads \ {t} : Untouched(u)
  BY <1>1, <1>2, <1>7, <1>10, <1>11 DEF Untouched, OthersStay
<1>14. ASSUME NEW d \in Threads PROVE Claim(d, t)'
  <2>1. Claim(d, t)
    BY DEF OInv, StepsInv, Claims
  <2>2. ~Asleep(t) /\ ~Detached(t) /\ ~Gone(t)
    BY <1>1 DEF Asleep, Detached, Loose, Gone
  <2>3. \A labels : Does(d, labels, t)' <=> Does(d, labels, t)
    BY <1>1, DoesKept
  <2> QED BY <1>2, <2>1, <2>2, <2>3 DEF Claim
<1>15. StepsInv'
  BY <1>1, <1>2, <1>6, <1>9, <1>13, <1>14, StepsStay DEF OInv
<1>16. NobodyLost'
  <2>1. \A u \in Threads : Does(t, {"dtimer", "dclose"}, u) =>
           Does(t, {"dtimer", "dclose"}, u)'
    BY <1>1 DEF Does
  <2> QED BY <1>1, <1>2, <1>6, <1>7, <2>1, LostKept DEF OInv, DataInv
<1>17. AppOK'
  BY DEF OInv, AppOK
<1> QED BY <1>6, <1>9, <1>10, <1>11, <1>12, <1>15, <1>16, <1>17 DEF OInv, DataInv

-----------------------------------------------------------------------------
(* The idle thread.                                                        *)

\* What it takes off the defunct list is referred to by nothing else.
LEMMA ReapOrderly ==
    ASSUME IInv, IInv', OInv, Reap, api' = api
    PROVE  OInv'
<1>0. PICK t : t = Head(rt_thread_defunct)
  OBVIOUS
<1>1. /\ Running(Idle) /\ pc[Idle] = <<>> /\ rt_thread_defunct # <<>> /\ Schedule
      /\ rt_thread_defunct' = Tail(rt_thread_defunct)
      /\ UNCHANGED <<stat, current_priority, armed, queues, suspend_thread,
                     rt_scheduler_lock_nest>>
  BY DEF Reap, tcb
<1>2. /\ pc'[Idle] = << <<"free", t>> >> /\ \A d \in Threads \ {Idle} : pc'[d] = pc[d]
  BY <1>0, KernelAssumption DEF Reap, Goto, IInv, StepsOK
<1>3. ShapeOK /\ Claims /\ DataInv /\ ReadyInv
  BY DEF OInv, StepsInv, DataInv
<1>4. /\ t \in Range(rt_thread_defunct) /\ t \in Threads /\ stat[t] = "CLOSE"
      /\ t \notin Range(rt_thread_defunct')
  <2>1. rt_thread_defunct \in Seq(Threads) /\ IsInjective(rt_thread_defunct)
    BY <1>3, ListsOfThreads DEF DataInv, DefunctOnce
  <2>2. t \in Range(rt_thread_defunct) /\ t \notin Range(rt_thread_defunct')
    BY <1>0, <1>1, <2>1, TailRange
  <2> QED BY <1>3, <2>2, ListsOfThreads DEF DataInv, DefunctOnce
<1>5. t # Idle /\ Idle \in Threads /\ Queued(Idle) /\ stat[Idle] = "READY"
  BY <1>4, IdleQueued
<1>6. /\ DefunctOnce' /\ Range(rt_thread_defunct') \subseteq Range(rt_thread_defunct)
  BY <1>1, <1>3, DefunctKept DEF DataInv
<1>7. ReadyInv'
  BY <1>1, <1>3, ReadyKept
<1>8. /\ HartMoves
      /\ rt_scheduler_lock_nest = 0 =>
            rt_current_thread' \in Threads /\ stat'[rt_current_thread'] = "READY"
      /\ rt_scheduler_lock_nest > 0 => rt_current_thread' = rt_current_thread
  <2>1. Queued(Idle)'
    BY <1>1, <1>5 DEF Queued, queues
  <2> QED BY <1>1, <1>7, <2>1, ScheduleMoves
<1>9. \A u \in Threads \ {t} : Untouched(u)
  BY <1>1, <1>6 DEF Untouched, QueuedAny, WaitsAny, queues
<1>10. \A labels, u : Does(Idle, labels, u)' => "free" \in labels /\ u = t
  BY <1>2 DEF Does
<1>11. Gone(t)'
  <2>1. t # rt_current_thread'
    BY <1>1, <1>4, <1>5, <1>7, <1>8, HartAway DEF Running
  <2> QED BY <1>1, <1>4, <2>1 DEF Gone
<1>12. Shape(Idle)' /\ \A u \in Threads : Claim(Idle, u)'
  BY <1>2, <1>4, <1>10, <1>11 DEF Shape, Claim
<1>13. ASSUME NEW d \in Threads \ {Idle} PROVE Claim(d, t)'
  <2>1. Claim(d, t)
    BY <1>3, <1>4 DEF Claims
  <2>2. ~Asleep(t) /\ ~Gone(t)
    BY <1>4 DEF Asleep, Gone
  <2>3. \A labels : Does(d, labels, t)' <=> Does(d, labels, t)
    BY <1>2, DoesKept
  <2> QED BY <1>1, <1>4, <2>1, <2>2, <2>3 DEF Claim
<1>14. StepsInv'
  <2>1. \A u \in Threads : Does(t, Owning, u)' => u = t
    <3>1. \A u \in Threads : Does(t, Owning, u) => u = t
      BY <1>4 DEF OInv, StepsInv, DeadOwnNothing
    <3> QED BY <1>2, <1>4, <1>5, <3>1, DoesKept
  <2>2. \A u \in Threads : ~Does(Idle, Owning, u)'
    BY <1>10 DEF Owning, Resuming, Suspending, Deleting
  <2>3. stat'[Idle] = "READY"
    BY <1>1, <1>5
  <2> QED BY <1>2, <1>4, <1>5, <1>7, <1>8, <1>9, <1>10, <1>12, <1>13, <2>1, <2>2, <2>3,
             StepsKept DEF OInv
<1>15. NobodyLost'
  <2>1. \A u : ~Does(Idle, {"dtimer", "dclose"}, u)
    BY <1>1 DEF Does
  <2>2. OthersStay(t)
    BY <1>1 DEF OthersStay, Queued, QueuedAny, queues
  <2> QED BY <1>1, <1>2, <1>4, <1>5, <2>1, <2>2, LostKept DEF OInv, DataInv
<1>16. WaitingOnce' /\ TimersOK'
  BY <1>1, <1>3 DEF DataInv, WaitingOnce, TimersOK
<1>17. CurrentOK'
  <2>1. rt_scheduler_lock_nest \in Nat /\ rt_current_thread = Idle
    BY <1>1, KernelAssumption DEF IInv, HartOK, Running
  <2>2. CASE rt_scheduler_lock_nest = 0
    BY <1>1, <1>5, <1>8, <2>2 DEF CurrentOK
  <2>3. CASE rt_scheduler_lock_nest > 0
    BY <1>1, <1>5, <1>8, <2>1, <2>3 DEF OInv, CurrentOK
  <2> QED BY <2>1, <2>2, <2>3
<1>18. AppOK'
  BY DEF OInv, AppOK
<1> QED BY <1>6, <1>7, <1>14, <1>15, <1>16, <1>17, <1>18 DEF OInv, DataInv

LEMMA FreeOrderly ==
    ASSUME IInv, IInv', OInv, Free, api' = api
    PROVE  OInv'
<1>0. PICK t : t = Target(Idle)
  OBVIOUS
<1>1. /\ At(Idle, "free") /\ Running(Idle) /\ pc[Idle] # <<>>
      /\ UNCHANGED <<current_priority, armed, lists, rt_current_thread,
                     rt_scheduler_lock_nest>>
  BY DEF Free, At
<1>2. ShapeOK /\ Claims /\ DataInv /\ ReadyInv
  BY DEF OInv, StepsInv, DataInv
<1>3. Idle \in Threads /\ stat[Idle] = "READY"
  BY IdleQueued
<1>4. Does(Idle, {"free"}, t) /\ ~Does(Idle, {"sched"}, Idle)
  BY <1>0, <1>1 DEF At, Target, Does
<1>5. pc[Idle] = << <<"free", t>> >>
  BY <1>2, <1>3, <1>4, NextFree
<1>6. t \in Threads
  BY <1>0, <1>1, <1>3, AtTyped DEF IInv
<1>7. Gone(t) /\ t # Idle
  BY <1>2, <1>3, <1>4, <1>6 DEF Claims, Claim, Gone
<1>8. pc'[Idle] = <<>> /\ \A d \in Threads \ {Idle} : pc'[d] = pc[d]
  <2>1. pc'[Idle] = Tail(pc[Idle]) /\ \A d \in Threads \ {Idle} : pc'[d] = pc[d]
    BY <1>1, <1>3, Returns DEF Free
  <2> QED BY <1>5, <2>1
<1>9. stat'[t] = "NONE" /\ \A u \in Threads \ {t} : stat'[u] = stat[u]
  BY <1>0, <1>6 DEF Free, IInv, TcbOK
<1>10. ~QueuedAny(t) /\ ~WaitsAny(t) /\ t \notin Range(rt_thread_defunct) /\ t \notin armed
  BY <1>2, <1>7 DEF Gone, QueuedAny, WaitsAny, ReadyInv, QueuedIsReady, DataInv,
                    WaitingOnce, TimersOK
<1>11. ReadyInv'
  BY <1>1, <1>2, <1>9, <1>10, ReadyKept DEF lists
<1>12. OthersStay(t)
  BY <1>1 DEF OthersStay, Queued, QueuedAny, lists, queues
<1>13. \A u \in Threads \ {t} : Untouched(u)
  BY <1>1, <1>9 DEF Untouched, QueuedAny, WaitsAny, lists, queues
<1>14. HartMoves
  BY <1>1 DEF HartMoves
<1>15. /\ Shape(Idle)' /\ \A u \in Threads : Claim(Idle, u)'
       /\ \A u \in Threads : ~Does(Idle, Owning, u)'
       /\ \A u \in Threads : ~Does(Idle, {"free"}, u)'
  BY <1>3, <1>8, ForeignShort, ForeignStep
<1>16. ASSUME NEW d \in Threads \ {Idle} PROVE Claim(d, t)'
  <2>1. Claim(d, t)
    BY <1>2, <1>6 DEF Claims
  <2>2. ~Asleep(t) /\ stat[t] = "CLOSE"
    BY <1>7 DEF Asleep, Gone
  <2>3. \A labels : Does(d, labels, t)' <=> Does(d, labels, t)
    BY <1>8, DoesKept
  <2>4. ~Does(d, {"free"}, t) /\ ~Does(d, {"ddefunct"}, t)
    BY <1>2, <1>4, <2>1, NextFree DEF Claim
  <2> QED BY <2>1, <2>2, <2>3, <2>4 DEF Claim
<1>17. StepsInv'
  <2>1. \A u \in Threads : Does(t, Owning, u)' => u = t
    <3>1. \A u \in Threads : Does(t, Owning, u) => u = t
      BY <1>6, <1>7 DEF OInv, StepsInv, DeadOwnNothing, Gone
    <3> QED BY <1>6, <1>7, <1>8, <3>1, DoesKept
  <2> QED BY <1>3, <1>6, <1>8, <1>11, <1>13, <1>14, <1>15, <1>16, <2>1, StepsKept
          DEF OInv
<1>18. NobodyLost'
  <2>1. \A u : ~Does(Idle, {"dtimer", "dclose"}, u)
    BY <1>5 DEF Does
  <2> QED BY <1>3, <1>6, <1>8, <1>9, <1>12, <2>1, LostKept DEF OInv, DataInv
<1>19. DefunctOnce' /\ WaitingOnce' /\ TimersOK'
  <2>1. armed' \subseteq armed /\ t \notin armed'
    BY <1>1, <1>10
  <2>2. UNCHANGED <<rt_thread_defunct, suspend_thread>>
    BY <1>1 DEF lists
  <2> QED BY <1>2, <1>6, <1>9, <1>10, <2>1, <2>2, ListsKept, TimersKept
<1>20. CurrentOK'
  <2>1. rt_current_thread' = Idle /\ stat'[Idle] = "READY"
    BY <1>1, <1>3, <1>7, <1>9 DEF Running
  <2> QED BY <1>1, <1>3, <2>1 DEF OInv, CurrentOK
<1>21. AppOK'
  BY DEF OInv, AppOK
<1> QED BY <1>11, <1>17, <1>18, <1>19, <1>20, <1>21 DEF OInv, DataInv

-----------------------------------------------------------------------------
(* The invariant.                                                          *)

\* The kernel starts with its threads in the ready queue, and no calls.
LEMMA OrderlyInit ==
    ASSUME Orderly(api), Init
    PROVE  OInv
<1> USE DEF Init
<1>1. AppOK
  BY DEF AppOK
<1>2. \A c \in Threads : \A labels, t : ~Does(c, labels, t)
  BY DEF Does
<1>3. StepsInv
  <2>1. ShapeOK
    BY ForeignShort DEF ShapeOK, Shape
  <2>2. Claims /\ OneOwner /\ DeadOwnNothing
    BY <1>2, KernelAssumption DEF Claims, Claim, OneOwner, DeadOwnNothing
  <2> QED BY <2>1, <2>2 DEF StepsInv
<1>4. ReadyInv
  <2>1. StartQueue \in [Prios -> Seq(Threads)]
        /\ \A p \in Prios : Range(StartQueue[p]) \subseteq Threads
    BY KernelAssumption, RangeOfSeq
  <2>2. ReadyOnce
    BY KernelAssumption DEF ReadyOnce, IsInjective
  <2>3. QueuedIsReady
    BY <2>1, KernelAssumption DEF QueuedIsReady, Range
  <2>4. BitsHaveLists /\ ListsHaveBits
    BY DEF BitsHaveLists, ListsHaveBits
  <2> QED BY <2>2, <2>3, <2>4 DEF ReadyInv
<1>5. DefunctOnce /\ WaitingOnce /\ TimersOK
  <2>1. Range(<<>>) = {} /\ IsInjective(<<>>)
    BY DEF Range, IsInjective
  <2> QED BY <2>1 DEF DefunctOnce, WaitingOnce, TimersOK
<1>6. NobodyLost
  BY DEF NobodyLost, Queued
<1>7. CurrentOK
  <2>1. /\ Idle \in Threads /\ stat[Idle] = "READY"
        /\ Idle \in Range(StartQueue[InitPrio[Idle]]) /\ InitPrio[Idle] \in Prios
    BY KernelAssumption
  <2>2. /\ rt_thread_priority_table \in [Prios -> Seq(Threads)]
        /\ rt_thread_ready_priority_group \in SUBSET Prios
        /\ \A p \in Prios : Range(rt_thread_priority_table[p]) \subseteq Threads
        /\ \A p \in rt_thread_ready_priority_group : rt_thread_priority_table[p] # <<>>
    BY KernelAssumption, RangeOfSeq
  <2>3. rt_thread_ready_priority_group # {}
    <3>1. StartQueue[InitPrio[Idle]] # <<>>
      BY <2>1 DEF Range
    <3> QED BY <2>1, <3>1
  <2>4. PICK p \in Prios : rt_current_thread \in Range(rt_thread_priority_table[p])
    BY <2>2, <2>3, HighestIsListed
  <2>5. rt_current_thread \in Threads /\ stat[rt_current_thread] = "READY"
    BY <1>4, <2>2, <2>4 DEF ReadyInv, QueuedIsReady
  <2> QED BY <2>1, <2>5 DEF CurrentOK
<1> QED BY <1>1, <1>3, <1>4, <1>5, <1>6, <1>7 DEF OInv, DataInv

\* Every step preserves it.
LEMMA OrderlyStep == IInv /\ OInv /\ [Next]_<<kvars, api>> => OInv'
<1> SUFFICES ASSUME IInv, OInv, [Next]_<<kvars, api>>
             PROVE  OInv'
  OBVIOUS
<1>1. IInv'
  BY StepTyped
<1>2. CASE UNCHANGED <<kvars, api>>
  BY <1>2, NothingMoves DEF kvars, tcb
<1>3. ASSUME NEW c \in Threads, ThreadStep(c), api' = api PROVE OInv'
  BY <1>1, <1>3, SchedOrderly, ResumeCheckOrderly, ResumeUnlinkOrderly,
     ResumeInsertOrderly, SuspendCheckOrderly, SuspendRemoveOrderly, SleepReturnOrderly,
     DeleteRemoveOrderly, DeleteTimerOrderly, DeleteCloseOrderly, DeleteDefunctOrderly
     DEF ThreadStep
<1>4. ASSUME NEW c \in Threads, ThreadCall(c), api' = api PROVE OInv'
  <2>1. CASE Yield(c) \/ Sleep(c) \/ Exit(c) \/ ScheduleCall(c)
             \/ EnterCritical(c) \/ ExitCritical(c)
    BY <1>1, <1>4, <2>1, YieldOrderly, SleepOrderly, ExitOrderly, ScheduleCallOrderly,
       EnterCriticalOrderly, ExitCriticalOrderly
  <2>2. ASSUME NEW t \in Others(c), Create(c, t) \/ Startup(c, t) \/ Delete(c, t)
                                    \/ ResumeCall(c, t)
        PROVE  OInv'
    BY <1>1, <1>4, <2>2, CreateOrderly, StartupOrderly, DeleteOrderly, ResumeCallOrderly
  <2>3. ASSUME NEW t \in Others(c), NEW p \in Prios, ChangePriority(c, t, p)
        PROVE  OInv'
    BY <1>1, <1>4, <2>3, ChangePriorityOrderly
  <2>4. ASSUME NEW t \in Others(c) \cup {c}, SuspendCall(c, t)
        PROVE  OInv'
    BY <1>1, <1>4, <2>4, SuspendCallOrderly
  <2> QED BY <1>4, <2>1, <2>2, <2>3, <2>4 DEF ThreadCall
<1>5. ASSUME IdleStep, api' = api PROVE OInv'
  BY <1>1, <1>5, ReapOrderly, FreeOrderly DEF IdleStep
<1>6. ASSUME TickStep, api' = api PROVE OInv'
  BY <1>1, <1>6, TickEnterOrderly, ThreadTimeoutOrderly, TickExitOrderly DEF TickStep
<1> QED BY <1>2, <1>3, <1>4, <1>5, <1>6 DEF Next

\* An application in which no calls race keeps the invariant.
LEMMA OrderlyHolds == Spec /\ Orderly(api) => [](IInv /\ OInv)
<1>1. Init /\ Orderly(api) => IInv /\ OInv
  BY InitTyped, OrderlyInit
<1>2. IInv /\ OInv /\ [Next]_<<kvars, api>> => (IInv /\ OInv)'
  BY StepTyped, OrderlyStep
<1> QED BY <1>1, <1>2, PTL DEF Spec

-----------------------------------------------------------------------------
(* What follows from it.                                                   *)

\* A node of t on a named list, and what the list says of t.
LEMMA LinkIs ==
    ASSUME IInv, OInv, NEW t \in Threads, NEW x \in Links(t)
    PROVE  \/ \E p \in Prios : \E i \in DOMAIN rt_thread_priority_table[p] :
                 /\ x = << <<"ready", p>>, i>> /\ rt_thread_priority_table[p][i] = t
                 /\ stat[t] = "READY" /\ current_priority[t] = p
           \/ \E l \in Lists : \E i \in DOMAIN suspend_thread[l] :
                 /\ x = << <<"wait", l>>, i>> /\ suspend_thread[l][i] = t
                 /\ stat[t] = "SUSPEND"
           \/ \E i \in DOMAIN rt_thread_defunct :
                 /\ x = << <<"defunct", 0>>, i>> /\ rt_thread_defunct[i] = t
                 /\ stat[t] = "CLOSE"
<1>1. PICK k \in ListNames : \E i \in DOMAIN ListNamed(k) :
         x = <<k, i>> /\ ListNamed(k)[i] = t
  BY DEF Links
<1>2. PICK i \in DOMAIN ListNamed(k) : x = <<k, i>> /\ ListNamed(k)[i] = t
  BY <1>1
<1>3. CASE k \in {"ready"} \X Prios
  <2>1. PICK p \in Prios : k = <<"ready", p>>
    BY <1>3
  <2>2. ListNamed(k) = rt_thread_priority_table[p]
    BY <2>1 DEF ListNamed
  <2>3. t \in Range(rt_thread_priority_table[p])
    BY <1>2, <2>2 DEF Range
  <2> QED BY <1>2, <2>1, <2>2, <2>3 DEF OInv, DataInv, ReadyInv, QueuedIsReady
<1>4. CASE k \in {"wait"} \X Lists
  <2>1. PICK l \in Lists : k = <<"wait", l>>
    BY <1>4
  <2>2. ListNamed(k) = suspend_thread[l]
    BY <2>1 DEF ListNamed
  <2>3. t \in Range(suspend_thread[l])
    BY <1>2, <2>2 DEF Range
  <2> QED BY <1>2, <2>1, <2>2, <2>3 DEF OInv, DataInv, WaitingOnce
<1>5. CASE k = <<"defunct", 0>>
  <2>1. ListNamed(k) = rt_thread_defunct
    BY <1>5 DEF ListNamed
  <2>2. t \in Range(rt_thread_defunct)
    BY <1>2, <2>1 DEF Range
  <2> QED BY <1>2, <1>5, <2>1, <2>2 DEF OInv, DataInv, DefunctOnce
<1> QED BY <1>1, <1>3, <1>4, <1>5 DEF ListNames

\* It is the only one.
LEMMA LinksAgree ==
    ASSUME IInv, OInv, NEW t \in Threads, NEW x \in Links(t), NEW y \in Links(t)
    PROVE  x = y
<1>1. CASE stat[t] = "READY"
  <2>1. PICK i \in DOMAIN rt_thread_priority_table[current_priority[t]] :
           /\ x = << <<"ready", current_priority[t]>>, i>>
           /\ rt_thread_priority_table[current_priority[t]][i] = t
    BY <1>1, LinkIs
  <2>2. PICK j \in DOMAIN rt_thread_priority_table[current_priority[t]] :
           /\ y = << <<"ready", current_priority[t]>>, j>>
           /\ rt_thread_priority_table[current_priority[t]][j] = t
    BY <1>1, LinkIs
  <2>3. IsInjective(rt_thread_priority_table[current_priority[t]])
    BY DEF OInv, DataInv, ReadyInv, ReadyOnce, IInv, TcbOK
  <2> QED BY <2>1, <2>2, <2>3 DEF IsInjective
<1>2. CASE stat[t] = "SUSPEND"
  <2>1. PICK l \in Lists : \E i \in DOMAIN suspend_thread[l] :
           x = << <<"wait", l>>, i>> /\ suspend_thread[l][i] = t
    BY <1>2, LinkIs
  <2>2. PICK m \in Lists : \E j \in DOMAIN suspend_thread[m] :
           y = << <<"wait", m>>, j>> /\ suspend_thread[m][j] = t
    BY <1>2, LinkIs
  <2>3. t \in Range(suspend_thread[l]) /\ t \in Range(suspend_thread[m])
    BY <2>1, <2>2 DEF Range
  <2>4. l = m /\ IsInjective(suspend_thread[l])
    BY <2>3 DEF OInv, DataInv, WaitingOnce
  <2> QED BY <2>1, <2>2, <2>4 DEF IsInjective
<1>3. CASE stat[t] \notin {"READY", "SUSPEND"}
  <2>1. PICK i \in DOMAIN rt_thread_defunct :
           x = << <<"defunct", 0>>, i>> /\ rt_thread_defunct[i] = t
    BY <1>3, LinkIs
  <2>2. PICK j \in DOMAIN rt_thread_defunct :
           y = << <<"defunct", 0>>, j>> /\ rt_thread_defunct[j] = t
    BY <1>3, LinkIs
  <2>3. IsInjective(rt_thread_defunct)
    BY DEF OInv, DataInv, DefunctOnce
  <2> QED BY <2>1, <2>2, <2>3 DEF IsInjective
<1> QED BY <1>1, <1>2, <1>3

LEMMA OrderlyListedOnce == IInv /\ OInv => ListedOnce
<1> SUFFICES ASSUME IInv, OInv, NEW t \in Threads PROVE Cardinality(Links(t)) <= 1
  BY DEF ListedOnce
<1>1. CASE Links(t) = {}
  BY <1>1, FS_EmptySet
<1>2. CASE Links(t) # {}
  <2>1. PICK x : x \in Links(t)
    BY <1>2
  <2>2. Links(t) = {x}
    BY <2>1, LinksAgree
  <2>3. Cardinality({x}) = 1
    BY FS_Singleton
  <2> QED BY <2>2, <2>3
<1> QED BY <1>1, <1>2

LEMMA OrderlyQueueIsExact == IInv /\ OInv => ReadyQueueIsExact
<1> SUFFICES ASSUME IInv, OInv PROVE ReadyQueueIsExact
  OBVIOUS
<1>1. ReadyIsQueued
  <2> SUFFICES ASSUME NEW t \in Threads, NEW c \in Threads, Does(c, {"dtimer", "dclose"}, t)
               PROVE  Pending({"dclose"}, t)
    BY DEF OInv, DataInv, NobodyLost, ReadyIsQueued
  <2>1. pc[c] \in Detachings(t) \cup Deletings(t)
    <3>1. Does(c, Deleting, t)
      BY DEF Does, Deleting
    <3> QED BY <3>1, NextDeleting DEF OInv, StepsInv
  <2>2. \E i \in DOMAIN pc[c] : pc[c][i] = <<"dclose", t>>
    <3>1. Head(pc[c])[1] \in {"dtimer", "dclose"}
      BY DEF Does
    <3>2. \/ pc[c] = << <<"dtimer", t>>, <<"dclose", t>> >>
          \/ pc[c] = << <<"dclose", t>> >>
          \/ pc[c] = << <<"dtimer", t>>, <<"dclose", t>>, <<"ddefunct", t>> >>
          \/ pc[c] = << <<"dclose", t>>, <<"ddefunct", t>> >>
      BY <2>1, <3>1 DEF Detachings, Deletings
    <3>3. CASE pc[c] = << <<"dtimer", t>>, <<"dclose", t>> >>
      <4>1. 2 \in DOMAIN pc[c] /\ pc[c][2] = <<"dclose", t>>
        BY <3>3
      <4> QED BY <4>1
    <3>4. CASE pc[c] = << <<"dclose", t>> >>
      <4>1. 1 \in DOMAIN pc[c] /\ pc[c][1] = <<"dclose", t>>
        BY <3>4
      <4> QED BY <4>1
    <3>5. CASE pc[c] = << <<"dtimer", t>>, <<"dclose", t>>, <<"ddefunct", t>> >>
      <4>1. 2 \in DOMAIN pc[c] /\ pc[c][2] = <<"dclose", t>>
        BY <3>5
      <4> QED BY <4>1
    <3>6. CASE pc[c] = << <<"dclose", t>>, <<"ddefunct", t>> >>
      <4>1. 1 \in DOMAIN pc[c] /\ pc[c][1] = <<"dclose", t>>
        BY <3>6
      <4> QED BY <4>1
    <3> QED BY <3>2, <3>3, <3>4, <3>5, <3>6
  <2> QED BY <2>2 DEF Pending
<1>2. QueuedIsReady /\ BitsHaveLists
  BY DEF OInv, DataInv, ReadyInv
<1> QED BY <1>1, <1>2 DEF ReadyQueueIsExact

LEMMA OrderlyFreed == IInv /\ OInv => FreedIsUnreferenced
<1> SUFFICES ASSUME IInv, OInv PROVE FreedIsUnreferenced
  OBVIOUS
<1>1. stat[rt_current_thread] \in {"READY", "SUSPEND", "CLOSE"}
  BY DEF OInv, CurrentOK, Leaving
<1>2. ASSUME stat[rt_current_thread] = "CLOSE" PROVE pc[rt_current_thread] # <<>>
  <2>1. pc[rt_current_thread] = << <<"sched", rt_current_thread>> >>
    BY <1>2 DEF OInv, CurrentOK, Leaving
  <2> QED BY <2>1
<1>3. ASSUME NEW t \in Threads, stat[t] = "NONE" PROVE ~Listed(t)
  BY <1>3, LinkIs DEF Listed
<1>4. ASSUME NEW t \in Threads, stat[t] = "NONE" PROVE t \notin armed
  BY <1>4 DEF OInv, DataInv, TimersOK
<1> QED BY <1>1, <1>2, <1>3, <1>4 DEF FreedIsUnreferenced

LEMMA OrderlyTimed == OInv => TimedIsSuspended
BY DEF OInv, DataInv, TimersOK, TimedIsSuspended

\* The writes of stat, each to a thread that has not ended.
LEMMA OrderlyClosed ==
    ASSUME IInv, OInv, Next, NEW t \in Threads, stat[t] = "CLOSE"
    PROVE  stat'[t] \in {"CLOSE", "NONE"}
<1>0. /\ stat \in [Threads -> Stats] /\ Claims /\ Idle \in Threads
      /\ \A d \in Threads : ~Does(d, {"insert"}, t) /\ ~Does(d, {"dclose"}, t)
  <2>1. ~Asleep(t)
    BY DEF Asleep
  <2>2. ASSUME NEW d \in Threads PROVE ~Does(d, {"insert"}, t) /\ ~Does(d, {"dclose"}, t)
    <3>1. Claim(d, t)
      BY DEF OInv, StepsInv, Claims
    <3>2. Does(d, {"dclose"}, t) => Does(d, {"dtimer", "dclose"}, t)
      BY DEF Does
    <3> QED BY <2>1, <3>1, <3>2 DEF Claim
  <2> QED BY <2>2, KernelAssumption DEF IInv, TcbOK, OInv, StepsInv
<1>1. ASSUME NEW c \in Threads, ThreadStep(c) PROVE stat'[t] \in {"CLOSE", "NONE"}
  <2>1. CASE Sched(c) \/ ResumeCheck(c) \/ ResumeUnlink(c) \/ SuspendCheck(c)
             \/ SleepReturn(c) \/ DeleteRemove(c) \/ DeleteTimer(c) \/ DeleteDefunct(c)
    BY <2>1 DEF Sched, ResumeCheck, ResumeUnlink, SuspendCheck, SleepReturn,
                DeleteRemove, DeleteTimer, DeleteDefunct, tcb
  <2>2. CASE ResumeInsert(c)
    <3>1. Does(c, {"insert"}, Target(c))
      BY <2>2, InACall DEF ResumeInsert
    <3>2. Target(c) # t
      BY <1>0, <3>1
    <3> QED BY <1>0, <2>2, <3>2 DEF ResumeInsert, InsertThread
  <2>3. CASE SuspendRemove(c)
    <3>1. /\ Does(c, {"remove"}, Target(c)) /\ Running(c)
          /\ stat[c] \in {"READY", "SUSPEND"}
      BY <2>3, InACall DEF SuspendRemove, At
    <3>2. Target(c) # t
      <4> SUFFICES ASSUME Target(c) = t PROVE FALSE
        OBVIOUS
      <4>1. Claim(c, t)
        BY <1>0 DEF Claims
      <4> QED BY <3>1, <4>1 DEF Claim
    <3> QED BY <1>0, <2>3, <3>2 DEF SuspendRemove
  <2>4. CASE DeleteClose(c)
    BY <1>0, <2>4 DEF DeleteClose
  <2> QED BY <1>1, <2>1, <2>2, <2>3, <2>4 DEF ThreadStep
<1>2. ASSUME NEW c \in Threads, ThreadCall(c) PROVE stat'[t] \in {"CLOSE", "NONE"}
  <2>1. CASE Yield(c) \/ ScheduleCall(c) \/ EnterCritical(c) \/ ExitCritical(c)
    BY <2>1 DEF Yield, ScheduleCall, EnterCritical, ExitCritical, tcb
  <2>2. CASE Sleep(c)
    BY <1>0, <2>2 DEF Sleep
  <2>3. CASE Exit(c)
    BY <1>0, <2>3 DEF Exit
  <2>4. ASSUME NEW u \in Others(c),
               Delete(c, u) \/ ResumeCall(c, u)
               \/ \E p \in Prios : ChangePriority(c, u, p)
        PROVE  stat'[t] \in {"CLOSE", "NONE"}
    BY <2>4 DEF Delete, ResumeCall, ChangePriority, tcb
  <2>5. ASSUME NEW u \in Others(c), Create(c, u) \/ Startup(c, u)
        PROVE  stat'[t] \in {"CLOSE", "NONE"}
    BY <1>0, <2>5 DEF Create, Startup, Startable
  <2>6. ASSUME NEW u \in Others(c) \cup {c}, SuspendCall(c, u)
        PROVE  stat'[t] \in {"CLOSE", "NONE"}
    BY <2>6 DEF SuspendCall, tcb
  <2> QED BY <1>2, <2>1, <2>2, <2>3, <2>4, <2>5, <2>6 DEF ThreadCall
<1>3. CASE IdleStep
  <2>1. CASE Reap
    BY <2>1 DEF Reap, tcb
  <2>2. CASE Free
    BY <1>0, <2>2 DEF Free
  <2> QED BY <1>3, <2>1, <2>2 DEF IdleStep
<1>4. CASE TickStep
  <2>1. CASE TickEnter \/ TickExit
    BY <2>1 DEF TickEnter, TickExit, tcb
  <2>2. ASSUME NEW u \in Threads, ThreadTimeout(u) PROVE stat'[t] \in {"CLOSE", "NONE"}
    <3>1. stat[u] = "SUSPEND"
      BY <2>2 DEF ThreadTimeout, OInv, DataInv, TimersOK
    <3> QED BY <1>0, <2>2, <3>1 DEF ThreadTimeout
  <2> QED BY <1>4, <2>1, <2>2 DEF TickStep
<1> QED BY <1>1, <1>2, <1>3, <1>4 DEF Next

\* In an application whose calls do not race, a thread is never on two lists, or
\* on one twice, whatever order the calls, time slices and timeouts come in.
THEOREM ListedOnceHolds == Spec /\ Orderly(api) => []ListedOnce
BY OrderlyHolds, OrderlyListedOnce, PTL

\* The ready queue holds the READY threads, each on the list of its priority, but
\* for those about to be closed; and a set bit stands for a list with a thread.
THEOREM ReadyQueueIsExactHolds == Spec /\ Orderly(api) => []ReadyQueueIsExact
BY OrderlyHolds, OrderlyQueueIsExact, PTL

\* rt_thread_timeout finds its thread suspended: its assertion holds.
THEOREM TimedIsSuspendedHolds == Spec /\ Orderly(api) => []TimedIsSuspended
BY OrderlyHolds, OrderlyTimed, PTL

\* The idle thread frees no thread object that the kernel still refers to, and
\* no thread runs on after it was closed.
THEOREM FreedIsUnreferencedHolds == Spec /\ Orderly(api) => []FreedIsUnreferenced
BY OrderlyHolds, OrderlyFreed, PTL

\* What was closed is only ever freed.
THEOREM ClosedStaysClosedHolds == Spec /\ Orderly(api) => ClosedStaysClosed
<1>1. IInv /\ OInv /\ [Next]_<<kvars, api>> =>
         [\A t \in Threads : stat[t] = "CLOSE" => stat'[t] \in {"CLOSE", "NONE"}]_kvars
  BY OrderlyClosed
<1> QED BY <1>1, OrderlyHolds, PTL DEF Spec, ClosedStaysClosed

-----------------------------------------------------------------------------
(* The hart goes to the thread rt_schedule would choose, in applications of *)
(* every kind but those whose calls leave rt_schedule to the caller.        *)

Schedules(s) == \E i \in DOMAIN s : s[i][1] = "sched"

\* A call of c that takes c off the ready queue, or puts a thread on it, ends with
\* rt_schedule (but rt_thread_resume does not); what c deletes is not c.
EndsWell(c, s) ==
    \A i \in DOMAIN s :
        /\ \/ s[i][1] \in Resuming /\ "resume" \notin api[c]
           \/ s[i][1] \in Suspending /\ s[i][2] = c
           => s[Len(s)][1] = "sched"
        /\ s[i][1] = "dremove" => s[i][2] # c

CallsEndWell == \A c \in Threads : EndsWell(c, pc[c])

Scheduling == \A t \in Threads : api[t] \cap Unscheduled = {}

\* The running thread is the one to choose, or rt_schedule is yet to come.
HighestInv ==
    /\ Scheduling /\ rt_scheduler_lock_nest = 0
    /\ rt_current_thread \in Threads => ~Schedules(pc[rt_current_thread])
    => rt_current_thread = HighestReady(rt_thread_priority_table,
                                        rt_thread_ready_priority_group)

LEMMA TailLast ==
    ASSUME NEW s \in Seq(Step), s # <<>>
    PROVE  /\ Tail(s) \in Seq(Step)
           /\ \A i \in DOMAIN Tail(s) : \E j \in DOMAIN s : Tail(s)[i] = s[j]
           /\ Tail(s) # <<>> => Tail(s)[Len(Tail(s))] = s[Len(s)]
           /\ Len(s) # 1 => Tail(s) # <<>>
           /\ Head(s)[1] # "sched" /\ Schedules(s) => Schedules(Tail(s))
           /\ Head(s) = s[1] /\ 1 \in DOMAIN s /\ s[Len(s)] \in Step
<1>1. /\ Tail(s) \in Seq(Step) /\ Len(Tail(s)) = Len(s) - 1 /\ Len(s) \in Nat
      /\ \A i \in 1..Len(s)-1 : Tail(s)[i] = s[i+1]
      /\ DOMAIN s = 1..Len(s) /\ DOMAIN Tail(s) = 1..Len(s)-1
      /\ Len(s) >= 1 /\ Head(s) = s[1]
  BY HeadTailProperties, LenProperties, EmptySeq
<1>2. \A i \in 1..Len(s)-1 : i + 1 \in 1..Len(s)
  BY <1>1
<1>3. Tail(s) # <<>> <=> Len(s) # 1
  <2>1. Tail(s) = <<>> <=> Len(Tail(s)) = 0
    BY <1>1, EmptySeq
  <2> QED BY <1>1, <2>1
<1>4. Tail(s) # <<>> => Tail(s)[Len(Tail(s))] = s[Len(s)]
  BY <1>1, <1>3
<1>5. ASSUME Head(s)[1] # "sched", Schedules(s) PROVE Schedules(Tail(s))
  <2>1. PICK i \in 1..Len(s) : s[i][1] = "sched"
    BY <1>1, <1>5 DEF Schedules
  <2>2. i # 1
    BY <1>1, <1>5, <2>1
  <2>3. i - 1 \in 1..Len(s)-1 /\ (i - 1) + 1 = i
    BY <1>1, <2>2
  <2>4. Tail(s)[i - 1] = s[i]
    BY <1>1, <2>3
  <2> QED BY <1>1, <2>1, <2>3, <2>4 DEF Schedules
<1>6. \A i \in DOMAIN Tail(s) : \E j \in DOMAIN s : Tail(s)[i] = s[j]
  BY <1>1, <1>2
<1>7. 1 \in DOMAIN s /\ s[Len(s)] \in Step
  BY <1>1, ElementOfSeq
<1> QED BY <1>1, <1>3, <1>4, <1>5, <1>6, <1>7

LEMMA PrefixLast ==
    ASSUME NEW a \in Seq(Step), NEW s \in Seq(Step)
    PROVE  /\ \A i \in DOMAIN (a \o s) : \/ \E j \in DOMAIN a : (a \o s)[i] = a[j]
                                         \/ \E j \in DOMAIN s : (a \o s)[i] = s[j]
           /\ s # <<>> => (a \o s)[Len(a \o s)] = s[Len(s)]
           /\ Schedules(s) => Schedules(a \o s)
<1>1. /\ a \o s \in Seq(Step) /\ Len(a \o s) = Len(a) + Len(s)
      /\ \A i \in 1..Len(a) + Len(s) :
            (a \o s)[i] = IF i <= Len(a) THEN a[i] ELSE s[i - Len(a)]
      /\ Len(a) \in Nat /\ Len(s) \in Nat /\ DOMAIN a = 1..Len(a)
      /\ DOMAIN s = 1..Len(s) /\ DOMAIN (a \o s) = 1..Len(a \o s)
  BY ConcatProperties, LenProperties
<1> DEFINE r == a \o s
<1>2. \A j \in 1..Len(s) : j + Len(a) \in 1..Len(a) + Len(s)
                           /\ r[j + Len(a)] = s[j]
  <2> SUFFICES ASSUME NEW j \in 1..Len(s)
               PROVE  j + Len(a) \in 1..Len(a) + Len(s) /\ r[j + Len(a)] = s[j]
    OBVIOUS
  <2>1. j + Len(a) \in 1..Len(a) + Len(s) /\ ~(j + Len(a) <= Len(a))
        /\ (j + Len(a)) - Len(a) = j
    BY <1>1
  <2> QED BY <1>1, <2>1
<1> HIDE DEF r
<1>3. ASSUME NEW i \in 1..Len(a) + Len(s)
      PROVE  (\E j \in DOMAIN a : r[i] = a[j]) \/ (\E j \in DOMAIN s : r[i] = s[j])
  <2>1. CASE i <= Len(a)
    <3>1. i \in 1..Len(a) /\ r[i] = a[i]
      BY <1>1, <2>1 DEF r
    <3> QED BY <1>1, <3>1
  <2>2. CASE ~(i <= Len(a))
    <3>1. i - Len(a) \in 1..Len(s) /\ (i - Len(a)) + Len(a) = i
      BY <1>1, <2>2
    <3>2. r[i] = s[i - Len(a)]
      BY <1>2, <3>1
    <3> QED BY <1>1, <3>1, <3>2
  <2> QED BY <2>1, <2>2
<1>4. s # <<>> => r[Len(r)] = s[Len(s)]
  <2> SUFFICES ASSUME s # <<>> PROVE r[Len(r)] = s[Len(s)]
    OBVIOUS
  <2>1. Len(s) \in 1..Len(s)
    BY <1>1, EmptySeq
  <2>2. Len(r) = Len(s) + Len(a)
    BY <1>1 DEF r
  <2> QED BY <1>2, <2>1, <2>2
<1>5. Schedules(s) => Schedules(r)
  BY <1>1, <1>2 DEF Schedules, r
<1> QED BY <1>1, <1>3, <1>4, <1>5 DEF r

LEMMA EndsWellAfterTail ==
    ASSUME IInv, CallsEndWell, NEW c \in Threads, pc[c] # <<>>
    PROVE  EndsWell(c, Tail(pc[c]))
<1>1. pc[c] \in Seq(Step)
  BY DEF IInv, StepsOK
<1>2. /\ \A i \in DOMAIN Tail(pc[c]) : \E j \in DOMAIN pc[c] : Tail(pc[c])[i] = pc[c][j]
      /\ Tail(pc[c]) # <<>> => Tail(pc[c])[Len(Tail(pc[c]))] = pc[c][Len(pc[c])]
  BY <1>1, TailLast
<1>3. \A i \in DOMAIN Tail(pc[c]) : Tail(pc[c]) # <<>>
  OBVIOUS
<1> QED BY <1>2, <1>3 DEF CallsEndWell, EndsWell

\* The call of c goes on well.
LEMMA EndsWellKept ==
    ASSUME CallsEndWell, api' = api, NEW c \in Threads,
           \A d \in Threads \ {c} : pc'[d] = pc[d], EndsWell(c, pc'[c])
    PROVE  CallsEndWell'
<1> SUFFICES ASSUME NEW d \in Threads PROVE EndsWell(d, pc[d])'
  BY DEF CallsEndWell
<1>1. CASE d = c
  BY <1>1 DEF EndsWell
<1>2. CASE d # c
  <2>1. pc'[d] = pc[d] /\ EndsWell(d, pc[d])
    BY <1>2 DEF CallsEndWell
  <2> QED BY <2>1 DEF EndsWell
<1> QED BY <1>1, <1>2

\* rt_schedule runs, or is still to come, or nothing it looks at changes.
LEMMA HighestMade ==
    ASSUME Schedule, UNCHANGED rt_scheduler_lock_nest
    PROVE  HighestInv'
BY DEF Schedule, Scheduled, HighestInv

LEMMA HighestLater ==
    ASSUME rt_current_thread' \in Threads, Schedules(pc'[rt_current_thread'])
    PROVE  HighestInv'
BY DEF HighestInv

LEMMA HighestKept ==
    ASSUME HighestInv, UNCHANGED <<queues, rt_current_thread, api>>,
           rt_scheduler_lock_nest' = 0 => rt_scheduler_lock_nest = 0,
           rt_current_thread \in Threads /\ Schedules(pc[rt_current_thread])
               => Schedules(pc'[rt_current_thread])
    PROVE  HighestInv'
BY DEF HighestInv, Scheduling, queues

\* Taking another thread out leaves the head of a list where it is.
LEMMA HeadKept ==
    ASSUME NEW s \in Seq(Threads), s # <<>>, NEW t, Head(s) # t
    PROVE  RemoveFirst(s, t) # <<>> /\ Head(RemoveFirst(s, t)) = Head(s)
<1>1. CASE t \notin Range(s)
  BY <1>1, RemoveAbsent
<1>2. CASE t \in Range(s)
  <2>1. PICK k \in 1..Len(s) : s[k] = t /\ RemoveFirst(s, t) = RemoveAt(s, k)
    BY <1>2, RemoveFirstAt
  <2>2. /\ RemoveAt(s, k) \in Seq(Threads)
        /\ Len(RemoveAt(s, k)) = Len(s) - 1
        /\ \A i \in 1..Len(s)-1 : RemoveAt(s, k)[i] = IF i < k THEN s[i] ELSE s[i+1]
    BY RemoveAtElements
  <2>3. Head(s) = s[1] /\ Len(s) \in Nat
    BY HeadTailProperties, LenProperties
  <2>4. k # 1 /\ 1 \in 1..Len(s)-1 /\ 1 < k
    BY <2>1, <2>3
  <2>5. RemoveAt(s, k)[1] = s[1]
    BY <2>2, <2>4
  <2>6. RemoveAt(s, k) # <<>>
    BY <2>2, <2>4, EmptySeq
  <2>7. Head(RemoveAt(s, k)) = RemoveAt(s, k)[1]
    BY <2>2, <2>6, HeadTailProperties
  <2> QED BY <2>1, <2>3, <2>5, <2>6, <2>7
<1> QED BY <1>1, <1>2

\* rt_schedule_remove_thread of another thread does not change the choice.
LEMMA HighestAfterRemove ==
    ASSUME IInv, NEW c \in Threads, NEW t \in Threads \ {c},
           c = HighestReady(rt_thread_priority_table, rt_thread_ready_priority_group),
           rt_thread_priority_table' = Unlinked(rt_thread_priority_table, t),
           rt_thread_ready_priority_group' =
               GroupAfterRemove(rt_thread_priority_table', t)
    PROVE  c = HighestReady(rt_thread_priority_table', rt_thread_ready_priority_group')
<1> DEFINE group == rt_thread_ready_priority_group
           table == rt_thread_priority_table
           p == CHOOSE q \in group : \A r \in group : q <= r
<1>1. table \in [Prios -> Seq(Threads)] /\ group \subseteq Prios /\ Prios \subseteq Nat
  BY KernelAssumption DEF IInv, ListsOK, TableOK, GroupOK, Prios
<1>2. group # {} /\ c # NoThread
  BY KernelAssumption DEF HighestReady
<1>3. p \in group /\ \A r \in group : p <= r
  <2>1. group \in SUBSET Nat
    BY <1>1
  <2>2. \E q \in group : \A r \in group : q <= r
    BY <1>2, <2>1, HasMinimum
  <2> QED BY <2>2
<1>4. table[p] # <<>> /\ c = Head(table[p])
  BY <1>2 DEF HighestReady
<1> HIDE DEF p
<1>5. table'[p] # <<>> /\ Head(table'[p]) = c
  <2>1. table[p] \in Seq(Threads) /\ p \in DOMAIN table
    BY <1>1, <1>3
  <2>2. table'[p] = RemoveFirst(table[p], t)
    BY <2>1 DEF Unlinked
  <2> QED BY <1>4, <2>1, <2>2, HeadKept
<1>6. group' \subseteq group /\ p \in group'
  BY <1>3, <1>5 DEF GroupAfterRemove
<1> DEFINE q == CHOOSE x \in group' : \A r \in group' : x <= r
<1>7. q \in group' /\ \A r \in group' : q <= r
  <2>1. \E x \in group' : \A r \in group' : x <= r
    BY <1>3, <1>6
  <2> QED BY <2>1
<1>8. HighestReady(table', group') = IF table'[q] = <<>> THEN NoThread ELSE Head(table'[q])
  BY <1>6 DEF HighestReady
<1> HIDE DEF q
<1>9. q = p
  <2>1. q \in group /\ q <= p /\ p <= q /\ p \in Nat /\ q \in Nat
    BY <1>1, <1>3, <1>6, <1>7
  <2> QED BY <2>1
<1> QED BY <1>5, <1>8, <1>9

\* How the calls begin.
LEMMA EndsWellShort ==
    ASSUME NEW c
    PROVE  /\ EndsWell(c, <<>>) /\ EndsWell(c, << <<"sched", c>> >>)
           /\ EndsWell(c, << <<"sched", c>>, <<"awake", c>> >>)
           /\ \A t : /\ EndsWell(c, << <<"resume", t>>, <<"sched", c>> >>)
                     /\ EndsWell(c, << <<"free", t>> >>)
                     /\ "resume" \in api[c] => EndsWell(c, << <<"resume", t>> >>)
                     /\ t # c => EndsWell(c, << <<"suspend", t>> >>)
           /\ EndsWell(c, << <<"suspend", c>>, <<"sched", c>> >>)
<1>1. EndsWell(c, <<>>) /\ EndsWell(c, << <<"sched", c>> >>)
  BY DEF EndsWell, Resuming, Suspending
<1>2. EndsWell(c, << <<"sched", c>>, <<"awake", c>> >>)
  BY DEF EndsWell, Resuming, Suspending
<1>3. ASSUME NEW t
      PROVE  /\ EndsWell(c, << <<"resume", t>>, <<"sched", c>> >>)
             /\ EndsWell(c, << <<"free", t>> >>)
             /\ "resume" \in api[c] => EndsWell(c, << <<"resume", t>> >>)
             /\ t # c => EndsWell(c, << <<"suspend", t>> >>)
  <2>1. EndsWell(c, << <<"resume", t>>, <<"sched", c>> >>)
    BY DEF EndsWell, Resuming, Suspending
  <2>2. EndsWell(c, << <<"free", t>> >>)
    BY DEF EndsWell, Resuming, Suspending
  <2>3. "resume" \in api[c] => EndsWell(c, << <<"resume", t>> >>)
    BY DEF EndsWell, Resuming, Suspending
  <2>4. t # c => EndsWell(c, << <<"suspend", t>> >>)
    BY DEF EndsWell, Resuming, Suspending
  <2> QED BY <2>1, <2>2, <2>3, <2>4
<1>4. EndsWell(c, << <<"suspend", c>>, <<"sched", c>> >>)
  BY DEF EndsWell, Resuming, Suspending
<1> QED BY <1>1, <1>2, <1>3, <1>4

LEMMA EndsWellStep ==
    ASSUME IInv, CallsEndWell, NEW c \in Threads, ThreadStep(c), api' = api
    PROVE  /\ CallsEndWell' /\ pc[c] # <<>> /\ rt_current_thread = c
           /\ \A d \in Threads \ {c} : pc'[d] = pc[d]
           /\ Schedules(pc[c]) => At(c, "sched") \/ Schedules(pc'[c])
<1>1. pc[c] # <<>> /\ rt_current_thread = c
  BY DEF ThreadStep, Sched, ResumeCheck, ResumeUnlink, ResumeInsert, SuspendCheck,
         SuspendRemove, SleepReturn, DeleteRemove, DeleteTimer, DeleteClose,
         DeleteDefunct, At, Running
<1>2. pc[c] \in Seq(Step) /\ Target(c) \in Threads
  BY <1>1, AtTyped DEF IInv, StepsOK
<1>3. EndsWell(c, Tail(pc[c]))
  BY <1>1, EndsWellAfterTail
<1>4. /\ Tail(pc[c]) \in Seq(Step) /\ Head(pc[c]) = pc[c][1] /\ 1 \in DOMAIN pc[c]
      /\ Tail(pc[c]) # <<>> => Tail(pc[c])[Len(Tail(pc[c]))] = pc[c][Len(pc[c])]
      /\ Len(pc[c]) # 1 => Tail(pc[c]) # <<>>
      /\ Head(pc[c])[1] # "sched" /\ Schedules(pc[c]) => Schedules(Tail(pc[c]))
  BY <1>1, <1>2, TailLast
<1>5. CASE Return(c)
  <2>1. pc'[c] = Tail(pc[c]) /\ \A d \in Threads \ {c} : pc'[d] = pc[d]
    BY <1>1, <1>5, Returns
  <2>2. CallsEndWell'
    BY <1>3, <2>1, EndsWellKept
  <2>3. Running(c)
    BY DEF ThreadStep, Sched, ResumeCheck, ResumeUnlink, ResumeInsert, SuspendCheck,
           SuspendRemove, SleepReturn, DeleteRemove, DeleteTimer, DeleteClose,
           DeleteDefunct, At
  <2> QED BY <1>1, <1>4, <2>1, <2>2, <2>3 DEF At
<1>6. ASSUME NEW t \in Threads, NEW more \in Seq(Step), Proceed(c, more),
             \A i \in DOMAIN more : /\ more[i][1] \in Resuming \cup {"remove"}
                                    /\ more[i][2] = t,
             \/ Head(pc[c])[1] = "resume" /\ \A i \in DOMAIN more : more[i][1] # "remove"
             \/ Head(pc[c])[1] = "suspend" /\ Head(pc[c])[2] = t
                /\ \A i \in DOMAIN more : more[i][1] \notin Resuming
      PROVE  /\ CallsEndWell' /\ \A d \in Threads \ {c} : pc'[d] = pc[d]
             /\ Schedules(pc[c]) => Schedules(pc'[c])
  <2>1. pc'[c] = more \o Tail(pc[c]) /\ \A d \in Threads \ {c} : pc'[d] = pc[d]
    BY <1>6, Proceeds
  <2> DEFINE r == more \o Tail(pc[c])
  <2>2. /\ \A i \in DOMAIN r : \/ \E j \in DOMAIN more : r[i] = more[j]
                               \/ \E j \in DOMAIN Tail(pc[c]) : r[i] = Tail(pc[c])[j]
        /\ Tail(pc[c]) # <<>> => r[Len(r)] = Tail(pc[c])[Len(Tail(pc[c]))]
        /\ Schedules(Tail(pc[c])) => Schedules(r)
    BY <1>4, PrefixLast
  <2> HIDE DEF r
  <2>3. EndsWell(c, r)
    <3> SUFFICES ASSUME NEW i \in DOMAIN r
                 PROVE  /\ \/ r[i][1] \in Resuming /\ "resume" \notin api[c]
                           \/ r[i][1] \in Suspending /\ r[i][2] = c
                           => r[Len(r)][1] = "sched"
                        /\ r[i][1] = "dremove" => r[i][2] # c
      BY DEF EndsWell
    <3>1. CASE \E j \in DOMAIN Tail(pc[c]) : r[i] = Tail(pc[c])[j]
      <4>1. PICK j \in DOMAIN Tail(pc[c]) : r[i] = Tail(pc[c])[j]
        BY <3>1
      <4>2. Tail(pc[c]) # <<>>
        OBVIOUS
      <4> QED BY <1>3, <2>2, <4>1, <4>2 DEF EndsWell
    <3>2. CASE \E j \in DOMAIN more : r[i] = more[j]
      <4>1. PICK j \in DOMAIN more : r[i] = more[j]
        BY <3>2
      <4>2. r[i][2] = t /\ r[i][1] # "dremove"
        BY <1>6, <4>1 DEF Resuming
      <4>3. SUFFICES ASSUME \/ r[i][1] \in Resuming /\ "resume" \notin api[c]
                            \/ r[i][1] \in Suspending /\ t = c
                     PROVE  r[Len(r)][1] = "sched"
        BY <4>2
      <4>4. \/ Head(pc[c])[1] \in Resuming /\ "resume" \notin api[c]
            \/ Head(pc[c])[1] \in Suspending /\ Head(pc[c])[2] = c
        BY <1>6, <4>1, <4>3 DEF Resuming, Suspending
      <4>5. pc[c][Len(pc[c])][1] = "sched"
        BY <1>4, <4>4 DEF CallsEndWell, EndsWell
      <4>6. Tail(pc[c]) # <<>>
        BY <1>4, <4>4, <4>5 DEF Resuming, Suspending
      <4> QED BY <1>4, <2>2, <4>5, <4>6
    <3> QED BY <2>2, <3>1, <3>2
  <2>4. CallsEndWell'
    BY <2>1, <2>3, EndsWellKept DEF r
  <2>5. Head(pc[c])[1] # "sched"
    BY <1>6
  <2> QED BY <1>4, <2>1, <2>2, <2>4, <2>5 DEF r
<1>7. CASE ResumeCheck(c)
  <2> DEFINE more == << <<"unlink", Target(c)>>, <<"insert", Target(c)>> >>
  <2>1. Return(c) \/ Proceed(c, more)
    BY <1>7 DEF ResumeCheck
  <2>2. more \in Seq(Step)
    BY <1>2, StepSeqs DEF Step, Labels
  <2>3. /\ \A i \in DOMAIN more : more[i][1] \in {"unlink", "insert"}
        /\ \A i \in DOMAIN more : more[i][2] = Target(c)
    OBVIOUS
  <2>4. Head(pc[c])[1] = "resume"
    BY <1>7 DEF ResumeCheck, At
  <2> HIDE DEF more
  <2>5. \A i \in DOMAIN more : more[i][1] \in Resuming /\ more[i][1] # "remove"
    BY <2>3 DEF Resuming
  <2> QED BY <1>1, <1>2, <1>5, <1>6, <2>1, <2>2, <2>3, <2>4, <2>5
<1>8. CASE SuspendCheck(c)
  <2> DEFINE more == << <<"remove", Target(c)>> >>
  <2>1. Return(c) \/ Proceed(c, more)
    BY <1>8 DEF SuspendCheck
  <2>2. more \in Seq(Step)
    BY <1>2, StepSeqs DEF Step, Labels
  <2>3. /\ \A i \in DOMAIN more : more[i][1] = "remove"
        /\ \A i \in DOMAIN more : more[i][2] = Target(c)
    OBVIOUS
  <2>4. Head(pc[c])[1] = "suspend" /\ Head(pc[c])[2] = Target(c)
    BY <1>8 DEF SuspendCheck, At, Target
  <2> HIDE DEF more
  <2>5. \A i \in DOMAIN more : more[i][1] \notin Resuming
    BY <2>3 DEF Resuming
  <2> QED BY <1>1, <1>2, <1>5, <1>6, <2>1, <2>2, <2>3, <2>4, <2>5
<1> QED BY <1>1, <1>5, <1>7, <1>8 DEF ThreadStep, Sched, ResumeUnlink, ResumeInsert,
          SuspendRemove, SleepReturn, DeleteRemove, DeleteTimer, DeleteClose,
          DeleteDefunct

\* A call begins well, and rt_schedule is part of it if it touches the ready queue.
LEMMA EndsWellCall ==
    ASSUME IInv, CallsEndWell, NEW c \in Threads, ThreadCall(c), api' = api
    PROVE  CallsEndWell'
<1>1. pc \in [Threads -> Seq(Step)]
  BY DEF IInv, StepsOK
<1>2. ASSUME NEW steps, EndsWell(c, steps), Goto(c, steps) PROVE CallsEndWell'
  BY <1>1, <1>2, EndsWellKept DEF Goto
<1>3. CASE Yield(c) \/ Exit(c) \/ ScheduleCall(c)
  BY <1>2, <1>3, EndsWellShort DEF Yield, Exit, ScheduleCall
<1>4. CASE Sleep(c)
  BY <1>2, <1>4, EndsWellShort DEF Sleep
<1>5. CASE EnterCritical(c) \/ ExitCritical(c)
  <2>1. CASE Goto(c, << <<"sched", c>> >>)
    BY <1>2, <2>1, EndsWellShort
  <2>2. CASE pc' = pc
    BY <2>2 DEF CallsEndWell, EndsWell
  <2> QED BY <1>5, <2>1, <2>2 DEF EnterCritical, ExitCritical
<1>6. ASSUME NEW t \in Others(c), Create(c, t) PROVE CallsEndWell'
  <2>1. t \in Threads /\ pc'[t] = <<>> /\ \A d \in Threads \ {t} : pc'[d] = pc[d]
    BY <1>1, <1>6 DEF Create, Others
  <2>2. EndsWell(t, pc'[t])
    BY <2>1, EndsWellShort
  <2> QED BY <2>1, <2>2, EndsWellKept
<1>7. ASSUME NEW t \in Others(c), Startup(c, t) \/ ResumeCall(c, t) PROVE CallsEndWell'
  <2>1. CASE Startup(c, t)
    BY <1>2, <2>1, EndsWellShort DEF Startup
  <2>2. CASE ResumeCall(c, t)
    BY <1>2, <2>2, EndsWellShort DEF ResumeCall, Call
  <2> QED BY <1>7, <2>1, <2>2
<1>8. ASSUME NEW t \in Others(c), Delete(c, t) PROVE CallsEndWell'
  <2> DEFINE s == IF stat[t] = "INIT" THEN <<>> ELSE << <<"dremove", t>> >>
             m == << <<"dtimer", t>>, <<"dclose", t>> >>
             u == IF t \in Static THEN <<>> ELSE << <<"ddefunct", t>> >>
  <2>1. Goto(c, (s \o m) \o u)
    BY <1>8 DEF Delete
  <2>2. t \in Threads /\ t # c
    BY DEF Others
  <2>3. s \in Seq(Step) /\ m \in Seq(Step) /\ u \in Seq(Step)
    <3>1. <<>> \in Seq(Step) /\ {"dremove", "dtimer", "dclose", "ddefunct"} \subseteq Labels
      BY EmptySeq DEF Labels
    <3>2. << <<"dremove", t>> >> \in Seq(Step) /\ << <<"ddefunct", t>> >> \in Seq(Step)
      BY <2>2, <3>1, StepSeqs
    <3>3. m \in Seq(Step)
      BY <2>2, <3>1, StepSeqs
    <3> QED BY <3>1, <3>2, <3>3
  <2>4. /\ \A i \in DOMAIN s : s[i][1] \in Deleting /\ s[i][2] = t
        /\ \A i \in DOMAIN m : m[i][1] \in Deleting /\ m[i][2] = t
        /\ \A i \in DOMAIN u : u[i][1] \in Deleting /\ u[i][2] = t
    BY DEF Deleting
  <2> HIDE DEF s, m, u
  <2>5. s \o m \in Seq(Step)
    BY <2>3, ConcatProperties
  <2>6. \A i \in DOMAIN (s \o m) : (s \o m)[i][1] \in Deleting /\ (s \o m)[i][2] = t
    BY <2>3, <2>4, PrefixLast
  <2>7. \A i \in DOMAIN ((s \o m) \o u) :
           ((s \o m) \o u)[i][1] \in Deleting /\ ((s \o m) \o u)[i][2] = t
    BY <2>3, <2>4, <2>5, <2>6, PrefixLast
  <2>8. EndsWell(c, (s \o m) \o u)
    BY <2>2, <2>7 DEF EndsWell, Deleting, Resuming, Suspending
  <2> QED BY <1>2, <2>1, <2>8
<1>9. ASSUME NEW t \in Others(c), NEW p \in Prios, ChangePriority(c, t, p)
      PROVE  CallsEndWell'
  BY <1>9 DEF ChangePriority, CallsEndWell, EndsWell
<1>10. ASSUME NEW t \in Others(c) \cup {c}, SuspendCall(c, t) PROVE CallsEndWell'
  <2>1. CASE t = c
    <3>1. Goto(c, << <<"suspend", c>> >> \o << <<"sched", c>> >>)
      BY <1>10, <2>1 DEF SuspendCall
    <3>2. << <<"suspend", c>> >> \o << <<"sched", c>> >>
             = << <<"suspend", c>>, <<"sched", c>> >>
      BY Concat11
    <3> QED BY <1>2, <3>1, <3>2, EndsWellShort
  <2>2. CASE t # c
    <3>1. Goto(c, << <<"suspend", t>> >> \o <<>>)
      BY <1>10, <2>2 DEF SuspendCall
    <3>2. << <<"suspend", t>> >> \o <<>> = << <<"suspend", t>> >>
      OBVIOUS
    <3>3. EndsWell(c, << <<"suspend", t>> >>)
      BY <2>2, EndsWellShort
    <3> QED BY <1>2, <3>1, <3>2, <3>3
  <2> QED BY <2>1, <2>2
<1> QED BY <1>3, <1>4, <1>5, <1>6, <1>7, <1>8, <1>9, <1>10 DEF ThreadCall

LEMMA HighestThreadCall ==
    ASSUME IInv, HighestInv, NEW c \in Threads, ThreadCall(c), api' = api
    PROVE  HighestInv'
<1>1. /\ pc \in [Threads -> Seq(Step)] /\ rt_scheduler_lock_nest \in Nat
      /\ ~Schedules(<<>>)
  BY KernelAssumption DEF IInv, StepsOK, HartOK, Schedules
<1>2. ASSUME NEW steps, Goto(c, steps), rt_current_thread' = c, Schedules(steps)
      PROVE  HighestInv'
  BY <1>1, <1>2, HighestLater DEF Goto
<1>3. /\ Schedules(<< <<"sched", c>> >>)
      /\ Schedules(<< <<"sched", c>>, <<"awake", c>> >>)
      /\ \A t : Schedules(<< <<"resume", t>>, <<"sched", c>> >>)
  <2>1. \A a, b : Schedules(<< a, b >>) <=> (a[1] = "sched" \/ b[1] = "sched")
    BY DEF Schedules
  <2>2. \A a : Schedules(<< a >>) <=> a[1] = "sched"
    BY DEF Schedules
  <2> QED BY <2>1, <2>2
<1>4. CASE Yield(c) \/ Exit(c) \/ ScheduleCall(c)
  BY <1>2, <1>3, <1>4 DEF Yield, Exit, ScheduleCall, Call, Running
<1>5. CASE Sleep(c)
  BY <1>2, <1>3, <1>5 DEF Sleep, Call, Running
<1>6. CASE EnterCritical(c)
  BY <1>1, <1>6, HighestKept DEF EnterCritical, lists
<1>7. CASE ExitCritical(c)
  <2>1. CASE rt_scheduler_lock_nest = 1
    BY <1>2, <1>3, <1>7, <2>1 DEF ExitCritical, Call, Running
  <2>2. CASE rt_scheduler_lock_nest # 1
    BY <1>1, <1>7, <2>2, HighestKept DEF ExitCritical, lists
  <2> QED BY <2>1, <2>2
<1>8. ASSUME NEW t \in Others(c), Create(c, t) PROVE HighestInv'
  BY <1>1, <1>8, HighestKept DEF Create, Call, Running, Others, lists
<1>9. ASSUME NEW t \in Others(c), Startup(c, t) PROVE HighestInv'
  BY <1>2, <1>3, <1>9 DEF Startup, Call, Running
<1>10. ASSUME NEW t \in Others(c), Delete(c, t) PROVE HighestInv'
  BY <1>1, <1>10, HighestKept DEF Delete, Call, Running, lists
<1>11. ASSUME NEW t \in Others(c), ResumeCall(c, t) PROVE HighestInv'
  BY <1>11 DEF ResumeCall, Call, HighestInv, Scheduling, Unscheduled
<1>12. ASSUME NEW t \in Others(c), NEW p \in Prios, ChangePriority(c, t, p)
       PROVE  HighestInv'
  BY <1>12 DEF ChangePriority, Call, HighestInv, Scheduling, Unscheduled
<1>13. ASSUME NEW t \in Others(c) \cup {c}, SuspendCall(c, t) PROVE HighestInv'
  BY <1>1, <1>13, HighestKept DEF SuspendCall, Call, Running, lists
<1> QED BY <1>4, <1>5, <1>6, <1>7, <1>8, <1>9, <1>10, <1>11, <1>12, <1>13 DEF ThreadCall

\* Taking out a thread that is not the running one, in a masked section.
LEMMA HighestThreadRemoved ==
    ASSUME IInv, HighestInv, NEW c \in Threads, rt_current_thread = c,
           NEW t \in Threads \ {c}, RemoveThread(t),
           UNCHANGED <<rt_current_thread, rt_scheduler_lock_nest, api>>,
           Schedules(pc[c]) => Schedules(pc'[c])
    PROVE  HighestInv'
<1> SUFFICES ASSUME Scheduling, rt_scheduler_lock_nest = 0, ~Schedules(pc[c])
             PROVE  c = HighestReady(rt_thread_priority_table',
                                     rt_thread_ready_priority_group')
  BY DEF HighestInv, Scheduling
<1>1. c = HighestReady(rt_thread_priority_table, rt_thread_ready_priority_group)
  BY DEF HighestInv
<1> QED BY <1>1, HighestAfterRemove DEF RemoveThread, Unlink

LEMMA HighestThreadStep ==
    ASSUME IInv, CallsEndWell, HighestInv, NEW c \in Threads, ThreadStep(c), api' = api
    PROVE  HighestInv'
<1>1. /\ pc[c] # <<>> /\ rt_current_thread = c
      /\ Schedules(pc[c]) => At(c, "sched") \/ Schedules(pc'[c])
  BY EndsWellStep
<1>2. /\ pc[c] \in Seq(Step) /\ 1 \in DOMAIN pc[c] /\ Head(pc[c]) = pc[c][1]
      /\ Target(c) \in Threads /\ Len(pc[c]) \in DOMAIN pc[c]
  <2>1. pc[c] \in Seq(Step) /\ Target(c) \in Threads
    BY <1>1, AtTyped DEF IInv, StepsOK
  <2>2. 1 \in DOMAIN pc[c] /\ Head(pc[c]) = pc[c][1]
    BY <1>1, <2>1, TailLast
  <2>3. Len(pc[c]) \in DOMAIN pc[c]
    BY <1>1, <2>1, LenProperties, EmptySeq
  <2> QED BY <2>1, <2>2, <2>3
<1>3. ASSUME pc[c][Len(pc[c])][1] = "sched", Head(pc[c])[1] # "sched",
             rt_current_thread' = c
      PROVE  HighestInv'
  <2>1. Schedules(pc[c])
    BY <1>2, <1>3 DEF Schedules
  <2> QED BY <1>1, <1>3, <2>1, HighestLater DEF At
<1>4. CASE Sched(c)
  BY <1>4, HighestMade DEF Sched
<1>5. CASE ResumeCheck(c) \/ SuspendCheck(c) \/ SleepReturn(c) \/ DeleteTimer(c)
           \/ DeleteClose(c) \/ DeleteDefunct(c)
  <2>1. Head(pc[c])[1] # "sched"
    BY <1>5 DEF ResumeCheck, SuspendCheck, SleepReturn, DeleteTimer, DeleteClose,
                DeleteDefunct, At
  <2>2. UNCHANGED <<queues, rt_current_thread, rt_scheduler_lock_nest>>
    BY <1>5 DEF ResumeCheck, SuspendCheck, SleepReturn, DeleteTimer, DeleteClose,
                DeleteDefunct, lists
  <2> QED BY <1>1, <2>1, <2>2, HighestKept DEF At
<1>6. CASE ResumeUnlink(c) \/ ResumeInsert(c)
  <2>1. Head(pc[c])[1] \in Resuming /\ rt_current_thread' = c
    BY <1>1, <1>6 DEF ResumeUnlink, ResumeInsert, At, Resuming
  <2>2. CASE "resume" \in api[c]
    BY <2>2 DEF HighestInv, Scheduling, Unscheduled
  <2>3. CASE "resume" \notin api[c]
    <3>1. pc[c][Len(pc[c])][1] = "sched"
      BY <1>2, <2>1, <2>3 DEF CallsEndWell, EndsWell
    <3> QED BY <1>3, <2>1, <3>1 DEF Resuming
  <2> QED BY <2>2, <2>3
<1>7. CASE SuspendRemove(c)
  <2>1. /\ Head(pc[c])[1] = "remove" /\ RemoveThread(Target(c))
        /\ UNCHANGED <<rt_current_thread, rt_scheduler_lock_nest>>
    BY <1>7 DEF SuspendRemove, At
  <2>2. CASE Target(c) = c
    <3>1. pc[c][Len(pc[c])][1] = "sched"
      BY <1>2, <2>1, <2>2 DEF CallsEndWell, EndsWell, Target, Suspending
    <3> QED BY <1>1, <1>3, <2>1, <3>1
  <2>3. CASE Target(c) # c
    <3>1. Schedules(pc[c]) => Schedules(pc'[c])
      BY <1>1, <2>1 DEF At
    <3> QED BY <1>1, <1>2, <2>1, <2>3, <3>1, HighestThreadRemoved
  <2> QED BY <2>2, <2>3
<1>8. CASE DeleteRemove(c)
  <2>1. /\ Head(pc[c])[1] = "dremove" /\ RemoveThread(Target(c))
        /\ UNCHANGED <<rt_current_thread, rt_scheduler_lock_nest>>
    BY <1>8 DEF DeleteRemove, At
  <2>2. Target(c) # c
    BY <1>2, <2>1 DEF CallsEndWell, EndsWell, Target
  <2>3. Schedules(pc[c]) => Schedules(pc'[c])
    BY <1>1, <2>1 DEF At
  <2> QED BY <1>1, <1>2, <2>1, <2>2, <2>3, HighestThreadRemoved
<1> QED BY <1>4, <1>5, <1>6, <1>7, <1>8 DEF ThreadStep

LEMMA HighestStep ==
    IInv /\ CallsEndWell /\ HighestInv /\ [Next]_<<kvars, api>>
        => CallsEndWell' /\ HighestInv'
<1> SUFFICES ASSUME IInv, CallsEndWell, HighestInv, [Next]_<<kvars, api>>
             PROVE  CallsEndWell' /\ HighestInv'
  OBVIOUS
<1>1. CASE UNCHANGED <<kvars, api>>
  BY <1>1 DEF kvars, lists, queues, CallsEndWell, EndsWell, HighestInv, Scheduling
<1>2. ASSUME NEW c \in Threads, ThreadStep(c), api' = api
      PROVE  CallsEndWell' /\ HighestInv'
  BY <1>2, EndsWellStep, HighestThreadStep
<1>3. ASSUME NEW c \in Threads, ThreadCall(c), api' = api
      PROVE  CallsEndWell' /\ HighestInv'
  BY <1>3, EndsWellCall, HighestThreadCall
<1>4. ASSUME IdleStep, api' = api PROVE CallsEndWell' /\ HighestInv'
  <2>0. Idle \in Threads /\ pc \in [Threads -> Seq(Step)]
    BY KernelAssumption DEF IInv, StepsOK
  <2>1. CASE Reap
    <3>1. PICK t : Goto(Idle, << <<"free", t>> >>)
      BY <2>1 DEF Reap
    <3>2. EndsWell(Idle, pc'[Idle]) /\ \A d \in Threads \ {Idle} : pc'[d] = pc[d]
      BY <2>0, <3>1, EndsWellShort DEF Goto
    <3>3. CallsEndWell'
      BY <1>4, <2>0, <3>2, EndsWellKept
    <3> QED BY <2>1, <3>3, HighestMade DEF Reap
  <2>2. CASE Free
    <3>1. /\ pc[Idle] # <<>> /\ Head(pc[Idle])[1] = "free" /\ rt_current_thread = Idle
          /\ UNCHANGED <<queues, rt_current_thread, rt_scheduler_lock_nest>>
      BY <2>2 DEF Free, At, Running, lists
    <3>2. pc'[Idle] = Tail(pc[Idle]) /\ \A d \in Threads \ {Idle} : pc'[d] = pc[d]
      BY <2>0, <2>2, <3>1, Returns DEF Free
    <3>3. CallsEndWell'
      BY <1>4, <2>0, <3>1, <3>2, EndsWellAfterTail, EndsWellKept
    <3>4. Schedules(pc[Idle]) => Schedules(pc'[Idle])
      BY <2>0, <3>1, <3>2, TailLast
    <3> QED BY <1>4, <3>1, <3>3, <3>4, HighestKept
  <2> QED BY <1>4, <2>1, <2>2 DEF IdleStep
<1>5. ASSUME TickStep, api' = api PROVE CallsEndWell' /\ HighestInv'
  <2>1. pc' = pc /\ UNCHANGED rt_scheduler_lock_nest
    BY <1>5 DEF TickStep, TickEnter, ThreadTimeout, TickExit
  <2>2. CallsEndWell'
    BY <1>5, <2>1 DEF CallsEndWell, EndsWell
  <2>3. Schedule \/ UNCHANGED <<queues, rt_current_thread>>
    BY <1>5 DEF TickStep, TickEnter, ThreadTimeout, TickExit, lists
  <2>4. HighestInv'
    BY <1>5, <2>1, <2>3, HighestMade, HighestKept
  <2> QED BY <2>2, <2>4
<1> QED BY <1>1, <1>2, <1>3, <1>4, <1>5 DEF Next

\* While the scheduler is not locked, a thread in its own code is the one that
\* rt_schedule would choose, in every application whose calls schedule: also when
\* they race.
THEOREM HighestRunsHolds == Spec => []HighestRuns
<1>1. Init => CallsEndWell /\ HighestInv
  <2> SUFFICES ASSUME Init PROVE CallsEndWell /\ HighestInv
    OBVIOUS
  <2>1. CallsEndWell
    BY EndsWellShort DEF Init, CallsEndWell
  <2>2. HighestInv
    BY DEF Init, HighestInv
  <2> QED BY <2>1, <2>2
<1>2. IInv /\ CallsEndWell /\ HighestInv => HighestRuns
  <2>1. ~Schedules(<<>>)
    BY DEF Schedules
  <2> QED BY <2>1 DEF HighestInv, Scheduling, HighestRuns
<1> QED BY <1>1, <1>2, InitTyped, StepTyped, HighestStep, PTL DEF Spec

-----------------------------------------------------------------------------
(* Under the IPC objects.  First recursive functions as such: what defines *)
(* Among and FreeBlocks exists, which follows from the least number for    *)
(* which it would not.                                                     *)

\* f begins with a, and h makes f[i] of i and f[i - 1].
Recurs(f, n, X, a, h) ==
    f \in [0..n -> X] /\ f[0] = a /\ \A i \in 1..n : f[i] = h[<<i, f[i - 1]>>]

\* What a recursive definition over 0..n defines is there.
LEMMA RecursionDefines ==
    ASSUME NEW n \in Nat, NEW X, NEW a \in X, NEW h \in [(1..n) \X X -> X]
    PROVE  \E f : Recurs(f, n, X, a, h)
<1> DEFINE Upto(m) == \E f \in [0..m -> X] :
                         f = [i \in 0..m |-> IF i = 0 THEN a ELSE h[<<i, f[i - 1]>>]]
           Bad == {m \in 0..n : ~Upto(m)}
<1>1. SUFFICES ASSUME Bad # {} PROVE FALSE
  <2>1. n \in 0..n
    OBVIOUS
  <2>2. Upto(n)
    BY <2>1
  <2>3. PICK f \in [0..n -> X] :
           f = [i \in 0..n |-> IF i = 0 THEN a ELSE h[<<i, f[i - 1]>>]]
    BY <2>2
  <2>4. Recurs(f, n, X, a, h)
    BY <2>3 DEF Recurs
  <2> QED BY <2>4
<1>2. Bad \in SUBSET Nat
  OBVIOUS
<1> HIDE DEF Bad
<1>3. PICK m \in Bad : \A y \in Bad : m <= y
  BY <1>1, <1>2, HasMinimum
<1> USE DEF Bad
<1>4. m \in 0..n /\ ~Upto(m)
  BY <1>3
<1>5. CASE m = 0
  <2> DEFINE f == [i \in 0..0 |-> a]
  <2>1. f \in [0..0 -> X]
    OBVIOUS
  <2>2. f = [i \in 0..0 |-> IF i = 0 THEN a ELSE h[<<i, f[i - 1]>>]]
    OBVIOUS
  <2> QED BY <1>4, <1>5, <2>1, <2>2
<1>6. CASE m > 0
  <2>1. m - 1 \in 0..n /\ m - 1 < m /\ m \in 1..n
    BY <1>4, <1>6
  <2>2. m - 1 \notin Bad
    BY <1>3, <2>1
  <2>3. Upto(m - 1)
    BY <2>1, <2>2
  <2>4. PICK f \in [0..m-1 -> X] :
           f = [i \in 0..m-1 |-> IF i = 0 THEN a ELSE h[<<i, f[i - 1]>>]]
    BY <2>3
  <2> DEFINE g == [i \in 0..m |-> IF i = m THEN h[<<m, f[m - 1]>>] ELSE f[i]]
  <2>5. m - 1 \in 0..m-1 /\ f[m - 1] \in X
    BY <2>1
  <2>6. <<m, f[m - 1]>> \in (1..n) \X X
    BY <2>1, <2>5
  <2>7. h[<<m, f[m - 1]>>] \in X
    BY <2>6
  <2>8. \A i \in 0..m : i # m => i \in 0..m-1
    BY <2>1
  <2>9. g \in [0..m -> X]
    BY <2>7, <2>8
  <2>10. \A i \in 0..m : g[i] = IF i = 0 THEN a ELSE h[<<i, g[i - 1]>>]
    <3> TAKE i \in 0..m
    <3>1. CASE i = m
      <4>1. g[i] = h[<<m, f[m - 1]>>] /\ i # 0 /\ m - 1 \in 0..m /\ m - 1 # m
        BY <2>1, <3>1
      <4>2. g[m - 1] = f[m - 1]
        BY <4>1
      <4> QED BY <3>1, <4>1, <4>2
    <3>2. CASE i # m
      <4>1. i \in 0..m-1 /\ g[i] = f[i]
        BY <2>8, <3>2
      <4>2. f[i] = IF i = 0 THEN a ELSE h[<<i, f[i - 1]>>]
        BY <2>4, <4>1
      <4>3. CASE i = 0
        BY <4>1, <4>2, <4>3
      <4>4. CASE i # 0
        <5>1. i - 1 \in 0..m /\ i - 1 # m
          BY <2>1, <4>1, <4>4
        <5>2. g[i - 1] = f[i - 1]
          BY <5>1
        <5> HIDE DEF g
        <5> QED BY <4>1, <4>2, <4>4, <5>2
      <4> QED BY <4>3, <4>4
    <3> QED BY <3>1, <3>2
  <2>11. g = [i \in 0..m |-> g[i]]
    OBVIOUS
  <2> HIDE DEF g
  <2>12. g = [i \in 0..m |-> IF i = 0 THEN a ELSE h[<<i, g[i - 1]>>]]
    BY <2>10, <2>11
  <2> QED BY <1>4, <2>9, <2>12
<1>7. m = 0 \/ m > 0
  BY <1>4
<1> QED BY <1>5, <1>6, <1>7

\* The steps of the filter Among.
Filters(f, q, S, T) ==
    /\ f \in [0..Len(q) -> Seq(T)] /\ f[0] = <<>> /\ f[Len(q)] = Among(q, S)
    /\ \A i \in 1..Len(q) :
          f[i] = IF q[i] \in S THEN Append(f[i - 1], q[i]) ELSE f[i - 1]

LEMMA AmongSteps ==
    ASSUME NEW T, NEW q \in Seq(T), NEW S
    PROVE  \E f : Filters(f, q, S, T)
<1> DEFINE n == Len(q)
           X == Seq(T)
           h == [x \in (1..n) \X X |-> IF q[x[1]] \in S THEN Append(x[2], q[x[1]]) ELSE x[2]]
           Makes(f) == f = [i \in 0..n |-> IF i = 0 THEN <<>>
                              ELSE IF q[i] \in S THEN Append(f[i - 1], q[i]) ELSE f[i - 1]]
           g == CHOOSE f : Makes(f)
<1>1. n \in Nat /\ \A i \in 1..n : q[i] \in T
  BY LenProperties, ElementOfSeq
<1>2. h \in [(1..n) \X X -> X]
  <2> SUFFICES ASSUME NEW x \in (1..n) \X X
               PROVE  (IF q[x[1]] \in S THEN Append(x[2], q[x[1]]) ELSE x[2]) \in X
    OBVIOUS
  <2>1. x[1] \in 1..n /\ x[2] \in Seq(T) /\ q[x[1]] \in T
    BY <1>1
  <2> QED BY <2>1, AppendProperties
<1>3. <<>> \in X
  OBVIOUS
<1>4. PICK f : Recurs(f, n, X, <<>>, h)
  <2> HIDE DEF h, X, n
  <2> QED BY <1>1, <1>2, <1>3, RecursionDefines
<1>5. ASSUME NEW i \in 0..n
      PROVE  f[i] = IF i = 0 THEN <<>>
                    ELSE IF q[i] \in S THEN Append(f[i - 1], q[i]) ELSE f[i - 1]
  <2>1. CASE i = 0
    BY <1>4, <2>1 DEF Recurs
  <2>2. CASE i # 0
    <3>1. i \in 1..n /\ i - 1 \in 0..n
      BY <1>1, <2>2
    <3>2. <<i, f[i - 1]>> \in (1..n) \X X
      BY <1>4, <3>1 DEF Recurs
    <3>3. h[<<i, f[i - 1]>>] = IF q[i] \in S THEN Append(f[i - 1], q[i]) ELSE f[i - 1]
      BY <3>2
    <3>4. f[i] = h[<<i, f[i - 1]>>]
      <4> HIDE DEF h
      <4> QED BY <1>4, <3>1 DEF Recurs
    <3> QED BY <2>2, <3>3, <3>4
  <2> QED BY <2>1, <2>2
<1>6. f = [i \in 0..n |-> f[i]]
  BY <1>4 DEF Recurs
<1>7. Makes(f)
  BY <1>5, <1>6
<1>8. Makes(g)
  <2> HIDE DEF Makes
  <2> QED BY <1>7
<1>9. Among(q, S) = g[n]
  BY DEF Among
<1> HIDE DEF g, h
<1>10. \A i \in 0..n : g[i] = IF i = 0 THEN <<>>
                    ELSE IF q[i] \in S THEN Append(g[i - 1], q[i]) ELSE g[i - 1]
  BY <1>8
<1>11. g \in [0..n -> X]
  <2> DEFINE Bad == {i \in 0..n : g[i] \notin X}
  <2>1. SUFFICES ASSUME Bad # {} PROVE FALSE
    <3>1. \A i \in 0..n : g[i] \in X
      BY <2>1
    <3>2. g = [i \in 0..n |-> g[i]]
      BY <1>8
    <3> HIDE DEF Makes, X
    <3> QED BY <3>1, <3>2
  <2>2. Bad \in SUBSET Nat
    OBVIOUS
  <2> HIDE DEF Bad
  <2>3. PICK m \in Bad : \A y \in Bad : m <= y
    BY <2>1, <2>2, HasMinimum
  <2> USE DEF Bad
  <2>4. m \in 0..n /\ g[m] \notin X
    BY <2>3
  <2>5. m # 0
    <3>1. 0 \in 0..n
      BY <1>1
    <3>2. g[0] = <<>>
      BY <1>10, <3>1
    <3> QED BY <1>3, <2>4, <3>2
  <2>6. m - 1 \in 0..n /\ m \in 1..n /\ ~(m <= m - 1)
    BY <1>1, <2>4, <2>5
  <2>7. g[m - 1] \in X
    BY <2>3, <2>6
  <2>8. Append(g[m - 1], q[m]) \in X
    BY <1>1, <2>6, <2>7, AppendProperties
  <2>9. g[m] \in {Append(g[m - 1], q[m]), g[m - 1]}
    <3> HIDE DEF X, Bad, Makes
    <3> QED BY <1>10, <2>4, <2>5
  <2> QED BY <2>4, <2>7, <2>8, <2>9
<1>12. g[0] = <<>>
  BY <1>1, <1>10
<1>13. \A i \in 1..n : g[i] = IF q[i] \in S THEN Append(g[i - 1], q[i]) ELSE g[i - 1]
  <2> TAKE i \in 1..n
  <2>1. i \in 0..n /\ i # 0
    OBVIOUS
  <2> HIDE DEF Makes, X
  <2> QED BY <1>10, <2>1
<1> QED BY <1>9, <1>11, <1>12, <1>13 DEF Filters

\* What comes out of a sequence stands in its order.
Embeds(r, q) ==
    \A i, j \in DOMAIN r : i < j =>
        \E k, l \in DOMAIN q : k < l /\ r[i] = q[k] /\ r[j] = q[l]

\* The first i elements of q that are in S are those of r, in their order.
Filtered(r, q, S, i) ==
    /\ \A a \in 1..Len(r) : \E k \in 1..i : r[a] = q[k] /\ q[k] \in S
    /\ \A a, b \in 1..Len(r) : a < b => \E k, l \in 1..i : k < l /\ r[a] = q[k] /\ r[b] = q[l]
    /\ \A k \in 1..i : q[k] \in S => \E a \in 1..Len(r) : r[a] = q[k]

LEMMA FilteredStep ==
    ASSUME NEW T, NEW q \in Seq(T), NEW S, NEW i \in 1..Len(q), NEW r \in Seq(T),
           Filtered(r, q, S, i - 1)
    PROVE  Filtered(IF q[i] \in S THEN Append(r, q[i]) ELSE r, q, S, i)
<1>1. Len(q) \in Nat /\ i \in Nat /\ q[i] \in T /\ Len(r) \in Nat
  BY LenProperties, ElementOfSeq
<1>2. \A k \in 1..i-1 : k \in 1..i /\ k < i
  BY <1>1
<1>3. \A k \in 1..i : k \in 1..i-1 \/ k = i
  BY <1>1
<1>4. CASE q[i] \notin S
  BY <1>2, <1>3, <1>4 DEF Filtered
<1>5. CASE q[i] \in S
  <2> DEFINE s == Append(r, q[i])
             n == Len(r)
  <2>1. /\ s \in Seq(T) /\ Len(s) = n + 1 /\ s[n + 1] = q[i]
        /\ \A a \in 1..n : s[a] = r[a]
    BY <1>1, AppendProperties
  <2>2. \A a \in 1..n+1 : a \in 1..n \/ a = n + 1
    BY <1>1
  <2>3. n + 1 \in 1..n+1 /\ i \in 1..i /\ 1..n \subseteq 1..n+1
    BY <1>1
  <2>4. \A a \in 1..n : \E k \in 1..i-1 : r[a] = q[k] /\ q[k] \in S
    BY DEF Filtered
  <2>5. \A a, b \in 1..n : a < b => \E k, l \in 1..i-1 : k < l /\ r[a] = q[k] /\ r[b] = q[l]
    BY DEF Filtered
  <2>6. \A k \in 1..i-1 : q[k] \in S => \E a \in 1..n : r[a] = q[k]
    BY DEF Filtered
  <2> HIDE DEF s, n
  <2>7. \A a \in 1..n+1 : \E k \in 1..i : s[a] = q[k] /\ q[k] \in S
    BY <1>2, <1>5, <2>1, <2>2, <2>3, <2>4
  <2>8. ASSUME NEW a \in 1..n+1, NEW b \in 1..n+1, a < b
        PROVE  \E k, l \in 1..i : k < l /\ s[a] = q[k] /\ s[b] = q[l]
    <3>1. a \in 1..n
      BY <1>1, <2>8 DEF n
    <3>2. CASE b \in 1..n
      BY <1>2, <2>1, <2>5, <2>8, <3>1, <3>2
    <3>3. CASE b = n + 1
      BY <1>2, <2>1, <2>3, <2>4, <3>1, <3>3
    <3> QED BY <2>2, <3>2, <3>3
  <2>9. \A k \in 1..i : q[k] \in S => \E a \in 1..n+1 : s[a] = q[k]
    BY <1>3, <2>1, <2>3, <2>6
  <2>10. Filtered(s, q, S, i)
    BY <2>1, <2>7, <2>8, <2>9 DEF Filtered
  <2> QED BY <1>5, <2>10 DEF s
<1> QED BY <1>4, <1>5

\* Among is a filter: the elements of q that are in S, in the order of q.
LEMMA AmongIs ==
    ASSUME NEW T, NEW q \in Seq(T), NEW S
    PROVE  /\ Among(q, S) \in Seq(T)
           /\ Range(Among(q, S)) = Range(q) \cap S
           /\ Embeds(Among(q, S), q)
           /\ IsInjective(q) => IsInjective(Among(q, S))
<1>1. PICK f : Filters(f, q, S, T)
  BY AmongSteps
<1> DEFINE n == Len(q)
           Bad == {i \in 0..n : ~Filtered(f[i], q, S, i)}
<1>2. n \in Nat /\ DOMAIN q = 1..n
  BY LenProperties
<1>3. Bad = {}
  <2> SUFFICES ASSUME Bad # {} PROVE FALSE
    OBVIOUS
  <2>1. Bad \in SUBSET Nat
    OBVIOUS
  <2> HIDE DEF Bad
  <2>2. PICK m \in Bad : \A y \in Bad : m <= y
    BY <2>1, HasMinimum
  <2> USE DEF Bad
  <2>3. m \in 0..n /\ ~Filtered(f[m], q, S, m)
    BY <2>2
  <2>4. m # 0
    <3>1. f[0] = <<>>
      BY <1>1 DEF Filters
    <3>2. Filtered(<<>>, q, S, 0)
      BY DEF Filtered
    <3> QED BY <2>3, <3>1, <3>2
  <2>5. m \in 1..n /\ m - 1 \in 0..n /\ ~(m <= m - 1)
    BY <1>2, <2>3, <2>4
  <2>6. Filtered(f[m - 1], q, S, m - 1)
    BY <2>2, <2>5
  <2>7. f[m - 1] \in Seq(T)
    BY <1>1, <2>5 DEF Filters
  <2>8. f[m] = IF q[m] \in S THEN Append(f[m - 1], q[m]) ELSE f[m - 1]
    BY <1>1, <2>5 DEF Filters
  <2> QED BY <2>3, <2>5, <2>6, <2>7, <2>8, FilteredStep
<1>4. n \in 0..n /\ f[n] = Among(q, S) /\ f[n] \in Seq(T)
  BY <1>1, <1>2 DEF Filters
<1>5. Filtered(Among(q, S), q, S, n)
  BY <1>3, <1>4
<1> DEFINE r == Among(q, S)
<1>6. Len(r) \in Nat /\ DOMAIN r = 1..Len(r) /\ r \in Seq(T)
  BY <1>4, LenProperties
<1> HIDE DEF r, n, Bad
<1>7. Filtered(r, q, S, n)
  BY <1>5 DEF r
<1>8. Embeds(r, q)
  <2> SUFFICES ASSUME NEW a \in DOMAIN r, NEW b \in DOMAIN r, a < b
               PROVE  \E k, l \in DOMAIN q : k < l /\ r[a] = q[k] /\ r[b] = q[l]
    BY DEF Embeds
  <2>1. a \in 1..Len(r) /\ b \in 1..Len(r)
    BY <1>6
  <2>2. PICK k \in 1..n, l \in 1..n : k < l /\ r[a] = q[k] /\ r[b] = q[l]
    BY <1>7, <2>1 DEF Filtered
  <2> QED BY <1>2, <2>2
<1>9. Range(r) = Range(q) \cap S
  <2>1. ASSUME NEW a \in DOMAIN r PROVE r[a] \in Range(q) \cap S
    <3>1. PICK k \in 1..n : r[a] = q[k] /\ q[k] \in S
      BY <1>6, <1>7 DEF Filtered
    <3> QED BY <1>2, <3>1 DEF Range
  <2>2. ASSUME NEW k \in DOMAIN q, q[k] \in S PROVE q[k] \in Range(r)
    <3>1. PICK a \in 1..Len(r) : r[a] = q[k]
      BY <1>2, <1>7, <2>2 DEF Filtered
    <3> QED BY <1>6, <3>1 DEF Range
  <2>3. \A x : x \in Range(r) => x \in Range(q) \cap S
    BY <2>1 DEF Range
  <2>4. \A x : x \in Range(q) /\ x \in S => x \in Range(r)
    BY <2>2 DEF Range
  <2> QED BY <2>3, <2>4
<1>10. ASSUME IsInjective(q) PROVE IsInjective(r)
  <2> SUFFICES ASSUME NEW i \in DOMAIN r, NEW j \in DOMAIN r, r[i] = r[j], i # j
               PROVE  FALSE
    BY DEF IsInjective
  <2>1. \A k, l \in DOMAIN q : q[k] = q[l] => k = l
    BY <1>10 DEF IsInjective
  <2>2. \A a, b \in DOMAIN r : a < b => r[a] # r[b]
    BY <1>2, <1>8, <2>1 DEF Embeds
  <2>3. i < j \/ j < i
    BY <1>6
  <2> QED BY <2>2, <2>3
<1> QED BY <1>6, <1>8, <1>9, <1>10 DEF r

\* A list with RT_IPC_FLAG_PRIO.
Ordered(q, pr) == \A i, j \in DOMAIN q : i < j => pr[q[i]] <= pr[q[j]]

LEMMA OrderedPart ==
    ASSUME NEW q, NEW r, NEW pr, Ordered(q, pr), Embeds(r, q)
    PROVE  Ordered(r, pr)
<1> SUFFICES ASSUME NEW i \in DOMAIN r, NEW j \in DOMAIN r, i < j
             PROVE  pr[r[i]] <= pr[r[j]]
  BY DEF Ordered
<1>1. PICK k \in DOMAIN q, l \in DOMAIN q : k < l /\ r[i] = q[k] /\ r[j] = q[l]
  BY DEF Embeds
<1> QED BY <1>1 DEF Ordered

LEMMA RemovedEmbeds ==
    ASSUME NEW T, NEW q \in Seq(T), NEW e
    PROVE  Embeds(RemoveFirst(q, e), q)
<1>1. CASE e \notin Range(q)
  <2>1. RemoveFirst(q, e) = q
    BY <1>1, RemoveAbsent
  <2> QED BY <2>1 DEF Embeds
<1>2. CASE e \in Range(q)
  <2>1. PICK k \in 1..Len(q) : q[k] = e /\ RemoveFirst(q, e) = RemoveAt(q, k)
    BY <1>2, RemoveFirstAt
  <2> DEFINE r == RemoveAt(q, k)
             n == Len(q) - 1
  <2>2. /\ r \in Seq(T) /\ Len(r) = n
        /\ \A i \in 1..n : r[i] = IF i < k THEN q[i] ELSE q[i+1]
    BY RemoveAtElements
  <2>3. Len(q) \in Nat /\ DOMAIN q = 1..Len(q) /\ DOMAIN r = 1..n
    BY <2>2, LenProperties
  <2> HIDE DEF r
  <2> SUFFICES Embeds(r, q)
    BY <2>1 DEF r
  <2> SUFFICES ASSUME NEW i \in 1..n, NEW j \in 1..n, i < j
               PROVE  \E a, b \in 1..Len(q) : a < b /\ r[i] = q[a] /\ r[j] = q[b]
    BY <2>3 DEF Embeds
  <2>4. r[i] = IF i < k THEN q[i] ELSE q[i+1]
    BY <2>2
  <2>5. r[j] = IF j < k THEN q[j] ELSE q[j+1]
    BY <2>2
  <2>6. i \in 1..Len(q) /\ i+1 \in 1..Len(q) /\ j \in 1..Len(q) /\ j+1 \in 1..Len(q)
        /\ i < j /\ i < j + 1 /\ i + 1 < j + 1
    BY <2>3
  <2>7. CASE j < k
    BY <2>3, <2>4, <2>5, <2>6, <2>7
  <2>8. CASE ~(j < k) /\ i < k
    BY <2>4, <2>5, <2>6, <2>8
  <2>9. CASE ~(j < k) /\ ~(i < k)
    BY <2>4, <2>5, <2>6, <2>9
  <2> QED BY <2>7, <2>8, <2>9
<1> QED BY <1>1, <1>2

LEMMA TailEmbeds ==
    ASSUME NEW T, NEW q \in Seq(T), q # <<>>
    PROVE  Embeds(Tail(q), q)
<1>1. /\ Tail(q) \in Seq(T) /\ Len(Tail(q)) = Len(q) - 1
      /\ \A i \in 1..Len(Tail(q)) : Tail(q)[i] = q[i + 1]
  BY HeadTailProperties
<1>2. Len(q) \in Nat /\ DOMAIN q = 1..Len(q) /\ DOMAIN Tail(q) = 1..Len(q)-1
  BY <1>1, LenProperties
<1> SUFFICES ASSUME NEW i \in 1..Len(q)-1, NEW j \in 1..Len(q)-1, i < j
             PROVE  \E k, l \in 1..Len(q) : k < l /\ Tail(q)[i] = q[k] /\ Tail(q)[j] = q[l]
  BY <1>2 DEF Embeds
<1>3. Tail(q)[i] = q[i + 1] /\ Tail(q)[j] = q[j + 1]
  BY <1>1
<1>4. i + 1 \in 1..Len(q) /\ j + 1 \in 1..Len(q) /\ i + 1 < j + 1
  BY <1>2
<1> QED BY <1>3, <1>4

\* Appending the lowest priority keeps the order.
LEMMA AppendOrdered ==
    ASSUME NEW q \in Seq(Threads), NEW t \in Threads, NEW pr \in [Threads -> Prios],
           Ordered(q, pr), \A i \in DOMAIN q : pr[q[i]] <= pr[t]
    PROVE  Ordered(Append(q, t), pr)
<1> DEFINE r == Append(q, t)
           n == Len(q)
<1>1. /\ r \in Seq(Threads) /\ Len(r) = n + 1 /\ r[n + 1] = t
      /\ \A i \in 1..n : r[i] = q[i]
  BY AppendProperties
<1>2. n \in Nat /\ DOMAIN q = 1..n /\ DOMAIN r = 1..n+1
  BY <1>1, LenProperties
<1> HIDE DEF r, n
<1> SUFFICES ASSUME NEW i \in 1..n+1, NEW j \in 1..n+1, i < j
             PROVE  pr[r[i]] <= pr[r[j]]
  BY <1>2 DEF Ordered, r
<1>3. i \in 1..n /\ (j \in 1..n \/ j = n + 1)
  BY <1>2
<1>4. CASE j \in 1..n
  BY <1>1, <1>2, <1>3, <1>4 DEF Ordered
<1>5. CASE j = n + 1
  BY <1>1, <1>2, <1>3, <1>5
<1> QED BY <1>3, <1>4, <1>5

\* What an insertion in the middle makes of a sequence.
LEMMA InsertAtElements ==
    ASSUME NEW S, NEW s \in Seq(S), NEW k \in 1..Len(s), NEW e \in S
    PROVE  /\ InsertAt(s, k, e) \in Seq(S) /\ Len(InsertAt(s, k, e)) = Len(s) + 1
           /\ \A i \in 1..Len(s)+1 : InsertAt(s, k, e)[i] =
                 IF i < k THEN s[i] ELSE IF i = k THEN e ELSE s[i - 1]
<1> DEFINE a == SubSeq(s, 1, k - 1)
           b == SubSeq(s, k, Len(s))
<1>1. Len(s) \in Nat /\ k \in Nat /\ 1 <= k /\ k <= Len(s)
  BY LenProperties
<1>2. /\ a \in Seq(S) /\ Len(a) = k - 1
      /\ \A i \in 1..k-1 : a[i] = s[i]
  BY <1>1, SubSeqProperties, ElementOfSeq
<1>3. /\ b \in Seq(S) /\ Len(b) = Len(s) - k + 1
      /\ \A i \in 1..Len(s)-k+1 : b[i] = s[k+i-1]
  <2>1. \A i \in k..Len(s) : s[i] \in S
    BY <1>1, ElementOfSeq
  <2> QED BY <1>1, <2>1, SubSeqProperties
<1>4. InsertAt(s, k, e) = (a \o <<e>>) \o b
  BY DEF InsertAt
<1> HIDE DEF a, b
<1> DEFINE c == a \o <<e>>
<1>5. <<e>> \in Seq(S) /\ Len(<<e>>) = 1 /\ <<e>>[1] = e
  OBVIOUS
<1>6. /\ c \in Seq(S) /\ Len(c) = k
      /\ \A i \in 1..k : c[i] = IF i <= k - 1 THEN a[i] ELSE <<e>>[i - (k - 1)]
  <2>1. /\ c \in Seq(S) /\ Len(c) = Len(a) + 1
        /\ \A i \in 1..Len(a)+1 : c[i] = IF i <= Len(a) THEN a[i] ELSE <<e>>[i - Len(a)]
    BY <1>2, <1>5, ConcatProperties
  <2> HIDE DEF c
  <2> QED BY <1>1, <1>2, <2>1
<1> HIDE DEF c
<1>7. /\ c \o b \in Seq(S) /\ Len(c \o b) = Len(c) + Len(b)
      /\ \A i \in 1..Len(c)+Len(b) : (c \o b)[i] = IF i <= Len(c) THEN c[i] ELSE b[i - Len(c)]
  BY <1>3, <1>6, ConcatProperties
<1>8. Len(c) + Len(b) = Len(s) + 1
  BY <1>1, <1>3, <1>6
<1>9. ASSUME NEW i \in 1..Len(s)+1
      PROVE  (c \o b)[i] = IF i < k THEN s[i] ELSE IF i = k THEN e ELSE s[i - 1]
  <2>1. CASE i < k
    <3>1. i \in 1..k /\ i \in 1..k-1 /\ i <= k - 1 /\ i <= Len(c)
      BY <1>1, <1>6, <2>1
    <3> QED BY <1>2, <1>6, <1>7, <1>8, <2>1, <3>1
  <2>2. CASE i = k
    <3>1. i \in 1..k /\ ~(i <= k - 1) /\ i <= Len(c) /\ i - (k - 1) = 1
      BY <1>1, <1>6, <2>2
    <3> QED BY <1>5, <1>6, <1>7, <1>8, <2>2, <3>1
  <2>3. CASE i > k
    <3>1. ~(i <= Len(c)) /\ i - k \in 1..Len(s)-k+1 /\ k + (i - k) - 1 = i - 1
      BY <1>1, <1>6, <2>3
    <3>2. (c \o b)[i] = b[i - k]
      BY <1>6, <1>7, <1>8, <3>1
    <3> QED BY <1>1, <1>3, <2>3, <3>1, <3>2
  <2>4. i < k \/ i = k \/ i > k
    BY <1>1
  <2> QED BY <2>1, <2>2, <2>3, <2>4
<1>10. InsertAt(s, k, e) = c \o b
  BY <1>4 DEF c
<1> QED BY <1>7, <1>8, <1>9, <1>10

\* What an insertion in the middle adds, and where the order allows it.
LEMMA InsertAtIs ==
    ASSUME NEW q \in Seq(Threads), NEW k \in 1..Len(q), NEW t \in Threads
    PROVE  /\ InsertAt(q, k, t) \in Seq(Threads)
           /\ Range(InsertAt(q, k, t)) = Range(q) \cup {t}
           /\ IsInjective(q) /\ t \notin Range(q) => IsInjective(InsertAt(q, k, t))
           /\ \A pr \in [Threads -> Prios] :
                 /\ Ordered(q, pr)
                 /\ \A i \in 1..k-1 : pr[q[i]] <= pr[t]
                 /\ \A i \in k..Len(q) : pr[t] <= pr[q[i]]
                 => Ordered(InsertAt(q, k, t), pr)
<1> DEFINE r == InsertAt(q, k, t)
           n == Len(q)
<1>1. /\ r \in Seq(Threads) /\ Len(r) = n + 1
      /\ \A i \in 1..n+1 : r[i] = IF i < k THEN q[i] ELSE IF i = k THEN t ELSE q[i - 1]
  BY InsertAtElements
<1>2. n \in Nat /\ k \in 1..n /\ DOMAIN q = 1..n /\ DOMAIN r = 1..n+1
  BY <1>1, LenProperties
<1> HIDE DEF r, n
<1>3. ASSUME NEW i \in 1..n+1
      PROVE  \/ i < k /\ i \in 1..n /\ r[i] = q[i]
             \/ i = k /\ r[i] = t
             \/ i > k /\ i - 1 \in 1..n /\ r[i] = q[i - 1]
  BY <1>1, <1>2
<1>4. Range(r) = Range(q) \cup {t}
  <2>1. \A i \in 1..n+1 : r[i] \in Range(q) \cup {t}
    BY <1>2, <1>3 DEF Range
  <2>2. ASSUME NEW i \in 1..n PROVE q[i] \in Range(r)
    <3>1. CASE i < k
      <4>1. i \in 1..n+1 /\ r[i] = q[i]
        BY <1>1, <1>2, <3>1
      <4> QED BY <1>2, <4>1 DEF Range
    <3>2. CASE ~(i < k)
      <4>1. i + 1 \in 1..n+1 /\ ~(i + 1 < k) /\ i + 1 # k /\ (i + 1) - 1 = i
        BY <1>2, <3>2
      <4>2. r[i + 1] = q[i]
        BY <1>1, <4>1
      <4> QED BY <1>2, <4>1, <4>2 DEF Range
    <3> QED BY <3>1, <3>2
  <2>3. k \in 1..n+1 /\ r[k] = t
    BY <1>1, <1>2
  <2>4. t \in Range(r)
    BY <1>2, <2>3 DEF Range
  <2>5. \A x : x \in Range(r) => x \in Range(q) \cup {t}
    BY <1>2, <2>1 DEF Range
  <2>6. \A x : x \in Range(q) => x \in Range(r)
    BY <1>2, <2>2 DEF Range
  <2> QED BY <2>4, <2>5, <2>6
<1>5. ASSUME IsInjective(q), t \notin Range(q) PROVE IsInjective(r)
  <2>1. \A i, j \in 1..n : q[i] = q[j] => i = j
    BY <1>2, <1>5 DEF IsInjective
  <2>2. \A i \in 1..n : q[i] # t
    BY <1>2, <1>5 DEF Range
  <2> SUFFICES ASSUME NEW i \in 1..n+1, NEW j \in 1..n+1, r[i] = r[j] PROVE i = j
    BY <1>2 DEF IsInjective
  <2>3. \/ i < k /\ i \in 1..n /\ r[i] = q[i]
        \/ i = k /\ r[i] = t
        \/ i > k /\ i - 1 \in 1..n /\ r[i] = q[i - 1]
    BY <1>3
  <2>4. \/ j < k /\ j \in 1..n /\ r[j] = q[j]
        \/ j = k /\ r[j] = t
        \/ j > k /\ j - 1 \in 1..n /\ r[j] = q[j - 1]
    BY <1>3
  <2> QED BY <1>2, <2>1, <2>2, <2>3, <2>4
<1>6. ASSUME NEW pr \in [Threads -> Prios], Ordered(q, pr),
             \A i \in 1..k-1 : pr[q[i]] <= pr[t], \A i \in k..n : pr[t] <= pr[q[i]]
      PROVE  Ordered(r, pr)
  <2> SUFFICES ASSUME NEW i \in 1..n+1, NEW j \in 1..n+1, i < j PROVE pr[r[i]] <= pr[r[j]]
    BY <1>2 DEF Ordered
  <2>1. \A a, b \in 1..n : a < b => pr[q[a]] <= pr[q[b]]
    BY <1>2, <1>6 DEF Ordered
  <2>2. CASE j < k
    <3>1. i \in 1..n /\ j \in 1..n /\ r[i] = q[i] /\ r[j] = q[j]
      BY <1>1, <1>2, <2>2
    <3> QED BY <2>1, <3>1
  <2>3. CASE j = k
    <3>1. i \in 1..k-1 /\ r[i] = q[i] /\ r[j] = t
      BY <1>1, <1>2, <2>3
    <3> QED BY <1>6, <3>1
  <2>4. CASE j > k /\ i < k
    <3>2. r[i] = q[i] /\ r[j] = q[j - 1] /\ i \in 1..k-1 /\ j - 1 \in k..n
      BY <1>1, <1>2, <2>4
    <3>3. i < j - 1 /\ i \in 1..n /\ j - 1 \in 1..n
      BY <1>2, <2>4
    <3> QED BY <2>1, <3>2, <3>3
  <2>5. CASE j > k /\ i = k
    <3>1. r[i] = t /\ r[j] = q[j - 1] /\ j - 1 \in k..n
      BY <1>1, <1>2, <2>5
    <3> QED BY <1>6, <3>1
  <2>6. CASE j > k /\ i > k
    <3>1. /\ r[i] = q[i - 1] /\ r[j] = q[j - 1] /\ i - 1 \in 1..n
          /\ j - 1 \in 1..n /\ i - 1 < j - 1
      BY <1>1, <1>2, <2>6
    <3> QED BY <2>1, <3>1
  <2> QED BY <1>2, <2>2, <2>3, <2>4, <2>5, <2>6
<1> QED BY <1>1, <1>4, <1>5, <1>6 DEF r, n

\* rt_ipc_list_suspend puts the thread in the list, once, and keeps the order of a
\* list with RT_IPC_FLAG_PRIO.
LEMMA EnqueuedInIs ==
    ASSUME current_priority \in [Threads -> Prios], NEW q \in Seq(Threads),
           NEW t \in Threads, NEW l
    PROVE  /\ EnqueuedIn(q, t, l \in Fifo) \in Seq(Threads)
           /\ Range(EnqueuedIn(q, t, l \in Fifo)) = Range(q) \cup {t}
           /\ IsInjective(q) /\ t \notin Range(q) => IsInjective(EnqueuedIn(q, t, l \in Fifo))
           /\ l \notin Fifo /\ Ordered(q, current_priority)
                 => Ordered(EnqueuedIn(q, t, l \in Fifo), current_priority)
<1> DEFINE pr == current_priority
           later == {i \in DOMAIN q : pr[t] < pr[q[i]]}
           k == Min(later)
           r == EnqueuedIn(q, t, l \in Fifo)
<1>1. Len(q) \in Nat /\ DOMAIN q = 1..Len(q) /\ \A i \in 1..Len(q) : q[i] \in Threads
  BY LenProperties, ElementOfSeq
<1>2. pr[t] \in Prios /\ \A i \in 1..Len(q) : pr[q[i]] \in Prios
  BY <1>1
<1>3. PrioMax \in Nat
  BY KernelAssumption
<1> SUFFICES /\ r \in Seq(Threads) /\ Range(r) = Range(q) \cup {t}
             /\ IsInjective(q) /\ t \notin Range(q) => IsInjective(r)
             /\ l \notin Fifo /\ Ordered(q, pr) => Ordered(r, pr)
  OBVIOUS
<1>4. CASE l \in Fifo \/ later = {}
  <2>1. r = Append(q, t)
    BY <1>4 DEF EnqueuedIn
  <2> HIDE DEF r
  <2>2. Append(q, t) \in Seq(Threads)
    BY AppendProperties
  <2>3. ASSUME l \notin Fifo PROVE \A i \in DOMAIN q : pr[q[i]] <= pr[t]
    <3>1. \A i \in DOMAIN q : ~(pr[t] < pr[q[i]])
      BY <1>4, <2>3
    <3> QED BY <1>1, <1>2, <1>3, <3>1 DEF Prios
  <2>4. l \notin Fifo /\ Ordered(q, pr) => Ordered(Append(q, t), pr)
    BY <2>3, AppendOrdered
  <2> QED BY <2>1, <2>2, <2>4, AppendRange
<1>5. CASE l \notin Fifo /\ later # {}
  <2>1. r = InsertAt(q, k, t)
    BY <1>5 DEF EnqueuedIn
  <2> HIDE DEF r
  <2>2. later \in SUBSET Nat
    BY <1>1
  <2>3. k \in later /\ \A y \in later : k <= y
    <3> HIDE DEF later
    <3>1. \E x \in later : \A y \in later : x <= y
      BY <1>5, <2>2, HasMinimum
    <3> QED BY <3>1 DEF Min
  <2> HIDE DEF k
  <2>4. k \in 1..Len(q) /\ pr[t] < pr[q[k]]
    BY <1>1, <2>3
  <2>5. ASSUME Ordered(q, pr)
        PROVE  /\ \A i \in 1..k-1 : pr[q[i]] <= pr[t]
               /\ \A i \in k..Len(q) : pr[t] <= pr[q[i]]
    <3>1. ASSUME NEW i \in 1..k-1 PROVE pr[q[i]] <= pr[t]
      <4>1. i \in 1..Len(q) /\ ~(k <= i)
        BY <1>1, <2>4
      <4>2. ~(pr[t] < pr[q[i]])
        BY <1>1, <2>3, <4>1
      <4> QED BY <1>2, <1>3, <4>1, <4>2 DEF Prios
    <3>2. ASSUME NEW i \in k..Len(q) PROVE pr[t] <= pr[q[i]]
      <4>1. i \in 1..Len(q) /\ (i = k \/ k < i)
        BY <1>1, <2>4
      <4>2. pr[q[k]] <= pr[q[i]]
        BY <1>1, <1>2, <1>3, <2>4, <2>5, <4>1 DEF Ordered, Prios
      <4> QED BY <1>2, <1>3, <2>4, <4>1, <4>2 DEF Prios
    <3> QED BY <3>1, <3>2
  <2>6. /\ InsertAt(q, k, t) \in Seq(Threads)
        /\ Range(InsertAt(q, k, t)) = Range(q) \cup {t}
        /\ IsInjective(q) /\ t \notin Range(q) => IsInjective(InsertAt(q, k, t))
    BY <2>4, InsertAtIs
  <2>7. Ordered(q, pr) => Ordered(InsertAt(q, k, t), pr)
    <3> HIDE DEF later
    <3>1. pr \in [Threads -> Prios]
      OBVIOUS
    <3> HIDE DEF pr
    <3> QED BY <2>4, <2>5, <3>1, InsertAtIs
  <2> QED BY <1>5, <2>1, <2>6, <2>7
<1> QED BY <1>4, <1>5

\* Two lists with nothing in common, one behind the other.
LEMMA ConcatRange ==
    ASSUME NEW S, NEW a \in Seq(S), NEW b \in Seq(S), IsInjective(a), IsInjective(b),
           Range(a) \cap Range(b) = {}
    PROVE  /\ a \o b \in Seq(S) /\ IsInjective(a \o b)
           /\ Range(a \o b) = Range(a) \cup Range(b)
<1> DEFINE c == a \o b
           m == Len(a)
           n == Len(b)
<1>1. /\ c \in Seq(S) /\ Len(c) = m + n
      /\ \A i \in 1..m+n : c[i] = IF i <= m THEN a[i] ELSE b[i - m]
  BY ConcatProperties
<1>2. m \in Nat /\ n \in Nat /\ DOMAIN a = 1..m /\ DOMAIN b = 1..n /\ DOMAIN c = 1..m+n
  BY <1>1, LenProperties
<1> HIDE DEF c, m, n
<1>3. ASSUME NEW i \in 1..m+n
      PROVE  \/ i \in 1..m /\ c[i] = a[i]
             \/ i - m \in 1..n /\ c[i] = b[i - m] /\ ~(i <= m)
  BY <1>1, <1>2
<1>4. \A i \in 1..m, j \in 1..n : a[i] # b[j]
  BY <1>2 DEF Range
<1>5. IsInjective(c)
  <2> SUFFICES ASSUME NEW i \in 1..m+n, NEW j \in 1..m+n, c[i] = c[j] PROVE i = j
    BY <1>2 DEF IsInjective
  <2>1. \A k, l \in 1..m : a[k] = a[l] => k = l
    BY <1>2 DEF IsInjective
  <2>2. \A k, l \in 1..n : b[k] = b[l] => k = l
    BY <1>2 DEF IsInjective
  <2>3. \/ i \in 1..m /\ c[i] = a[i]
        \/ i - m \in 1..n /\ c[i] = b[i - m] /\ ~(i <= m)
    BY <1>3
  <2>4. \/ j \in 1..m /\ c[j] = a[j]
        \/ j - m \in 1..n /\ c[j] = b[j - m] /\ ~(j <= m)
    BY <1>3
  <2>5. CASE i \in 1..m /\ j \in 1..m
    BY <1>2, <2>1, <2>3, <2>4, <2>5
  <2>6. CASE ~(i \in 1..m) /\ ~(j \in 1..m)
    <3>1. i - m = j - m
      BY <2>2, <2>3, <2>4, <2>6
    <3> QED BY <1>2, <3>1
  <2>7. CASE i \in 1..m /\ ~(j \in 1..m)
    BY <1>2, <1>4, <2>3, <2>4, <2>7
  <2>8. CASE ~(i \in 1..m) /\ j \in 1..m
    BY <1>2, <1>4, <2>3, <2>4, <2>8
  <2> QED BY <2>5, <2>6, <2>7, <2>8
<1>6. Range(c) = Range(a) \cup Range(b)
  <2>1. \A i \in 1..m+n : c[i] \in Range(a) \cup Range(b)
    BY <1>2, <1>3 DEF Range
  <2>2. ASSUME NEW i \in 1..m PROVE a[i] \in Range(c)
    <3>1. i \in 1..m+n /\ i <= m
      BY <1>2
    <3>2. c[i] = a[i]
      BY <1>1, <3>1
    <3> QED BY <1>2, <3>1, <3>2 DEF Range
  <2>3. ASSUME NEW i \in 1..n PROVE b[i] \in Range(c)
    <3>1. m + i \in 1..m+n /\ ~(m + i <= m) /\ (m + i) - m = i
      BY <1>2
    <3>2. c[m + i] = b[i]
      BY <1>1, <3>1
    <3> QED BY <1>2, <3>1, <3>2 DEF Range
  <2>4. \A x : x \in Range(c) => x \in Range(a) \cup Range(b)
    BY <1>2, <2>1 DEF Range
  <2>5. \A x : x \in Range(a) => x \in Range(c)
    BY <1>2, <2>2 DEF Range
  <2>6. \A x : x \in Range(b) => x \in Range(c)
    BY <1>2, <2>3 DEF Range
  <2> QED BY <2>4, <2>5, <2>6
<1> QED BY <1>1, <1>5, <1>6 DEF c

-----------------------------------------------------------------------------
(* The ready queue that table and group describe, under the states st and   *)
(* the priorities pr.  One masked section may change it in several steps,   *)
(* each of which is a lemma.                                                *)

QueueOK(st, pr, table, group) ==
    /\ table \in [Prios -> Seq(Threads)] /\ group \subseteq Prios
    /\ \A p \in Prios : IsInjective(table[p])
    /\ \A p \in Prios : \A t \in Range(table[p]) : st[t] = "READY" /\ pr[t] = p
    /\ \A t \in Threads : st[t] = "READY" => t \in Range(table[pr[t]])
    /\ \A p \in Prios : p \in group <=> table[p] # <<>>

\* A thread leaves the queue.
LEMMA QueueWithout ==
    ASSUME NEW st \in [Threads -> Stats], NEW pr \in [Threads -> Prios],
           NEW table, NEW group, QueueOK(st, pr, table, group),
           NEW t \in Threads, st[t] = "READY"
    PROVE  QueueOK([st EXCEPT ![t] = "SUSPEND"], pr, Unlinked(table, t),
                   IF Unlinked(table, t)[pr[t]] = <<>> THEN group \ {pr[t]} ELSE group)
<1> DEFINE r == Unlinked(table, t)
           g == IF r[pr[t]] = <<>> THEN group \ {pr[t]} ELSE group
           s == [st EXCEPT ![t] = "SUSPEND"]
<1>1. table \in [Prios -> Seq(Threads)] /\ group \subseteq Prios
  BY DEF QueueOK
<1>2. r \in [Prios -> Seq(Threads)]
  BY <1>1, UnlinkedType
<1>3. \A p \in Prios : r[p] = RemoveFirst(table[p], t)
  BY <1>1 DEF Unlinked
<1>4. \A p \in Prios : IsInjective(r[p]) /\ Range(r[p]) = Range(table[p]) \ {t}
  BY <1>1, <1>3, RemoveFirstRange DEF QueueOK
<1>5. \A p \in Prios : r[p] = <<>> <=> Range(r[p]) = {}
  BY <1>2, EmptyRange
<1>6. \A p \in Prios : table[p] = <<>> <=> Range(table[p]) = {}
  BY <1>1, EmptyRange
<1> HIDE DEF r
<1>7. \A p \in Prios : \A u \in Range(r[p]) : s[u] = "READY" /\ pr[u] = p
  <2> TAKE p \in Prios
  <2> TAKE u \in Range(r[p])
  <2>1. u \in Range(table[p]) /\ u # t
    BY <1>4
  <2>2. st[u] = "READY" /\ pr[u] = p
    BY <2>1 DEF QueueOK
  <2> QED BY <2>1, <2>2
<1>8. \A u \in Threads : s[u] = "READY" => u \in Range(r[pr[u]])
  <2> SUFFICES ASSUME NEW u \in Threads, s[u] = "READY" PROVE u \in Range(r[pr[u]])
    OBVIOUS
  <2>1. u # t /\ st[u] = "READY" /\ pr[u] \in Prios
    BY DEF Stats
  <2>2. u \in Range(table[pr[u]])
    BY <2>1 DEF QueueOK
  <2> QED BY <1>4, <2>1, <2>2
<1>9. \A p \in Prios : p \in g <=> r[p] # <<>>
  <2> TAKE p \in Prios
  <2>1. p \in group <=> table[p] # <<>>
    BY DEF QueueOK
  <2>2. CASE p = pr[t]
    <3>1. r[p] # <<>> => table[p] # <<>>
      BY <1>4, <1>5, <1>6
    <3>2. st[t] = "READY" => t \in Range(table[pr[t]])
      BY DEF QueueOK
    <3>3. table[p] # <<>>
      BY <1>6, <2>2, <3>2
    <3> QED BY <2>1, <2>2, <3>1, <3>3
  <2>3. CASE p # pr[t]
    <3>1. t \notin Range(table[p])
      BY <2>3 DEF QueueOK
    <3>2. Range(r[p]) = Range(table[p])
      BY <1>4, <3>1
    <3>3. p \in g <=> p \in group
      BY <2>3
    <3> QED BY <1>5, <1>6, <2>1, <3>2, <3>3
  <2> QED BY <2>2, <2>3
<1>10. g \subseteq Prios
  BY <1>1
<1> QED BY <1>2, <1>4, <1>7, <1>8, <1>9, <1>10 DEF QueueOK, r

\* A thread joins the queue.
LEMMA QueueWith ==
    ASSUME NEW st \in [Threads -> Stats], NEW pr \in [Threads -> Prios],
           NEW table, NEW group, QueueOK(st, pr, table, group),
           NEW t \in Threads, st[t] # "READY"
    PROVE  QueueOK([st EXCEPT ![t] = "READY"], pr,
                   [table EXCEPT ![pr[t]] = Append(@, t)], group \cup {pr[t]})
<1> DEFINE r == [table EXCEPT ![pr[t]] = Append(@, t)]
           s == [st EXCEPT ![t] = "READY"]
<1>1. table \in [Prios -> Seq(Threads)] /\ group \subseteq Prios /\ pr[t] \in Prios
  BY DEF QueueOK
<1>2. r \in [Prios -> Seq(Threads)]
  BY <1>1, InsertedType
<1>3. /\ \A p \in Prios : p # pr[t] => r[p] = table[p]
      /\ r[pr[t]] = Append(table[pr[t]], t)
  BY <1>1
<1> HIDE DEF r
<1>4. \A p \in Prios : t \notin Range(table[p])
  BY DEF QueueOK
<1>5. /\ Range(r[pr[t]]) = Range(table[pr[t]]) \cup {t}
      /\ IsInjective(r[pr[t]])
  <2>1. IsInjective(table[pr[t]]) /\ table[pr[t]] \in Seq(Threads)
    BY <1>1 DEF QueueOK
  <2> QED BY <1>1, <1>3, <1>4, <2>1, AppendRange
<1>6. \A p \in Prios : IsInjective(r[p])
  BY <1>3, <1>5 DEF QueueOK
<1>7. \A p \in Prios : \A u \in Range(r[p]) : s[u] = "READY" /\ pr[u] = p
  <2> TAKE p \in Prios
  <2> TAKE u \in Range(r[p])
  <2>1. CASE u = t
    <3>1. p = pr[t]
      BY <1>3, <1>4, <2>1
    <3> QED BY <2>1, <3>1
  <2>2. CASE u # t
    <3>1. u \in Range(table[p])
      BY <1>3, <1>5, <2>2
    <3>2. st[u] = "READY" /\ pr[u] = p
      BY <3>1 DEF QueueOK
    <3> QED BY <2>2, <3>2
  <2> QED BY <2>1, <2>2
<1>8. \A u \in Threads : s[u] = "READY" => u \in Range(r[pr[u]])
  <2> SUFFICES ASSUME NEW u \in Threads, s[u] = "READY" PROVE u \in Range(r[pr[u]])
    OBVIOUS
  <2>1. CASE u = t
    BY <1>5, <2>1
  <2>2. CASE u # t
    <3>1. st[u] = "READY" /\ pr[u] \in Prios
      BY <2>2
    <3>2. u \in Range(table[pr[u]])
      BY <3>1 DEF QueueOK
    <3> QED BY <1>3, <1>5, <3>1, <3>2
  <2> QED BY <2>1, <2>2
<1>9. \A p \in Prios : p \in group \cup {pr[t]} <=> r[p] # <<>>
  <2> TAKE p \in Prios
  <2>1. p \in group <=> table[p] # <<>>
    BY DEF QueueOK
  <2>2. CASE p = pr[t]
    <3>1. Range(r[p]) # {}
      BY <1>5, <2>2
    <3>2. r[p] # <<>>
      BY <1>2, <3>1, EmptyRange
    <3> QED BY <2>2, <3>2
  <2>3. CASE p # pr[t]
    BY <1>3, <2>1, <2>3
  <2> QED BY <2>2, <2>3
<1> QED BY <1>1, <1>2, <1>6, <1>7, <1>8, <1>9 DEF QueueOK, r

\* The priority of a thread that is not in it does not matter.
LEMMA QueueApart ==
    ASSUME NEW st \in [Threads -> Stats], NEW pr \in [Threads -> Prios],
           NEW table, NEW group, QueueOK(st, pr, table, group),
           NEW t \in Threads, st[t] # "READY", NEW p \in Prios
    PROVE  QueueOK(st, [pr EXCEPT ![t] = p], table, group)
<1> DEFINE r == [pr EXCEPT ![t] = p]
<1>1. \A q \in Prios : \A u \in Range(table[q]) : st[u] = "READY" /\ r[u] = q
  <2> TAKE q \in Prios
  <2> TAKE u \in Range(table[q])
  <2>1. st[u] = "READY" /\ pr[u] = q
    BY DEF QueueOK
  <2>2. u # t
    BY <2>1
  <2>3. u \in Threads
    <3>1. table[q] \in Seq(Threads)
      BY DEF QueueOK
    <3> QED BY <3>1, ElementOfSeq, LenProperties DEF Range
  <2> QED BY <2>1, <2>2, <2>3
<1>2. \A u \in Threads : st[u] = "READY" => u \in Range(table[r[u]])
  BY DEF QueueOK
<1> QED BY <1>1, <1>2 DEF QueueOK

\* A thread goes to the tail of the list of another, or of its own, priority.
LEMMA QueueMoved ==
    ASSUME NEW st \in [Threads -> Stats], NEW pr \in [Threads -> Prios],
           NEW table, NEW group, QueueOK(st, pr, table, group),
           NEW t \in Threads, st[t] = "READY", NEW p \in Prios
    PROVE  QueueOK(st, [pr EXCEPT ![t] = p], [Unlinked(table, t) EXCEPT ![p] = Append(@, t)],
                   (IF Unlinked(table, t)[pr[t]] = <<>> THEN group \ {pr[t]} ELSE group)
                   \cup {p})
<1> DEFINE s == [st EXCEPT ![t] = "SUSPEND"]
           r == Unlinked(table, t)
           g == IF r[pr[t]] = <<>> THEN group \ {pr[t]} ELSE group
           q == [pr EXCEPT ![t] = p]
<1>1. QueueOK(s, pr, r, g)
  BY QueueWithout
<1>2. s \in [Threads -> Stats] /\ s[t] # "READY" /\ q \in [Threads -> Prios] /\ q[t] = p
  BY DEF Stats
<1>3. [s EXCEPT ![t] = "READY"] = st
  OBVIOUS
<1> HIDE DEF r, g, s
<1>4. QueueOK(s, q, r, g)
  BY <1>1, <1>2, QueueApart
<1> HIDE DEF q
<1>5. QueueOK([s EXCEPT ![t] = "READY"], q, [r EXCEPT ![q[t]] = Append(@, t)], g \cup {q[t]})
  BY <1>2, <1>4, QueueWith
<1> QED BY <1>2, <1>3, <1>5 DEF r, g, q

\* A thread goes to the tail of its list.
LEMMA QueueRotated ==
    ASSUME NEW st \in [Threads -> Stats], NEW pr \in [Threads -> Prios],
           NEW table, NEW group, QueueOK(st, pr, table, group),
           NEW t \in Threads, st[t] = "READY"
    PROVE  QueueOK(st, pr, [Unlinked(table, t) EXCEPT ![pr[t]] = Append(@, t)], group)
<1> DEFINE r == [Unlinked(table, t) EXCEPT ![pr[t]] = Append(@, t)]
           g == (IF Unlinked(table, t)[pr[t]] = <<>> THEN group \ {pr[t]} ELSE group)
                \cup {pr[t]}
<1>1. [pr EXCEPT ![t] = pr[t]] = pr /\ pr[t] \in Prios
  OBVIOUS
<1>2. QueueOK(st, [pr EXCEPT ![t] = pr[t]], r, g)
  <2> HIDE DEF r, g
  <2> QED BY <1>1, QueueMoved DEF r, g
<1>3. pr[t] \in group
  <2>1. t \in Range(table[pr[t]]) /\ table[pr[t]] \in Seq(Threads)
    BY <1>1 DEF QueueOK
  <2>2. table[pr[t]] # <<>>
    BY <2>1, EmptyRange
  <2> QED BY <1>1, <2>2 DEF QueueOK
<1>4. g = group
  BY <1>3
<1> QED BY <1>1, <1>2, <1>4

\* A thread that is not in the queue is not taken out of it.
LEMMA QueueUnlinked ==
    ASSUME NEW st, NEW pr, NEW table, NEW group, QueueOK(st, pr, table, group),
           NEW t \in Threads, st[t] # "READY"
    PROVE  Unlinked(table, t) = table
<1>1. table \in [Prios -> Seq(Threads)]
  BY DEF QueueOK
<1>2. ASSUME NEW p \in Prios PROVE RemoveFirst(table[p], t) = table[p]
  <2>1. t \notin Range(table[p])
    BY DEF QueueOK
  <2> QED BY <1>1, <2>1, RemoveAbsent
<1>3. DOMAIN table = Prios /\ table = [p \in Prios |-> table[p]]
  BY <1>1
<1> QED BY <1>2, <1>3 DEF Unlinked

\* Threads of a list join the queue, one after the other.
Readied(st, S) == [t \in Threads |-> IF t \in S THEN "READY" ELSE st[t]]

Lengthened(table, pr, q, S) ==
    [p \in Prios |-> table[p] \o Among(q, {t \in S : pr[t] = p})]

Raised(pr, S) == {pr[t] : t \in S}

LEMMA QueueWithAll ==
    ASSUME NEW st \in [Threads -> Stats], NEW pr \in [Threads -> Prios],
           NEW table, NEW group, QueueOK(st, pr, table, group),
           NEW q \in Seq(Threads), IsInjective(q), NEW S \in SUBSET Range(q),
           \A t \in S : st[t] # "READY"
    PROVE  QueueOK(Readied(st, S), pr, Lengthened(table, pr, q, S), group \cup Raised(pr, S))
<1> DEFINE s == [t \in Threads |-> IF t \in S THEN "READY" ELSE st[t]]
           more(p) == Among(q, {t \in S : pr[t] = p})
           r == [p \in Prios |-> table[p] \o more(p)]
           g == group \cup {pr[t] : t \in S}
<1>1. table \in [Prios -> Seq(Threads)] /\ group \subseteq Prios
  BY DEF QueueOK
<1>2. Range(q) \subseteq Threads
  BY ElementOfSeq, LenProperties DEF Range
<1>3. ASSUME NEW p \in Prios
      PROVE  /\ more(p) \in Seq(Threads) /\ IsInjective(more(p))
             /\ Range(more(p)) = {t \in S : pr[t] = p}
  <2>1. Range(q) \cap {t \in S : pr[t] = p} = {t \in S : pr[t] = p}
    OBVIOUS
  <2> QED BY <2>1, AmongIs
<1> HIDE DEF more
<1>4. ASSUME NEW p \in Prios
      PROVE  /\ r[p] \in Seq(Threads) /\ IsInjective(r[p])
             /\ Range(r[p]) = Range(table[p]) \cup {t \in S : pr[t] = p}
  <2>1. table[p] \in Seq(Threads) /\ IsInjective(table[p])
    BY <1>1 DEF QueueOK
  <2>2. Range(table[p]) \cap Range(more(p)) = {}
    BY <1>3 DEF QueueOK
  <2>3. r[p] = table[p] \o more(p)
    OBVIOUS
  <2> HIDE DEF r
  <2> QED BY <1>3, <2>1, <2>2, <2>3, ConcatRange
<1>5. r \in [Prios -> Seq(Threads)]
  <2>1. r = [p \in Prios |-> r[p]]
    OBVIOUS
  <2> HIDE DEF r
  <2> QED BY <1>4, <2>1
<1> HIDE DEF r
<1>6. \A p \in Prios : \A t \in Range(r[p]) : s[t] = "READY" /\ pr[t] = p
  <2> TAKE p \in Prios
  <2> TAKE t \in Range(r[p])
  <2>1. t \in Threads
    <3>1. Range(r[p]) \subseteq Threads
      BY <1>4, ElementOfSeq, LenProperties DEF Range
    <3> QED BY <3>1
  <2>2. CASE t \in Range(table[p])
    <3>1. st[t] = "READY" /\ pr[t] = p
      BY <2>2 DEF QueueOK
    <3> QED BY <2>1, <3>1
  <2>3. CASE t \notin Range(table[p])
    <3>1. t \in S /\ pr[t] = p
      BY <1>4, <2>3
    <3> QED BY <2>1, <3>1
  <2> QED BY <2>2, <2>3
<1>7. \A t \in Threads : s[t] = "READY" => t \in Range(r[pr[t]])
  <2> SUFFICES ASSUME NEW t \in Threads, s[t] = "READY" PROVE t \in Range(r[pr[t]])
    OBVIOUS
  <2>1. pr[t] \in Prios
    OBVIOUS
  <2>2. CASE t \in S
    BY <1>4, <2>1, <2>2
  <2>3. CASE t \notin S
    <3>1. st[t] = "READY"
      BY <2>3
    <3>2. t \in Range(table[pr[t]])
      BY <3>1 DEF QueueOK
    <3> QED BY <1>4, <2>1, <3>2
  <2> QED BY <2>2, <2>3
<1>8. \A p \in Prios : p \in g <=> r[p] # <<>>
  <2> TAKE p \in Prios
  <2>1. r[p] = <<>> <=> Range(r[p]) = {}
    BY <1>4, EmptyRange
  <2>2. table[p] = <<>> <=> Range(table[p]) = {}
    BY <1>1, EmptyRange
  <2>3. p \in group <=> table[p] # <<>>
    BY DEF QueueOK
  <2> QED BY <1>4, <2>1, <2>2, <2>3
<1>9. g \subseteq Prios
  BY <1>1, <1>2
<1> USE DEF r, more
<1>10. s = Readied(st, S) /\ r = Lengthened(table, pr, q, S) /\ g = group \cup Raised(pr, S)
  BY DEF Readied, Lengthened, Raised
<1> HIDE DEF r, more, s, g
<1> QED BY <1>4, <1>5, <1>6, <1>7, <1>8, <1>9, <1>10 DEF QueueOK

\* rt_schedule finds a ready thread as long as there is one.
LEMMA QueueHighest ==
    ASSUME NEW st, NEW pr \in [Threads -> Prios], NEW table, NEW group,
           QueueOK(st, pr, table, group), NEW t \in Threads, st[t] = "READY"
    PROVE  /\ HighestReady(table, group) \in Threads
           /\ st[HighestReady(table, group)] = "READY"
<1> DEFINE p == CHOOSE q \in group : \A r \in group : q <= r
<1>1. table \in [Prios -> Seq(Threads)] /\ group \subseteq Prios /\ group \subseteq Nat
  BY DEF QueueOK, Prios
<1>2. pr[t] \in group
  <2>1. t \in Range(table[pr[t]]) /\ table[pr[t]] \in Seq(Threads)
    BY <1>1 DEF QueueOK
  <2>2. table[pr[t]] # <<>>
    BY <2>1, EmptyRange
  <2> QED BY <2>2 DEF QueueOK
<1>3. \E q \in group : \A r \in group : q <= r
  BY <1>1, <1>2, HasMinimum
<1>4. p \in group
  BY <1>3
<1> HIDE DEF p
<1>5. table[p] # <<>> /\ table[p] \in Seq(Threads)
  BY <1>1, <1>4 DEF QueueOK
<1>6. HighestReady(table, group) = Head(table[p])
  BY <1>2, <1>5 DEF HighestReady, p
<1>7. Head(table[p]) \in Threads /\ Head(table[p]) \in Range(table[p])
  <2>1. IsInjective(table[p])
    BY <1>1, <1>4 DEF QueueOK
  <2> QED BY <1>5, <2>1, TailRange, HeadTailProperties
<1>8. p \in Prios
  BY <1>1, <1>4
<1> QED BY <1>6, <1>7, <1>8 DEF QueueOK

-----------------------------------------------------------------------------
(* The suspend lists, under the states st.                                 *)

WaitersOK(susp, st) ==
    /\ susp \in [Lists -> Seq(Threads)]
    /\ \A l \in Lists : IsInjective(susp[l])
    /\ \A l \in Lists : \A t \in Range(susp[l]) : st[t] = "SUSPEND"
    /\ \A l, m \in Lists : \A t \in Threads :
          t \in Range(susp[l]) /\ t \in Range(susp[m]) => l = m

\* susp2 is susp without the threads of W, in the same order.
Less(susp2, susp, W) ==
    /\ susp2 \in [Lists -> Seq(Threads)]
    /\ \A l \in Lists : /\ IsInjective(susp2[l]) /\ Embeds(susp2[l], susp[l])
                        /\ Range(susp2[l]) = Range(susp[l]) \ W

LEMMA WaitersAreThreads ==
    ASSUME NEW susp \in [Lists -> Seq(Threads)], NEW l \in Lists
    PROVE  susp[l] \in Seq(Threads) /\ Range(susp[l]) \subseteq Threads
BY ElementOfSeq, LenProperties DEF Range

LEMMA WaitersLess ==
    ASSUME NEW susp, NEW st, WaitersOK(susp, st), NEW W, NEW susp2, NEW st2,
           Less(susp2, susp, W), \A t \in Threads \ W : st2[t] = st[t]
    PROVE  WaitersOK(susp2, st2)
<1>1. susp \in [Lists -> Seq(Threads)] /\ susp2 \in [Lists -> Seq(Threads)]
  BY DEF WaitersOK, Less
<1>2. ASSUME NEW l \in Lists, NEW t \in Range(susp2[l])
      PROVE  t \in Threads /\ t \in Range(susp[l]) /\ st2[t] = "SUSPEND"
  <2>1. t \in Range(susp[l]) /\ t \notin W
    BY DEF Less
  <2>2. t \in Threads
    BY <1>1, <2>1, WaitersAreThreads
  <2>3. st[t] = "SUSPEND"
    BY <2>1 DEF WaitersOK
  <2> QED BY <2>1, <2>2, <2>3
<1>3. \A l, m \in Lists : \A t \in Threads :
         t \in Range(susp2[l]) /\ t \in Range(susp2[m]) => l = m
  BY <1>2 DEF WaitersOK
<1> QED BY <1>1, <1>2, <1>3 DEF WaitersOK, Less

LEMMA WaitersMore ==
    ASSUME NEW susp, NEW st \in [Threads -> Stats], WaitersOK(susp, st),
           NEW c \in Threads, st[c] # "SUSPEND", NEW k \in Lists, NEW q \in Seq(Threads),
           IsInjective(q), Range(q) = Range(susp[k]) \cup {c}
    PROVE  WaitersOK([susp EXCEPT ![k] = q], [st EXCEPT ![c] = "SUSPEND"])
<1> DEFINE susp2 == [susp EXCEPT ![k] = q]
           st2 == [st EXCEPT ![c] = "SUSPEND"]
<1>1. susp \in [Lists -> Seq(Threads)] /\ susp2 \in [Lists -> Seq(Threads)]
  BY DEF WaitersOK
<1>2. susp2[k] = q /\ \A l \in Lists : l # k => susp2[l] = susp[l]
  BY <1>1
<1>3. \A l \in Lists : c \notin Range(susp[l])
  BY DEF WaitersOK
<1> HIDE DEF susp2
<1>4. \A l \in Lists : IsInjective(susp2[l])
  BY <1>2 DEF WaitersOK
<1>5. ASSUME NEW l \in Lists, NEW t \in Range(susp2[l]) PROVE st2[t] = "SUSPEND"
  <2>1. t = c \/ t \in Range(susp[l])
    BY <1>2
  <2>2. CASE t = c
    BY <2>2
  <2>3. CASE t \in Range(susp[l])
    <3>1. st[t] = "SUSPEND" /\ t \in Threads
      BY <1>1, <2>3, WaitersAreThreads DEF WaitersOK
    <3> QED BY <3>1
  <2> QED BY <2>1, <2>2, <2>3
<1>6. ASSUME NEW l \in Lists, NEW m \in Lists, NEW t \in Threads,
             t \in Range(susp2[l]), t \in Range(susp2[m])
      PROVE  l = m
  <2>1. CASE t = c
    BY <1>2, <1>3, <1>6, <2>1
  <2>2. CASE t # c
    <3>1. t \in Range(susp[l]) /\ t \in Range(susp[m])
      BY <1>2, <1>6, <2>2
    <3> QED BY <3>1 DEF WaitersOK
  <2> QED BY <2>1, <2>2
<1> QED BY <1>1, <1>4, <1>5, <1>6 DEF WaitersOK, susp2

\* The ways in which threads leave suspend lists: one from wherever it is, the first
\* of a list, and a part of a list.
LEMMA LessUnlinked ==
    ASSUME NEW susp, NEW st, WaitersOK(susp, st), NEW t
    PROVE  Less(Unlinked(susp, t), susp, {t})
<1>1. susp \in [Lists -> Seq(Threads)] /\ Unlinked(susp, t) \in [Lists -> Seq(Threads)]
  BY UnlinkedType DEF WaitersOK
<1>2. \A l \in Lists : Unlinked(susp, t)[l] = RemoveFirst(susp[l], t)
  BY <1>1 DEF Unlinked
<1>3. ASSUME NEW l \in Lists
      PROVE  /\ IsInjective(RemoveFirst(susp[l], t))
             /\ Embeds(RemoveFirst(susp[l], t), susp[l])
             /\ Range(RemoveFirst(susp[l], t)) = Range(susp[l]) \ {t}
  <2>1. susp[l] \in Seq(Threads) /\ IsInjective(susp[l])
    BY <1>1 DEF WaitersOK
  <2> QED BY <2>1, RemoveFirstRange, RemovedEmbeds
<1> QED BY <1>1, <1>2, <1>3 DEF Less

LEMMA SelfEmbeds ==
    ASSUME NEW q
    PROVE  Embeds(q, q)
BY DEF Embeds

LEMMA LessOfOne ==
    ASSUME NEW susp, NEW st, WaitersOK(susp, st), NEW k \in Lists, NEW q \in Seq(Threads),
           NEW W \in SUBSET Range(susp[k]), IsInjective(q), Embeds(q, susp[k]),
           Range(q) = Range(susp[k]) \ W
    PROVE  Less([susp EXCEPT ![k] = q], susp, W)
<1> DEFINE susp2 == [susp EXCEPT ![k] = q]
<1>1. susp \in [Lists -> Seq(Threads)] /\ susp2 \in [Lists -> Seq(Threads)]
  BY DEF WaitersOK
<1>2. susp2[k] = q /\ \A l \in Lists : l # k => susp2[l] = susp[l]
  BY <1>1
<1> HIDE DEF susp2
<1>3. ASSUME NEW l \in Lists, l # k
      PROVE  Range(susp[l]) \cap W = {}
  BY <1>1, <1>3, WaitersAreThreads DEF WaitersOK
<1>4. ASSUME NEW l \in Lists
      PROVE  /\ IsInjective(susp2[l]) /\ Embeds(susp2[l], susp[l])
             /\ Range(susp2[l]) = Range(susp[l]) \ W
  <2>1. CASE l = k
    BY <1>2, <2>1
  <2>2. CASE l # k
    <3>1. susp2[l] = susp[l] /\ IsInjective(susp[l])
      BY <1>2, <2>2 DEF WaitersOK
    <3> QED BY <1>3, <2>2, <3>1, SelfEmbeds
  <2> QED BY <2>1, <2>2
<1> QED BY <1>1, <1>4 DEF Less, susp2

LEMMA LessByHead ==
    ASSUME NEW susp, NEW st, WaitersOK(susp, st), NEW k \in Lists, susp[k] # <<>>
    PROVE  /\ Less([susp EXCEPT ![k] = Tail(@)], susp, {Head(susp[k])})
           /\ Head(susp[k]) \in Threads /\ Head(susp[k]) \in Range(susp[k])
           /\ st[Head(susp[k])] = "SUSPEND"
<1> DEFINE q == susp[k]
<1>1. q \in Seq(Threads) /\ IsInjective(q) /\ Range(q) \subseteq Threads
      /\ susp \in [Lists -> Seq(Threads)]
  BY WaitersAreThreads DEF WaitersOK
<1>2. /\ Tail(q) \in Seq(Threads) /\ IsInjective(Tail(q))
      /\ Range(Tail(q)) = Range(q) \ {Head(q)} /\ Head(q) \in Range(q)
  BY <1>1, TailRange
<1>3. Embeds(Tail(q), q)
  BY <1>1, TailEmbeds
<1>4. Less([susp EXCEPT ![k] = Tail(q)], susp, {Head(q)})
  <2> HIDE DEF q
  <2>1. {Head(q)} \in SUBSET Range(q)
    BY <1>2
  <2> QED BY <1>2, <1>3, <2>1, LessOfOne DEF q
<1>5. [susp EXCEPT ![k] = Tail(@)] = [susp EXCEPT ![k] = Tail(q)]
  BY <1>1
<1> QED BY <1>1, <1>2, <1>4, <1>5 DEF WaitersOK

LEMMA LessByNone ==
    ASSUME NEW susp, NEW st, WaitersOK(susp, st)
    PROVE  Less(susp, susp, {})
BY SelfEmbeds DEF WaitersOK, Less

-----------------------------------------------------------------------------
(* The invariant of the kernel under the IPC objects.                      *)

\* Applications whose threads neither end nor manage each other, and that leave
\* the scheduler unlocked.
Lifecycle == {"create", "startup", "delete", "resume", "suspend", "park", "priority",
              "exit", "lock"}

Settled == \A t \in Threads : api[t] \cap Lifecycle = {}

\* The steps that the calls of such an application consist of.
Again(t) == <<"sched", t>>

Times == {"try", "ever", "timed", "no"}

Loops == ({"mailrecv"} \X Mailboxes \X Times)
         \cup ({"mailsend"} \X Mailboxes \X Times \X Mails)
         \cup ({"msgrecv"} \X Queues \X Times) \cup ({"mpalloc"} \X Pools \X Times)

Waits(t) == {<<"awake", t>>} \cup ({"taken"} \X Semaphores) \cup ({"locked"} \X Mutexes)
            \cup ({"received"} \X Events) \cup ({"woken"} \X Loops)

Ending == ({"resumeall", "resumeone"} \X Lists) \cup ({"gone"} \X Objects)

Copying(e) == DOMAIN e = 1..5 /\ e[1] \in {"fill", "link", "copy"} /\ e[2] \in Queues

\* t is in a call that waits and goes on with w.
InWait(t, w) == pc[t] = <<w>> \/ pc[t] = <<Again(t), w>>

\* The calls a thread can be in.
InCall(t) ==
    \/ pc[t] \in Seq(Ending)
    \/ pc[t] = <<Again(t)>>
    \/ \E w \in Waits(t) : InWait(t, w)
    \/ \E e \in Loops : pc[t] = <<e>>
    \/ pc[t] = <<Head(pc[t])>> /\ Copying(Head(pc[t]))

\* The list that a call waits on which goes on with w.
Looks(e, l) == \/ e[1] \in {"mailrecv", "msgrecv", "mpalloc"} /\ e[2] = l
               \/ e[1] = "mailsend" /\ SenderList[e[2]] = l

WaitsOn(w, l) == \/ w[1] \in {"taken", "locked", "received"} /\ w[2] = l
                 \/ w[1] = "woken" /\ Looks(w[2], l)

\* The threads are set up, and the scheduler runs.
Regular ==
    /\ TcbOK /\ \A t \in Threads : stat[t] \in {"NONE", "READY", "SUSPEND"}
    /\ rt_scheduler_lock_nest = 0 /\ rt_thread_defunct = <<>>
    /\ isr \in {"none", "tick"} /\ rt_current_thread \in Threads
    /\ stat[Idle] = "READY" /\ pc[Idle] = <<>> /\ DOMAIN pc = Threads

ReadyQueueOK == QueueOK(stat, current_priority, rt_thread_priority_table,
                        rt_thread_ready_priority_group)

\* The running thread is ready or about to call rt_schedule.
HartIsReady ==
    \/ stat[rt_current_thread] = "READY"
    \/ \E w \in Waits(rt_current_thread) :
          pc[rt_current_thread] = <<Again(rt_current_thread), w>>

\* Only a thread in a call that waits is suspended, on the list that the call waits
\* on, if it waits on one, ...
CallsOK ==
    \A t \in Threads :
        /\ InCall(t)
        /\ stat[t] = "SUSPEND" => \E w \in Waits(t) :
              InWait(t, w) /\ \A l \in Lists : WaitsOn(w, l) => t \in Range(suspend_thread[l])

\* ... and nothing has been reported to those that are on one.
WaitersAreCalling ==
    \A l \in Lists : \A t \in Range(suspend_thread[l]) :
        /\ error[t] = "EOK"
        /\ \E w \in Waits(t) : InWait(t, w) /\ WaitsOn(w, l)

TimedAreSuspended == \A t \in armed : stat[t] = "SUSPEND"

KInv == /\ Regular /\ ReadyQueueOK /\ WaitersOK(suspend_thread, stat) /\ HartIsReady
        /\ CallsOK /\ WaitersAreCalling /\ TimedAreSuspended

-----------------------------------------------------------------------------
(* The three kinds of steps.                                               *)

\* The threads of P, which are running, go on in their calls, and those of W are
\* resumed.
LEMMA GoesOn ==
    ASSUME KInv, NEW P \in SUBSET (Threads \ {Idle}), NEW W \in SUBSET Threads,
           TcbOK', ReadyQueueOK', Less(suspend_thread', suspend_thread, W),
           \A t \in Threads : stat'[t] = IF t \in W THEN "READY" ELSE stat[t],
           armed' \subseteq armed \ W,
           UNCHANGED <<rt_scheduler_lock_nest, rt_thread_defunct>>, isr' \in {"none", "tick"},
           \A t \in P : stat[t] = "READY" /\ InCall(t)',
           DOMAIN pc' = Threads, \A t \in Threads \ P : pc'[t] = pc[t],
           \A t \in Threads \ (P \cup W) : error'[t] = error[t],
           rt_current_thread' = rt_current_thread \/ Schedule
    PROVE  KInv'
<1> USE DEF KInv
<1>1. stat \in [Threads -> Stats] /\ stat' \in [Threads -> Stats]
  BY DEF TcbOK, Regular
<1>2. WaitersOK(suspend_thread, stat)'
  BY <1>1, WaitersLess
<1>3. Idle \in Threads /\ stat'[Idle] = "READY" /\ pc'[Idle] = <<>>
  BY KernelAssumption DEF Regular
<1>4. ASSUME Schedule
      PROVE  rt_current_thread' \in Threads /\ stat'[rt_current_thread'] = "READY"
  <2>1. rt_current_thread' = HighestReady(rt_thread_priority_table',
                                          rt_thread_ready_priority_group')
    BY <1>4 DEF Schedule, Scheduled, Regular
  <2>2. current_priority' \in [Threads -> Prios]
    BY DEF TcbOK
  <2>3. QueueOK(stat', current_priority', rt_thread_priority_table',
                rt_thread_ready_priority_group')
    BY DEF ReadyQueueOK
  <2> QED BY <1>3, <2>1, <2>2, <2>3, QueueHighest
<1>5. Regular'
  <2>1. rt_current_thread' \in Threads
    BY <1>4 DEF Regular
  <2>2. \A t \in Threads : stat'[t] \in {"NONE", "READY", "SUSPEND"}
    BY DEF Regular
  <2> QED BY <1>3, <2>1, <2>2 DEF Regular
<1>6. HartIsReady'
  <2>1. CASE Schedule
    BY <1>4, <2>1 DEF HartIsReady
  <2>2. CASE rt_current_thread' = rt_current_thread
    <3> DEFINE c == rt_current_thread
    <3>1. c \in Threads
      BY DEF Regular
    <3>2. CASE stat[c] = "READY"
      BY <2>2, <3>1, <3>2 DEF HartIsReady
    <3>3. CASE stat[c] # "READY"
      <4>1. PICK w \in Waits(c) : pc[c] = <<Again(c), w>>
        BY <3>3 DEF HartIsReady
      <4>2. c \notin P
        BY <3>3
      <4>3. pc'[c] = <<Again(c), w>>
        BY <3>1, <4>1, <4>2
      <4> QED BY <2>2, <4>3 DEF HartIsReady, Waits, Again
    <3> QED BY <3>2, <3>3
  <2> QED BY <2>1, <2>2
<1>7. ASSUME NEW t \in Threads, pc'[t] = pc[t]
      PROVE  /\ InCall(t) => InCall(t)'
             /\ \A w : InWait(t, w) => InWait(t, w)'
  BY <1>7 DEF InCall, InWait, Waits, Again
<1>8. CallsOK'
  <2> SUFFICES ASSUME NEW t \in Threads
               PROVE  /\ InCall(t)'
                      /\ stat'[t] = "SUSPEND" => \E w \in Waits(t) :
                            /\ InWait(t, w)'
                            /\ \A l \in Lists : WaitsOn(w, l)
                                  => t \in Range(suspend_thread'[l])
    BY DEF CallsOK, Waits, WaitsOn, Looks
  <2>1. CASE t \in P
    BY <2>1
  <2>2. CASE t \notin P
    <3>1. pc'[t] = pc[t] /\ InCall(t)
      BY <2>2 DEF CallsOK
    <3>2. stat'[t] = "SUSPEND" => stat[t] = "SUSPEND" /\ t \notin W
      OBVIOUS
    <3>3. stat[t] = "SUSPEND" => \E w \in Waits(t) :
             InWait(t, w) /\ \A l \in Lists : WaitsOn(w, l) => t \in Range(suspend_thread[l])
      BY DEF CallsOK
    <3>4. \A l \in Lists : Range(suspend_thread'[l]) = Range(suspend_thread[l]) \ W
      BY DEF Less
    <3> QED BY <1>7, <3>1, <3>2, <3>3, <3>4
  <2> QED BY <2>1, <2>2
<1>9. WaitersAreCalling'
  <2> SUFFICES ASSUME NEW l \in Lists, NEW t \in Range(suspend_thread'[l])
               PROVE  /\ error'[t] = "EOK"
                      /\ \E w \in Waits(t) : InWait(t, w)' /\ WaitsOn(w, l)
    BY DEF WaitersAreCalling, Waits, WaitsOn, Looks
  <2>1. t \in Range(suspend_thread[l]) /\ t \notin W
    BY DEF Less
  <2>2. t \in Threads /\ stat[t] = "SUSPEND"
    BY <2>1, WaitersAreThreads DEF WaitersOK
  <2>3. t \notin P
    BY <2>2
  <2>4. error[t] = "EOK" /\ \E w \in Waits(t) : InWait(t, w) /\ WaitsOn(w, l)
    BY <2>1 DEF WaitersAreCalling
  <2>5. pc'[t] = pc[t] /\ error'[t] = error[t]
    BY <2>1, <2>2, <2>3
  <2> QED BY <1>7, <2>2, <2>4, <2>5
<1>10. TimedAreSuspended'
  <2> SUFFICES ASSUME NEW t \in armed' PROVE stat'[t] = "SUSPEND"
    BY DEF TimedAreSuspended
  <2>1. t \in armed /\ t \notin W /\ t \in Threads
    BY DEF Regular, TcbOK
  <2> QED BY <2>1 DEF TimedAreSuspended
<1> QED BY <1>2, <1>5, <1>6, <1>8, <1>9, <1>10

\* A call waits on one list.
LEMMA WaitsOnOne ==
    ASSUME NEW w, NEW l, NEW k, WaitsOn(w, l), WaitsOn(w, k)
    PROVE  l = k
BY DEF WaitsOn, Looks

\* The running thread begins to wait.
LEMMA BeginsToWait ==
    ASSUME KInv, NEW c \in Threads \ {Idle}, rt_current_thread = c, stat[c] = "READY",
           NEW w \in Waits(c), pc'[c] = <<Again(c), w>>,
           DOMAIN pc' = Threads, \A t \in Threads \ {c} : pc'[t] = pc[t],
           TcbOK', ReadyQueueOK', stat' = [stat EXCEPT ![c] = "SUSPEND"],
           armed' \subseteq armed \cup {c}, \A t \in Threads \ {c} : error'[t] = error[t],
           UNCHANGED <<rt_current_thread, rt_scheduler_lock_nest, isr, rt_thread_defunct>>,
           \/ UNCHANGED suspend_thread /\ \A l \in Lists : ~WaitsOn(w, l)
           \/ \E l \in Lists, q \in Seq(Threads) :
                 /\ suspend_thread' = [suspend_thread EXCEPT ![l] = q]
                 /\ (IsInjective(suspend_thread[l]) /\ c \notin Range(suspend_thread[l])
                        => IsInjective(q))
                 /\ Range(q) = Range(suspend_thread[l]) \cup {c}
                 /\ WaitsOn(w, l) /\ error'[c] = "EOK"
    PROVE  KInv'
<1> USE DEF KInv
<1>1. stat \in [Threads -> Stats] /\ stat'[c] = "SUSPEND"
      /\ \A t \in Threads \ {c} : stat'[t] = stat[t]
  BY DEF TcbOK, Regular
<1>2. Idle \in Threads /\ stat'[Idle] = "READY" /\ pc'[Idle] = <<>>
  BY <1>1, KernelAssumption DEF Regular
<1>3. Regular'
  BY <1>1, <1>2 DEF Regular
<1>4. HartIsReady'
  BY DEF HartIsReady, Waits, Again
<1>5. ASSUME NEW t \in Threads \ {c}
      PROVE  /\ InCall(t) => InCall(t)'
             /\ \A v : InWait(t, v) => InWait(t, v)'
  BY DEF InCall, InWait, Waits, Again
<1>6. InWait(c, w)' /\ InCall(c)'
  BY DEF InCall, InWait, Waits, Again
<1>7. CallsOK'
  <2> SUFFICES ASSUME NEW t \in Threads
               PROVE  /\ InCall(t)'
                      /\ stat'[t] = "SUSPEND" => \E v \in Waits(t) :
                            /\ InWait(t, v)'
                            /\ \A l \in Lists : WaitsOn(v, l)
                                  => t \in Range(suspend_thread'[l])
    BY DEF CallsOK, Waits, WaitsOn, Looks
  <2>1. /\ \A l \in Lists : Range(suspend_thread[l]) \subseteq Range(suspend_thread'[l])
        /\ \A l \in Lists : WaitsOn(w, l) => c \in Range(suspend_thread'[l])
    <3>1. CASE UNCHANGED suspend_thread /\ \A l \in Lists : ~WaitsOn(w, l)
      BY <3>1
    <3>2. CASE ~(UNCHANGED suspend_thread /\ \A l \in Lists : ~WaitsOn(w, l))
      <4>1. PICK k \in Lists, q \in Seq(Threads) :
                 /\ suspend_thread' = [suspend_thread EXCEPT ![k] = q]
                 /\ Range(q) = Range(suspend_thread[k]) \cup {c}
                 /\ WaitsOn(w, k)
        BY <3>2
      <4>2. suspend_thread \in [Lists -> Seq(Threads)]
        BY DEF WaitersOK
      <4>3. \A l \in Lists : WaitsOn(w, l) => l = k
        BY <4>1, WaitsOnOne
      <4> QED BY <4>1, <4>2, <4>3
    <3> QED BY <3>1, <3>2
  <2>2. CASE t = c
    BY <1>6, <2>1, <2>2
  <2>3. CASE t # c
    <3>1. InCall(t) /\ (stat[t] = "SUSPEND" => \E v \in Waits(t) :
             InWait(t, v) /\ \A l \in Lists : WaitsOn(v, l) => t \in Range(suspend_thread[l]))
      BY DEF CallsOK
    <3> QED BY <1>1, <1>5, <2>1, <2>3, <3>1
  <2> QED BY <2>2, <2>3
<1>8. \A l \in Lists : c \notin Range(suspend_thread[l])
  BY DEF WaitersOK
<1>9. TimedAreSuspended'
  <2> SUFFICES ASSUME NEW t \in armed' PROVE stat'[t] = "SUSPEND"
    BY DEF TimedAreSuspended
  <2>1. t = c \/ (t \in armed /\ t \in Threads)
    BY DEF Regular, TcbOK
  <2> QED BY <1>1, <2>1 DEF TimedAreSuspended
<1>10. ASSUME NEW l \in Lists, NEW t \in Range(suspend_thread[l])
       PROVE  /\ t \in Threads \ {c} /\ error'[t] = "EOK" /\ stat'[t] = "SUSPEND"
              /\ \E v \in Waits(t) : InWait(t, v)' /\ WaitsOn(v, l)
  <2>1. t \in Threads \ {c}
    BY <1>8, WaitersAreThreads DEF WaitersOK
  <2>2. error[t] = "EOK" /\ \E v \in Waits(t) : InWait(t, v) /\ WaitsOn(v, l)
    BY DEF WaitersAreCalling
  <2>3. stat[t] = "SUSPEND"
    BY DEF WaitersOK
  <2> QED BY <1>1, <1>5, <2>1, <2>2, <2>3
<1>11. WaitersOK(suspend_thread, stat)' /\ WaitersAreCalling'
  <2>1. CASE UNCHANGED suspend_thread
    <3>1. WaitersOK(suspend_thread, stat')
      BY <1>10 DEF WaitersOK
    <3>2. WaitersAreCalling'
      <4> SUFFICES ASSUME NEW l \in Lists, NEW t \in Range(suspend_thread[l])
                   PROVE  /\ error'[t] = "EOK"
                          /\ \E v \in Waits(t) : InWait(t, v)' /\ WaitsOn(v, l)
        BY <2>1 DEF WaitersAreCalling, Waits, WaitsOn, Looks
      <4> QED BY <1>10
    <3> QED BY <2>1, <3>1, <3>2
  <2>2. CASE ~UNCHANGED suspend_thread
    <3>1. PICK k \in Lists, q \in Seq(Threads) :
                 /\ suspend_thread' = [suspend_thread EXCEPT ![k] = q]
                 /\ (IsInjective(suspend_thread[k]) /\ c \notin Range(suspend_thread[k])
                        => IsInjective(q))
                 /\ Range(q) = Range(suspend_thread[k]) \cup {c}
                 /\ WaitsOn(w, k) /\ error'[c] = "EOK"
      BY <2>2
    <3>2. IsInjective(q)
      BY <1>8, <3>1 DEF WaitersOK
    <3>3. WaitersOK(suspend_thread', stat')
      <4>1. stat[c] # "SUSPEND"
        OBVIOUS
      <4> QED BY <1>1, <3>1, <3>2, <4>1, WaitersMore
    <3>4. suspend_thread \in [Lists -> Seq(Threads)]
      BY DEF WaitersOK
    <3>5. WaitersAreCalling'
      <4> SUFFICES ASSUME NEW l \in Lists, NEW t \in Range(suspend_thread'[l])
                   PROVE  /\ error'[t] = "EOK"
                          /\ \E v \in Waits(t) : InWait(t, v)' /\ WaitsOn(v, l)
        BY DEF WaitersAreCalling, Waits, WaitsOn, Looks
      <4>1. t \in Range(suspend_thread[l]) \/ (t = c /\ l = k)
        BY <1>8, <3>1, <3>4
      <4>2. CASE t = c /\ l = k
        BY <1>6, <3>1, <4>2
      <4>3. CASE t \in Range(suspend_thread[l])
        BY <1>10, <4>3
      <4> QED BY <4>1, <4>2, <4>3
    <3> QED BY <3>3, <3>5
  <2> QED BY <2>1, <2>2
<1> QED BY <1>3, <1>4, <1>7, <1>9, <1>11

\* The steps of the calls are what they were, but for rt_schedule.
SameSteps ==
    \A t \in Threads : \A w : w[1] # "sched" =>
        ((\E i \in DOMAIN pc[t] : pc[t][i] = w) <=> \E i \in DOMAIN pc'[t] : pc'[t][i] = w)

\* rt_schedule by the running thread, which is still in the call when it comes back.
LEMMA Reschedules ==
    ASSUME KInv, NEW c \in Threads, Sched(c)
    PROVE  KInv' /\ SameSteps
<1> USE DEF KInv
<1>1. /\ UNCHANGED <<tcb, lists, rt_scheduler_lock_nest, isr>> /\ Schedule
      /\ rt_current_thread = c
      /\ pc[c] # <<>> /\ Head(pc[c])[1] = "sched" /\ pc' = [pc EXCEPT ![c] = <<>> \o Tail(@)]
  BY DEF Sched, At, Running, Return, Proceed
<1>2. /\ UNCHANGED <<stat, current_priority, error, armed, rt_thread_priority_table,
                     rt_thread_ready_priority_group, rt_thread_defunct, suspend_thread>>
      /\ TcbOK'
  BY <1>1 DEF tcb, lists, queues, Regular, TcbOK
<1>3. \/ pc[c] = <<Again(c)>> /\ stat[c] # "SUSPEND"
      \/ \E w \in Waits(c) : pc[c] = <<Again(c), w>>
  <2>1. InCall(c) /\ (stat[c] = "SUSPEND" => \E w \in Waits(c) : InWait(c, w))
    BY DEF CallsOK
  <2>2. ASSUME pc[c] \in Seq(Ending) PROVE FALSE
    <3>1. Head(pc[c]) \in Ending
      BY <1>1, <2>2, HeadTailProperties
    <3> QED BY <1>1, <3>1 DEF Ending
  <2>3. ASSUME NEW w \in Waits(c), pc[c] = <<w>> PROVE FALSE
    <3>1. Head(pc[c]) = w
      BY <2>3
    <3> QED BY <1>1, <3>1 DEF Waits
  <2>4. ASSUME NEW e \in Loops, pc[c] = <<e>> PROVE FALSE
    <3>1. Head(pc[c]) = e
      BY <2>4
    <3> QED BY <1>1, <3>1 DEF Loops
  <2>5. ASSUME Copying(Head(pc[c])) PROVE FALSE
    BY <1>1, <2>5 DEF Copying
  <2>6. ASSUME pc[c] = <<Again(c)>>, NEW w \in Waits(c), InWait(c, w) PROVE FALSE
    BY <2>3, <2>6 DEF InWait
  <2> QED BY <2>1, <2>2, <2>3, <2>4, <2>5, <2>6 DEF InCall, InWait
<1>4. /\ pc[c] = <<Again(c)>> => pc'[c] = <<>>
      /\ \A w \in Waits(c) : pc[c] = <<Again(c), w>> => pc'[c] = <<w>>
      /\ \A t \in Threads \ {c} : pc'[t] = pc[t] /\ DOMAIN pc' = Threads
  <2>1. DOMAIN pc = Threads
    BY DEF Regular
  <2>2. pc'[c] = <<>> \o Tail(pc[c]) /\ DOMAIN pc' = Threads
        /\ \A t \in Threads \ {c} : pc'[t] = pc[t]
    BY <1>1, <2>1
  <2>3. \A a : <<>> \o Tail(<<a>>) = <<>>
    OBVIOUS
  <2>4. \A a, b : <<>> \o Tail(<<a, b>>) = <<b>>
    OBVIOUS
  <2> QED BY <2>2, <2>3, <2>4
<1>5. c # Idle
  BY <1>1 DEF Regular
<1>6. rt_current_thread' \in Threads /\ stat'[rt_current_thread'] = "READY"
  <2>1. rt_current_thread' = HighestReady(rt_thread_priority_table,
                                          rt_thread_ready_priority_group)
    BY <1>1, <1>2 DEF Schedule, Scheduled, Regular
  <2>2. current_priority \in [Threads -> Prios] /\ Idle \in Threads /\ stat[Idle] = "READY"
    BY KernelAssumption DEF Regular, TcbOK
  <2> QED BY <1>2, <2>1, <2>2, QueueHighest DEF ReadyQueueOK
<1>7. Regular'
  BY <1>1, <1>2, <1>4, <1>5, <1>6, KernelAssumption DEF Regular
<1>8. HartIsReady'
  BY <1>6 DEF HartIsReady
<1>9. ASSUME NEW t \in Threads
      PROVE  /\ InCall(t) => InCall(t)'
             /\ \A w \in Waits(t) : InWait(t, w) => InWait(t, w)'
  <2>1. CASE t # c
    BY <1>4, <2>1 DEF InCall, InWait, Waits, Again
  <2>2. CASE t = c
    <3>1. CASE pc[c] = <<Again(c)>> /\ stat[c] # "SUSPEND"
      <4>1. pc'[c] = <<>> /\ <<>> \in Seq(Ending)
        BY <1>4, <3>1
      <4>2. ASSUME NEW w \in Waits(c), pc[c] = <<w>> PROVE FALSE
        <5>1. w = Again(c)
          BY <3>1, <4>2
        <5> QED BY <5>1 DEF Waits, Again
      <4> QED BY <2>2, <3>1, <4>1, <4>2 DEF InCall, InWait
    <3>2. CASE \E w \in Waits(c) : pc[c] = <<Again(c), w>>
      <4>1. PICK w \in Waits(c) : pc[c] = <<Again(c), w>>
        BY <3>2
      <4>2. pc'[c] = <<w>>
        BY <1>4, <4>1
      <4>3. \A v \in Waits(c) : InWait(c, v) => v = w
        BY <4>1 DEF InWait
      <4>4. InWait(c, w)'
        BY <4>2 DEF InWait
      <4> QED BY <2>2, <4>3, <4>4 DEF InCall, Waits
    <3> QED BY <1>3, <3>1, <3>2
  <2> QED BY <2>1, <2>2
<1>10. CallsOK'
  <2> SUFFICES ASSUME NEW t \in Threads
               PROVE  /\ InCall(t)'
                      /\ stat'[t] = "SUSPEND" => \E v \in Waits(t) :
                            /\ InWait(t, v)'
                            /\ \A l \in Lists : WaitsOn(v, l)
                                  => t \in Range(suspend_thread'[l])
    BY DEF CallsOK, Waits, WaitsOn, Looks
  <2>1. InCall(t) /\ (stat[t] = "SUSPEND" => \E v \in Waits(t) :
           InWait(t, v) /\ \A l \in Lists : WaitsOn(v, l) => t \in Range(suspend_thread[l]))
    BY DEF CallsOK
  <2> QED BY <1>2, <1>9, <2>1
<1>11. WaitersAreCalling'
  <2> SUFFICES ASSUME NEW l \in Lists, NEW t \in Range(suspend_thread[l])
               PROVE  /\ error[t] = "EOK"
                      /\ \E v \in Waits(t) : InWait(t, v)' /\ WaitsOn(v, l)
    BY <1>2 DEF WaitersAreCalling, Waits, WaitsOn, Looks
  <2>1. t \in Threads
    BY WaitersAreThreads DEF WaitersOK
  <2>2. error[t] = "EOK" /\ \E v \in Waits(t) : InWait(t, v) /\ WaitsOn(v, l)
    BY DEF WaitersAreCalling
  <2> QED BY <1>9, <2>1, <2>2
<1>12. TimedAreSuspended' /\ WaitersOK(suspend_thread, stat)' /\ ReadyQueueOK'
  BY <1>2 DEF TimedAreSuspended, ReadyQueueOK
<1>13. SameSteps
  <2> SUFFICES ASSUME NEW t \in Threads, NEW w, w[1] # "sched"
               PROVE  (\E i \in DOMAIN pc[t] : pc[t][i] = w)
                         <=> \E i \in DOMAIN pc'[t] : pc'[t][i] = w
    BY DEF SameSteps
  <2>1. CASE t # c
    BY <1>4, <2>1
  <2>2. CASE t = c /\ pc[c] = <<Again(c)>>
    <3>1. pc'[c] = <<>>
      BY <1>4, <2>2
    <3>2. \A i \in DOMAIN pc[c] : pc[c][i] = Again(c)
      BY <2>2
    <3> QED BY <2>2, <3>1, <3>2 DEF Again
  <2>3. CASE t = c /\ \E v \in Waits(c) : pc[c] = <<Again(c), v>>
    <3>1. PICK v \in Waits(c) : pc[c] = <<Again(c), v>>
      BY <2>3
    <3>2. pc'[c] = <<v>>
      BY <1>4, <3>1
    <3>3. (\E i \in DOMAIN pc[c] : pc[c][i] = w) <=> v = w
      <4>1. DOMAIN pc[c] = {1, 2} /\ pc[c][1] = Again(c) /\ pc[c][2] = v
        BY <3>1
      <4> QED BY <4>1 DEF Again
    <3>4. (\E i \in DOMAIN pc'[c] : pc'[c][i] = w) <=> v = w
      <4>1. DOMAIN pc'[c] = {1} /\ pc'[c][1] = v
        BY <3>2
      <4> QED BY <4>1
    <3> QED BY <2>3, <3>3, <3>4
  <2> QED BY <1>3, <2>1, <2>2, <2>3
<1> QED BY <1>7, <1>8, <1>10, <1>11, <1>12, <1>13

-----------------------------------------------------------------------------
(* What the steps have in common.                                          *)

\* No other thread moves.
Moves(c) == DOMAIN pc' = Threads /\ \A t \in Threads \ {c} : pc'[t] = pc[t]

\* The threads of W are resumed.
Resumes(W) ==
    /\ Less(suspend_thread', suspend_thread, W)
    /\ stat' = [t \in Threads |-> IF t \in W THEN "READY" ELSE stat[t]]
    /\ armed' = armed \ W
    /\ QueueOK(stat', current_priority', rt_thread_priority_table',
               rt_thread_ready_priority_group')

\* What a thread waits for that is given to it, in a call that it is in ...
Awaited == ({"taken"} \X Semaphores) \cup ({"locked"} \X Mutexes)

Awaits(t, w) == \E i \in DOMAIN pc[t] : pc[t][i] = w

\* ... and the threads that it has been given to.
Receivers(w) == {t \in Threads : /\ Awaits(t, w) /\ error[t] = "EOK"
                                 /\ t \notin Range(suspend_thread[w[2]])}

\* The running thread c is in no such call, nor resumed out of the wait of a loop, ...
AtWork(c) == /\ rt_current_thread = c /\ stat[c] = "READY"
             /\ \A w \in Awaited : ~Awaits(c, w)
             /\ \A e \in Loops : ~Awaits(c, <<"woken", e>>)

\* ... and it goes on so.
Goes(c) == InCall(c)' /\ \A w \in Awaited : ~Awaits(c, w)'

LEMMA AwaitedIs ==
    ASSUME NEW w \in Awaited
    PROVE  /\ w[1] \in {"taken", "locked"} /\ w[2] \in Lists /\ WaitsOn(w, w[2])
           /\ w = <<w[1], w[2]>> /\ (w[1] = "taken" => w[2] \in Semaphores)
           /\ (w[1] = "locked" => w[2] \in Mutexes)
BY SemaphoreAssumption, MutexAssumption, IpcAssumption DEF Awaited, WaitsOn

LEMMA Tags ==
    ASSUME NEW c, NEW e
    PROVE  /\ e \in Ending => e[1] \in {"resumeall", "resumeone", "gone"}
           /\ e = Again(c) => e[1] = "sched"
           /\ e \in Waits(c) => e[1] \in {"awake", "taken", "locked", "received", "woken"}
           /\ e \in Loops => e[1] \in {"mailsend", "mailrecv", "msgrecv", "mpalloc"}
           /\ Copying(e) => e[1] \in {"fill", "link", "copy"}
BY DEF Ending, Again, Waits, Loops, Copying

LEMMA InCallNext ==
    ASSUME NEW c,
           \/ pc'[c] \in Seq(Ending) \/ pc'[c] = <<>> \/ pc'[c] = <<Again(c)>>
           \/ \E e \in Loops : pc'[c] = <<e>>
           \/ \E e : pc'[c] = <<e>> /\ Copying(e)
    PROVE  Goes(c)
<1>1. ASSUME NEW e, pc'[c] = <<e>>, Copying(e)
      PROVE  InCall(c)'
  <2>1. Head(pc'[c]) = e
    BY <1>1
  <2> QED BY <1>1, <2>1 DEF InCall, Copying
<1>2. <<>> \in Seq(Ending)
  OBVIOUS
<1>3. ASSUME pc'[c] \in Seq(Ending) PROVE InCall(c)'
  BY <1>3 DEF InCall, Ending
<1>4. ASSUME pc'[c] = <<Again(c)>> PROVE InCall(c)'
  BY <1>4 DEF InCall, Again
<1>5. ASSUME \E e \in Loops : pc'[c] = <<e>> PROVE InCall(c)'
  BY <1>5 DEF InCall
<1>6. InCall(c)'
  BY <1>1, <1>2, <1>3, <1>4, <1>5
<1>7. ASSUME NEW i \in DOMAIN pc'[c], NEW w \in Awaited, pc'[c][i] = w PROVE FALSE
  <2>1. w[1] \in {"taken", "locked"}
    BY AwaitedIs
  <2>2. CASE pc'[c] \in Seq(Ending)
    <3>1. pc'[c][i] \in Ending
      BY <2>2, ElementOfSeq, LenProperties
    <3> QED BY <1>7, <2>1, <3>1, Tags
  <2>3. ASSUME NEW e, pc'[c] = <<e>> PROVE e = w
    BY <1>7, <2>3
  <2>4. CASE pc'[c] = <<Again(c)>>
    BY <2>1, <2>3, <2>4, Tags
  <2>5. CASE \E e \in Loops : pc'[c] = <<e>>
    BY <2>1, <2>3, <2>5, Tags
  <2>6. CASE \E e : pc'[c] = <<e>> /\ Copying(e)
    BY <2>1, <2>3, <2>6, Tags
  <2> QED BY <1>2, <2>2, <2>4, <2>5, <2>6
<1> QED BY <1>6, <1>7 DEF Goes, Awaits

LEMMA GotoMoves ==
    ASSUME KInv, NEW c \in Threads, NEW s, Goto(c, s)
    PROVE  Moves(c) /\ pc'[c] = s
BY DEF Goto, Moves, KInv, Regular

LEMMA ProceedMoves ==
    ASSUME KInv, NEW c \in Threads, NEW s, Proceed(c, s)
    PROVE  Moves(c) /\ pc'[c] = s \o Tail(pc[c])
BY DEF Proceed, Moves, KInv, Regular

LEMMA StaysMoves ==
    ASSUME KInv, NEW c \in Threads, UNCHANGED pc, AtWork(c)
    PROVE  Moves(c) /\ Goes(c)
<1>1. InCall(c)
  BY DEF KInv, CallsOK
<1>2. InCall(c)'
  BY <1>1 DEF InCall, InWait, Waits, Again
<1> QED BY <1>2 DEF Moves, KInv, Regular, Goes, AtWork, Awaits, Awaited

\* What the running thread can have begun with.
LEMMA Shapes ==
    ASSUME KInv, NEW c \in Threads, pc[c] # <<>>
    PROVE  \/ pc[c] \in Seq(Ending) /\ Head(pc[c]) \in Ending
           \/ Head(pc[c]) = Again(c)
           \/ /\ pc[c] = <<Head(pc[c])>>
              /\ \/ Head(pc[c]) \in Waits(c) \/ Head(pc[c]) \in Loops
                 \/ Copying(Head(pc[c]))
<1>1. InCall(c)
  BY DEF KInv, CallsOK
<1>2. ASSUME pc[c] \in Seq(Ending) PROVE Head(pc[c]) \in Ending
  BY <1>2, HeadTailProperties
<1>3. \A a : Head(<<a>>) = a
  OBVIOUS
<1>4. \A a, b : Head(<<a, b>>) = a
  OBVIOUS
<1>5. ASSUME NEW w \in Waits(c), InWait(c, w)
      PROVE  Head(pc[c]) = Again(c) \/ (pc[c] = <<Head(pc[c])>> /\ Head(pc[c]) \in Waits(c))
  BY <1>3, <1>4, <1>5 DEF InWait
<1>6. ASSUME NEW e \in Loops, pc[c] = <<e>>
      PROVE  pc[c] = <<Head(pc[c])>> /\ Head(pc[c]) \in Loops
  BY <1>3, <1>6
<1> QED BY <1>1, <1>2, <1>3, <1>5, <1>6 DEF InCall

\* A thread that makes a call is ready, and not the idle thread, ...
LEMMA Calls ==
    ASSUME KInv, api \in Apis, NEW c \in Threads, NEW call, Call(c, call)
    PROVE  /\ c \in Threads \ {Idle} /\ rt_current_thread = c /\ stat[c] = "READY"
           /\ isr = "none" /\ pc[c] = <<>> /\ AtWork(c)
<1>1. Running(c) /\ pc[c] = <<>> /\ call \in api[c]
  BY DEF Call
<1>2. c # Idle
  BY <1>1, KernelAssumption
<1>3. ASSUME NEW w, pc[c] = <<Again(c), w>> PROVE FALSE
  BY <1>1, <1>3
<1>4. \A w : ~Awaits(c, w)
  BY <1>1 DEF Awaits
<1> QED BY <1>1, <1>2, <1>3, <1>4 DEF Running, KInv, HartIsReady, AtWork

\* ... and so is one that goes on in it.
LEMMA Continues ==
    ASSUME KInv, NEW c \in Threads, NEW label, At(c, label), label # "sched"
    PROVE  /\ c \in Threads \ {Idle} /\ rt_current_thread = c /\ stat[c] = "READY"
           /\ isr = "none"
           /\ \/ pc[c] \in Seq(Ending) /\ Head(pc[c]) \in Ending
              \/ /\ pc[c] = <<Head(pc[c])>>
                 /\ \/ Head(pc[c]) \in Waits(c) \/ Head(pc[c]) \in Loops
                    \/ Copying(Head(pc[c]))
<1>1. Running(c) /\ pc[c] # <<>> /\ Head(pc[c])[1] = label
  BY DEF At
<1>2. c # Idle
  BY <1>1 DEF KInv, Regular
<1>3. ASSUME NEW w, pc[c] = <<Again(c), w>> PROVE FALSE
  <2>1. Head(pc[c]) = Again(c)
    BY <1>3
  <2> QED BY <1>1, <2>1 DEF Again
<1>4. Head(pc[c]) # Again(c)
  BY <1>1 DEF Again
<1> QED BY <1>1, <1>2, <1>3, <1>4, Shapes DEF Running, KInv, HartIsReady

LEMMA OneAtWork ==
    ASSUME NEW c, rt_current_thread = c, stat[c] = "READY", pc[c] = <<Head(pc[c])>>,
           Head(pc[c])[1] \notin {"taken", "locked", "woken"}
    PROVE  AtWork(c)
<1>1. \A i \in DOMAIN pc[c] : pc[c][i] = Head(pc[c])
  OBVIOUS
<1>2. \A e : <<"woken", e>>[1] = "woken"
  OBVIOUS
<1> QED BY <1>1, <1>2, AwaitedIs DEF AtWork, Awaits

\* The steps whose label says in which call they are.
LEMMA AtLoop ==
    ASSUME KInv, NEW c \in Threads,
           NEW label \in {"mailsend", "mailrecv", "msgrecv", "mpalloc"},
           At(c, label)
    PROVE  /\ c \in Threads \ {Idle} /\ rt_current_thread = c /\ AtWork(c) /\ isr = "none"
           /\ pc[c] = <<Locals(c)>> /\ Locals(c) \in Loops /\ Locals(c)[1] = label
<1>1. Head(pc[c])[1] = label
  BY DEF At
<1>2. /\ c \in Threads \ {Idle} /\ rt_current_thread = c /\ stat[c] = "READY" /\ isr = "none"
      /\ pc[c] = <<Locals(c)>> /\ Locals(c) \in Loops /\ Locals(c)[1] = label
  BY <1>1, Continues, Tags DEF Locals
<1> QED BY <1>2, OneAtWork DEF Locals

LEMMA AtWait ==
    ASSUME KInv, NEW c \in Threads,
           NEW label \in {"awake", "taken", "locked", "received", "woken"}, At(c, label)
    PROVE  /\ c \in Threads \ {Idle} /\ rt_current_thread = c /\ stat[c] = "READY"
           /\ isr = "none"
           /\ pc[c] = <<Head(pc[c])>> /\ Head(pc[c]) \in Waits(c) /\ Head(pc[c])[1] = label
           /\ label \notin {"taken", "locked", "woken"} => AtWork(c)
<1>1. Head(pc[c])[1] = label
  BY DEF At
<1>2. /\ c \in Threads \ {Idle} /\ rt_current_thread = c /\ stat[c] = "READY" /\ isr = "none"
      /\ pc[c] = <<Head(pc[c])>> /\ Head(pc[c]) \in Waits(c) /\ Head(pc[c])[1] = label
  BY <1>1, Continues, Tags
<1> QED BY <1>2, OneAtWork

LEMMA AtCopy ==
    ASSUME KInv, NEW c \in Threads, NEW label \in {"fill", "link", "copy"}, At(c, label)
    PROVE  /\ c \in Threads \ {Idle} /\ rt_current_thread = c /\ AtWork(c) /\ isr = "none"
           /\ pc[c] = <<Locals(c)>> /\ Copying(Locals(c)) /\ Locals(c)[1] = label
<1>1. Head(pc[c])[1] = label
  BY DEF At
<1>2. /\ c \in Threads \ {Idle} /\ rt_current_thread = c /\ stat[c] = "READY" /\ isr = "none"
      /\ pc[c] = <<Locals(c)>> /\ Copying(Locals(c)) /\ Locals(c)[1] = label
  BY <1>1, Continues, Tags DEF Locals
<1> QED BY <1>2, OneAtWork DEF Locals

LEMMA AtEnd ==
    ASSUME KInv, NEW c \in Threads, NEW label \in {"resumeall", "resumeone", "gone"},
           At(c, label)
    PROVE  /\ c \in Threads \ {Idle} /\ rt_current_thread = c /\ AtWork(c) /\ isr = "none"
           /\ pc[c] \in Seq(Ending) /\ pc[c] # <<>> /\ Head(pc[c]) \in Ending
           /\ Head(pc[c])[1] = label /\ Tail(pc[c]) \in Seq(Ending)
<1>1. Head(pc[c])[1] = label /\ pc[c] # <<>>
  BY DEF At
<1>2. /\ c \in Threads \ {Idle} /\ rt_current_thread = c /\ stat[c] = "READY" /\ isr = "none"
      /\ pc[c] \in Seq(Ending) /\ Head(pc[c]) \in Ending
  BY <1>1, Continues, Tags
<1>3. ASSUME NEW i \in DOMAIN pc[c], NEW w \in Awaited, pc[c][i] = w PROVE FALSE
  <2>1. pc[c][i] \in Ending
    BY <1>2, ElementOfSeq, LenProperties
  <2> QED BY <1>3, <2>1, AwaitedIs, Tags
<1>4. ASSUME NEW i \in DOMAIN pc[c], NEW e, pc[c][i] = <<"woken", e>> PROVE FALSE
  <2>1. pc[c][i] \in Ending
    BY <1>2, ElementOfSeq, LenProperties
  <2> QED BY <1>4, <2>1, Tags
<1>5. AtWork(c)
  BY <1>2, <1>3, <1>4 DEF AtWork, Awaits
<1> QED BY <1>1, <1>2, <1>5, HeadTailProperties

\* No call of such an application has another step.
LEMMA AtNothing ==
    ASSUME KInv, NEW c \in Threads,
           NEW label \in {"resume", "unlink", "insert", "suspend", "remove", "dremove",
                          "dtimer", "dclose", "ddefunct", "free"}
    PROVE  ~At(c, label)
<1> SUFFICES ASSUME At(c, label) PROVE FALSE
  OBVIOUS
<1>1. Head(pc[c])[1] = label
  BY DEF At
<1> QED BY <1>1, Continues, Tags

LEMMA AfterOne ==
    ASSUME KInv, NEW c \in Threads, NEW S, NEW s \in Seq(S), Proceed(c, s), NEW e,
           pc[c] = <<e>>
    PROVE  Moves(c) /\ pc'[c] = s
<1>1. pc'[c] = s \o Tail(pc[c]) /\ Moves(c)
  BY ProceedMoves
<1>2. Tail(pc[c]) = <<>>
  OBVIOUS
<1>3. s \o <<>> = s
  OBVIOUS
<1> QED BY <1>1, <1>2, <1>3

\* What becomes of the suspend lists: threads leave them, or one joins.
Enters(c, l) == suspend_thread' = [suspend_thread EXCEPT ![l] = Enqueued(l, c)]

ListStep ==
    \/ \E W \in SUBSET Threads : Less(suspend_thread', suspend_thread, W)
    \/ \E c \in Threads, l \in Lists :
          /\ stat[c] = "READY" /\ Enters(c, l)
          /\ current_priority'[c] = current_priority[c]

\* Nothing is given to the threads that wait on lists that are not in S, ...
GrantStep(S) == \A w \in Awaited : w[2] \notin S => Receivers(w)' = Receivers(w)

\* ... and a step on something else than a mutex leaves the priorities as they are.
Owners == {owner[m] : m \in Mutexes}

PriorityStep(S) ==
    /\ UNCHANGED current_priority \/ S \cap Mutexes # {}
    /\ \A t \in Threads \ Owners :
          stat[t] = "SUSPEND" => current_priority'[t] = current_priority[t]

\* ... and nobody begins to wait there.
JoinStep(S) == \A l \in Lists \ S :
                  Range(suspend_thread'[l]) \subseteq Range(suspend_thread[l])

\* A thread that was resumed out of a loop looks again when it runs, not before.
Buffers == Mailboxes \cup Queues \cup Pools
LoopLabels  == {"mailsend", "mailrecv", "msgrecv", "mpalloc"}

LooksNow(t, o, label) ==
    /\ t = rt_current_thread /\ pc'[t] # pc[t]
    /\ \E e \in Loops : pc[t] = <<e>> /\ e[1] = label /\ e[2] = o

LookStep ==
    \A o \in Buffers, label \in LoopLabels : \A t \in ToLookAgain(o, label) :
        t \in ToLookAgain(o, label)' \/ LooksNow(t, o, label)

KStep(S) == /\ KInv' /\ ListStep /\ GrantStep(S) /\ PriorityStep(S) /\ JoinStep(S)
            /\ LookStep

LEMMA NobodyJoins ==
    ASSUME NEW S, NEW W, Less(suspend_thread', suspend_thread, W)
    PROVE  JoinStep(S)
BY DEF JoinStep, Less

LEMMA StaysEmpty ==
    ASSUME NEW S, KStep(S), NEW l \in Lists \ S, suspend_thread[l] = <<>>
    PROVE  suspend_thread'[l] = <<>>
<1>1. suspend_thread'[l] \in Seq(Threads)
  BY DEF KStep, KInv, WaitersOK
<1>2. Range(suspend_thread[l]) = {}
  BY EmptySeq DEF Range
<1>3. Range(suspend_thread'[l]) = {}
  BY <1>2 DEF KStep, JoinStep
<1>4. CASE suspend_thread'[l] # <<>>
  <2>1. 1 \in DOMAIN suspend_thread'[l]
    BY <1>1, <1>4, LenProperties, EmptySeq
  <2> QED BY <1>3, <2>1 DEF Range
<1> QED BY <1>4

LEMMA KStepMore ==
    ASSUME NEW S, NEW T, S \subseteq T, KStep(S)
    PROVE  KStep(T)
BY DEF KStep, GrantStep, PriorityStep, JoinStep

\* The threads of W are told that they wait in vain, or are given what those of a
\* list of S wait for.
Told(W, S) == \A t \in W : /\ stat[t] = "SUSPEND"
                           /\ error'[t] = "EOK" =>
                                 \E l \in S : l \in Lists /\ t \in Range(suspend_thread[l])

LEMMA ToldNobody ==
    ASSUME NEW S
    PROVE  Told({}, S)
BY DEF Told

LEMMA ToldOfList ==
    ASSUME KInv, NEW l \in Lists, NEW W \in SUBSET Range(suspend_thread[l])
    PROVE  Told(W, {l})
BY DEF Told, KInv, WaitersOK

LEMMA ToldInVain ==
    ASSUME NEW W, NEW S, \A t \in W : stat[t] = "SUSPEND" /\ error'[t] # "EOK"
    PROVE  Told(W, S)
BY DEF Told

\* A suspended thread that waits for what is given is on the list of it.
LEMMA SuspendedAwaits ==
    ASSUME KInv, NEW t \in Threads, stat[t] = "SUSPEND", NEW w \in Awaited, Awaits(t, w)
    PROVE  t \in Range(suspend_thread[w[2]]) /\ \A v \in Waits(t) : InWait(t, v) => v = w
<1>1. PICK v \in Waits(t) : /\ InWait(t, v)
                            /\ \A l \in Lists : WaitsOn(v, l) => t \in Range(suspend_thread[l])
  BY DEF KInv, CallsOK
<1>2. \A u \in Waits(t) : InWait(t, u) => u = w
  <2> SUFFICES ASSUME NEW u \in Waits(t), InWait(t, u) PROVE u = w
    OBVIOUS
  <2>1. \A i \in DOMAIN pc[t] : pc[t][i] = u \/ pc[t][i] = Again(t)
    BY DEF InWait
  <2>2. w # Again(t)
    BY AwaitedIs DEF Again
  <2> QED BY <2>1, <2>2 DEF Awaits
<1> QED BY <1>1, <1>2, AwaitedIs

LEMMA GrantsKept ==
    ASSUME KInv, NEW S, NEW P \in SUBSET Threads, NEW W \in SUBSET Threads,
           Less(suspend_thread', suspend_thread, W), Told(W, S),
           \A t \in Threads \ P : pc'[t] = pc[t],
           \A t \in Threads \ (P \cup W) : error'[t] = error[t],
           \A t \in P : stat[t] = "READY",
           \A t \in P : \A w \in Awaited : w[2] \notin S =>
              \/ ~Awaits(t, w) /\ ~Awaits(t, w)'
              \/ (Awaits(t, w) <=> Awaits(t, w)') /\ error'[t] = error[t]
    PROVE  GrantStep(S)
<1> SUFFICES ASSUME NEW w \in Awaited, w[2] \notin S, NEW t \in Threads
             PROVE  t \in Receivers(w)' <=> t \in Receivers(w)
  BY DEF GrantStep, Receivers
<1> DEFINE l == w[2]
<1>1. l \in Lists /\ WaitsOn(w, l)
  BY AwaitedIs
<1>2. Range(suspend_thread'[l]) = Range(suspend_thread[l]) \ W
  BY <1>1 DEF Less
<1>3. /\ t \in Receivers(w) <=> Awaits(t, w) /\ error[t] = "EOK"
            /\ t \notin Range(suspend_thread[l])
      /\ t \in Receivers(w)' <=>
            Awaits(t, w)' /\ error'[t] = "EOK" /\ t \notin Range(suspend_thread'[l])
  BY DEF Receivers, Awaited
<1> HIDE DEF l
<1>4. \A u \in Threads : pc'[u] = pc[u] => (Awaits(u, w)' <=> Awaits(u, w))
  BY DEF Awaits, Awaited
<1>5. CASE t \in W
  <2>1. stat[t] = "SUSPEND" /\ t \notin P
    BY <1>5 DEF Told
  <2>2. t \notin Receivers(w)
    BY <1>3, <2>1, SuspendedAwaits DEF l
  <2>3. t \notin Receivers(w)'
    <3> SUFFICES ASSUME Awaits(t, w)', error'[t] = "EOK" PROVE FALSE
      BY <1>3
    <3>1. PICK k \in S : k \in Lists /\ t \in Range(suspend_thread[k])
      BY <1>5 DEF Told
    <3>2. Awaits(t, w)
      BY <1>4, <2>1
    <3>3. PICK v \in Waits(t) : InWait(t, v) /\ WaitsOn(v, k)
      BY <3>1 DEF KInv, WaitersAreCalling
    <3>4. v = w
      BY <2>1, <3>2, <3>3, SuspendedAwaits
    <3> QED BY <1>1, <3>1, <3>3, <3>4, WaitsOnOne DEF l
  <2> QED BY <2>2, <2>3
<1>6. CASE t \notin W /\ t \in P
  BY <1>2, <1>3, <1>6 DEF l
<1>7. CASE t \notin W /\ t \notin P
  BY <1>2, <1>3, <1>4, <1>7
<1> QED BY <1>5, <1>6, <1>7

\* The objects that the steps of a loop name.
LEMMA LoopObject ==
    ASSUME NEW e \in Loops
    PROVE  /\ e[1] \in {"mailsend", "mailrecv"} => e[2] \in Mailboxes
           /\ e[1] = "mailsend" => e[4] \in Mails
           /\ e[1] = "msgrecv" => e[2] \in Queues
           /\ e[1] = "mpalloc" => e[2] \in Pools
           /\ e[3] \in Times
           /\ \A left \in Times : /\ [e EXCEPT ![3] = left] \in Loops
                                  /\ [e EXCEPT ![3] = left][1] = e[1]
                                  /\ [e EXCEPT ![3] = left][2] = e[2]
<1>1. CASE e \in {"mailrecv"} \X Mailboxes \X Times
  <2>1. PICK o \in Mailboxes, w \in Times : e = <<"mailrecv", o, w>>
    BY <1>1
  <2>2. \A left : [e EXCEPT ![3] = left] = <<"mailrecv", o, left>>
    BY <2>1
  <2> QED BY <2>1, <2>2 DEF Loops
<1>2. CASE e \in {"mailsend"} \X Mailboxes \X Times \X Mails
  <2>1. PICK o \in Mailboxes, w \in Times, m \in Mails : e = <<"mailsend", o, w, m>>
    BY <1>2
  <2>2. \A left : [e EXCEPT ![3] = left] = <<"mailsend", o, left, m>>
    BY <2>1
  <2> QED BY <2>1, <2>2 DEF Loops
<1>3. CASE e \in {"msgrecv"} \X Queues \X Times
  <2>1. PICK o \in Queues, w \in Times : e = <<"msgrecv", o, w>>
    BY <1>3
  <2>2. \A left : [e EXCEPT ![3] = left] = <<"msgrecv", o, left>>
    BY <2>1
  <2> QED BY <2>1, <2>2 DEF Loops
<1>4. CASE e \in {"mpalloc"} \X Pools \X Times
  <2>1. PICK o \in Pools, w \in Times : e = <<"mpalloc", o, w>>
    BY <1>4
  <2>2. \A left : [e EXCEPT ![3] = left] = <<"mpalloc", o, left>>
    BY <2>1
  <2> QED BY <2>1, <2>2 DEF Loops
<1> QED BY <1>1, <1>2, <1>3, <1>4 DEF Loops

\* The lists that a loop on an object waits on are those of the object.
LEMMA LoopLists ==
    ASSUME NEW e \in Loops
    PROVE  /\ e[2] \in Buffers /\ e[2] \in Objects /\ Range(ListsOf[e[2]]) \subseteq Lists
           /\ \E l \in Lists : Looks(e, l) /\ l \in Range(ListsOf[e[2]])
<1> DEFINE o == e[2]
<1>1. CASE e[1] \in {"mailsend", "mailrecv"}
  <2>1. o \in Mailboxes
    BY <1>1, LoopObject
  <2>2. /\ o \in Objects /\ o \in Lists /\ ListsOf[o] = <<o, SenderList[o]>>
    BY <2>1, MailboxAssumption, IpcAssumption
  <2>3. SenderList[o] \in Lists
    <3>1. ListsOf[o] = <<o>> \/ \E l \in Lists \ Objects : ListsOf[o] = <<o, l>>
      BY <2>2, IpcAssumption
    <3>2. ListsOf[o][2] = SenderList[o] /\ DOMAIN ListsOf[o] = 1..2
      BY <2>2
    <3>3. CASE ListsOf[o] = <<o>>
      <4>1. DOMAIN ListsOf[o] = 1..1 /\ 2 \in 1..2 /\ 2 \notin 1..1
        BY <3>3
      <4> QED BY <3>2, <4>1
    <3>4. ASSUME NEW l \in Lists, ListsOf[o] = <<o, l>> PROVE SenderList[o] \in Lists
      BY <3>2, <3>4
    <3> QED BY <3>1, <3>3, <3>4
  <2>4. Range(ListsOf[o]) = {o, SenderList[o]}
    <3>1. \A a, b : Range(<<a, b>>) = {a, b}
      BY DEF Range
    <3> QED BY <2>2, <3>1
  <2>5. Looks(e, o) \/ Looks(e, SenderList[o])
    BY <1>1 DEF Looks
  <2> HIDE DEF o
  <2> QED BY <2>1, <2>2, <2>3, <2>4, <2>5 DEF Buffers, o
<1>2. CASE e[1] \in {"msgrecv", "mpalloc"}
  <2>1. o \in Queues \cup Pools
    BY <1>2, LoopObject
  <2>2. o \in Objects /\ o \in Lists /\ o \notin Mailboxes
    BY <2>1, QueueAssumption, PoolAssumption, IpcAssumption, KindsAssumption
  <2>3. Range(ListsOf[o]) = {o}
    <3>1. \A a : Range(<<a>>) = {a}
      BY DEF Range
    <3> QED BY <2>2, <3>1, KindsAssumption
  <2>4. Looks(e, o)
    BY <1>2 DEF Looks
  <2> HIDE DEF o
  <2> QED BY <2>1, <2>2, <2>3, <2>4 DEF Buffers, o
<1> QED BY <1>1, <1>2, Tags

\* A thread that looks again is at the loop, or goes on to it and waits on no list.
ComesBack(t, e) ==
    /\ InWait(t, <<"woken", e>>) /\ Awaits(t, <<"woken", e>>)
    /\ stat[t] # "SUSPEND" /\ error[t] = "EOK"
    /\ \A l \in Range(ListsOf[e[2]]) : t \notin Range(suspend_thread[l])

LEMMA LookerIs ==
    ASSUME KInv, NEW o \in Buffers, NEW label \in LoopLabels, NEW t \in ToLookAgain(o, label)
    PROVE  \E e \in Loops : e[1] = label /\ e[2] = o /\ (pc[t] = <<e>> \/ ComesBack(t, e))
<1>1. t \in Threads
  BY DEF ToLookAgain
<1>2. PICK i \in DOMAIN pc[t] :
         \/ pc[t][i][1] = label /\ pc[t][i][2] = o
         \/ /\ pc[t][i][1] = "woken" /\ pc[t][i][2][1] = label /\ pc[t][i][2][2] = o
            /\ error[t] = "EOK"
            /\ \A l \in Range(ListsOf[o]) : t \notin Range(suspend_thread[l])
  BY DEF ToLookAgain
<1> DEFINE v == pc[t][i]
<1>3. v[1] \in {"mailsend", "mailrecv", "msgrecv", "mpalloc", "woken"}
  BY <1>2 DEF LoopLabels
<1>4. InCall(t)
  BY <1>1 DEF KInv, CallsOK
<1>5. CASE \E e \in Loops : pc[t] = <<e>>
  <2>1. PICK e \in Loops : pc[t] = <<e>>
    BY <1>5
  <2>2. v = e
    BY <2>1
  <2>3. e[1] = label /\ e[2] = o
    BY <1>2, <2>1, <2>2, Tags
  <2> QED BY <2>1, <2>3
<1>6. ASSUME NEW w \in Waits(t), InWait(t, w)
      PROVE  \E e \in Loops : e[1] = label /\ e[2] = o /\ ComesBack(t, e)
  <2>1. v = w \/ v = Again(t)
    BY <1>6 DEF InWait
  <2>2. v = w /\ w[1] = "woken"
    BY <1>3, <2>1, Tags
  <2>3. w \in {"woken"} \X Loops
    BY <2>2 DEF Waits
  <2>4. PICK e \in Loops : w = <<"woken", e>>
    BY <2>3
  <2>5. /\ e[1] = label /\ e[2] = o /\ error[t] = "EOK"
        /\ \A l \in Range(ListsOf[o]) : t \notin Range(suspend_thread[l])
    BY <1>2, <2>2, <2>4 DEF LoopLabels
  <2>6. Awaits(t, <<"woken", e>>)
    BY <2>2, <2>4 DEF Awaits
  <2>7. stat[t] # "SUSPEND"
    <3> SUFFICES ASSUME stat[t] = "SUSPEND" PROVE FALSE
      OBVIOUS
    <3>1. PICK u \in Waits(t) :
             InWait(t, u) /\ \A l \in Lists : WaitsOn(u, l) => t \in Range(suspend_thread[l])
      BY <1>1 DEF KInv, CallsOK
    <3>2. u = w
      <4>1. v = u \/ v = Again(t)
        BY <3>1 DEF InWait
      <4> QED BY <2>2, <4>1, Tags
    <3>3. PICK l \in Lists : Looks(e, l) /\ l \in Range(ListsOf[o])
      BY <2>5, LoopLists
    <3>4. WaitsOn(u, l)
      BY <2>4, <3>2, <3>3 DEF WaitsOn
    <3> QED BY <2>5, <3>1, <3>3, <3>4
  <2> QED BY <1>6, <2>4, <2>5, <2>6, <2>7 DEF ComesBack
<1>7. ASSUME pc[t] \in Seq(Ending) PROVE FALSE
  <2>1. v \in Ending
    BY <1>2, <1>7, ElementOfSeq, LenProperties
  <2> QED BY <1>3, <2>1, Tags
<1>8. ASSUME pc[t] = <<Again(t)>> PROVE FALSE
  <2>1. v = Again(t)
    BY <1>8
  <2> QED BY <1>3, <2>1, Tags
<1>9. ASSUME pc[t] = <<Head(pc[t])>>, Copying(Head(pc[t])) PROVE FALSE
  <2>1. v = Head(pc[t])
    BY <1>9
  <2> QED BY <1>3, <1>9, <2>1, Tags
<1> HIDE DEF v
<1> QED BY <1>4, <1>5, <1>6, <1>7, <1>8, <1>9 DEF InCall

\* A running thread that comes out of such a wait looks again.
Woke(c) == \A e \in Loops : Awaits(c, <<"woken", e>>) =>
    error[c] # "EOK" \/ \E f : pc'[c] = <<f>> /\ f[1] = e[1] /\ f[2] = e[2]

LEMMA LooksKept ==
    ASSUME KInv, NEW P \in SUBSET Threads,
           \A t \in P : t = rt_current_thread /\ Woke(t),
           \A t \in Threads \ P :
              pc'[t] = pc[t] /\ (stat[t] # "SUSPEND" => error'[t] = error[t]),
           \A l \in Lists : Range(suspend_thread'[l]) \subseteq Range(suspend_thread[l]) \cup P
    PROVE  LookStep
<1> SUFFICES ASSUME NEW o \in Buffers, NEW label \in LoopLabels,
                    NEW t \in ToLookAgain(o, label), ~LooksNow(t, o, label)
             PROVE  t \in ToLookAgain(o, label)'
  BY DEF LookStep
<1>1. t \in Threads
  BY DEF ToLookAgain
<1>2. PICK e \in Loops :
              e[1] = label /\ e[2] = o /\ (pc[t] = <<e>> \/ ComesBack(t, e))
  BY LookerIs
<1>3. Range(ListsOf[o]) \subseteq Lists
  BY <1>2, LoopLists
<1>4. ASSUME NEW f, pc'[t] = <<f>>, f[1] = label, f[2] = o PROVE t \in ToLookAgain(o, label)'
  <2>1. 1 \in DOMAIN pc'[t] /\ pc'[t][1] = f
    BY <1>4
  <2> QED BY <1>1, <1>4, <2>1 DEF ToLookAgain
<1>5. CASE pc[t] = <<e>>
  <2>1. t \notin P => pc'[t] = pc[t]
    BY <1>1
  <2>2. pc'[t] = <<e>>
    BY <1>2, <1>5, <2>1 DEF LooksNow
  <2> QED BY <1>2, <1>4, <2>2
<1>6. CASE ComesBack(t, e)
  <2> USE DEF ComesBack
  <2>1. CASE t \in P
    <3>1. PICK f : pc'[t] = <<f>> /\ f[1] = e[1] /\ f[2] = e[2]
      BY <1>6, <2>1 DEF Woke
    <3> QED BY <1>2, <1>4, <3>1
  <2>2. CASE t \notin P
    <3>1. /\ pc'[t] = pc[t] /\ error'[t] = "EOK"
          /\ \A l \in Range(ListsOf[o]) : t \notin Range(suspend_thread'[l])
      BY <1>1, <1>2, <1>3, <1>6, <2>2
    <3>2. PICK i \in DOMAIN pc[t] : pc[t][i] = <<"woken", e>>
      BY <1>6 DEF Awaits
    <3>3. i \in DOMAIN pc'[t] /\ pc'[t][i][1] = "woken" /\ pc'[t][i][2] = e
      BY <3>1, <3>2
    <3> QED BY <1>1, <1>2, <3>1, <3>3 DEF ToLookAgain
  <2> QED BY <2>1, <2>2
<1> QED BY <1>2, <1>5, <1>6

LEMMA AtWorkWoke ==
    ASSUME NEW c, AtWork(c)
    PROVE  rt_current_thread = c /\ Woke(c)
BY DEF AtWork, Woke

LEMMA Undisturbed ==
    ASSUME KInv, UNCHANGED <<stat, armed, queues, suspend_thread, current_priority>>
    PROVE  Resumes({})
<1>1. stat = [t \in Threads |-> IF t \in {} THEN "READY" ELSE stat[t]]
  BY DEF KInv, Regular, TcbOK
<1>2. Less(suspend_thread', suspend_thread, {})
  BY LessByNone DEF KInv
<1>3. armed' = armed \ {}
  OBVIOUS
<1>4. QueueOK(stat', current_priority', rt_thread_priority_table',
              rt_thread_ready_priority_group')
  BY DEF KInv, ReadyQueueOK, queues
<1> QED BY <1>1, <1>2, <1>3, <1>4 DEF Resumes

\* The running thread goes on, and those of W are resumed.
LEMMA GoesOnFrom ==
    ASSUME KInv, NEW S, NEW c \in Threads \ {Idle}, stat[c] = "READY",
           rt_current_thread = c, Woke(c),
           \A w \in Awaited : w[2] \notin S => ~Awaits(c, w), Moves(c), Goes(c),
           NEW W \in SUBSET Threads, Resumes(W), Told(W, S),
           current_priority' \in [Threads -> Prios], PriorityStep(S),
           error' \in [Threads -> Errors],
           \A t \in Threads \ (W \cup {c}) : error'[t] = error[t],
           UNCHANGED <<remaining_tick, rt_thread_defunct, rt_current_thread,
                       rt_scheduler_lock_nest, isr>>
    PROVE  KStep(S)
<1>1. TcbOK /\ isr \in {"none", "tick"}
  BY DEF KInv, Regular
<1>2. TcbOK'
  BY <1>1 DEF TcbOK, Resumes, Stats
<1>3. ReadyQueueOK'
  BY DEF ReadyQueueOK, Resumes
<1>4. \A t \in Threads : stat'[t] = IF t \in W THEN "READY" ELSE stat[t]
  BY DEF Resumes
<1>5. {c} \in SUBSET (Threads \ {Idle}) /\ \A t \in {c} : stat[t] = "READY" /\ InCall(t)'
  <2>1. \A t \in {c} : t = c
    OBVIOUS
  <2> QED BY <2>1 DEF Goes, InCall, InWait, Waits, Again
<1>6. armed' \subseteq armed \ W /\ Less(suspend_thread', suspend_thread, W)
  BY DEF Resumes
<1>7. DOMAIN pc' = Threads /\ \A t \in Threads \ {c} : pc'[t] = pc[t]
  BY DEF Moves
<1>8. \A t \in Threads \ ({c} \cup W) : error'[t] = error[t]
  OBVIOUS
<1>9. KInv'
  BY <1>1, <1>2, <1>3, <1>4, <1>5, <1>6, <1>7, <1>8, GoesOn
<1>10. \A t \in {c} : \A w \in Awaited : w[2] \notin S =>
             \/ ~Awaits(t, w) /\ ~Awaits(t, w)'
             \/ (Awaits(t, w) <=> Awaits(t, w)') /\ error'[t] = error[t]
  <2>1. \A t \in {c} : t = c
    OBVIOUS
  <2> QED BY <2>1 DEF Goes, Awaits, Awaited
<1>11. GrantStep(S)
  <2>1. \A t \in {c} : stat[t] = "READY"
    BY <1>5
  <2>2. {c} \in SUBSET Threads /\ W \in SUBSET Threads
    OBVIOUS
  <2> QED BY ONLY KInv, Told(W, S), <1>6, <1>7, <1>8, <1>10, <2>1, <2>2, GrantsKept
<1>12. LookStep
  <2>1. /\ {c} \in SUBSET Threads /\ \A t \in {c} : t = c
        /\ \A t \in W : stat[t] = "SUSPEND"
    BY DEF Told
  <2>2. \A t \in Threads \ {c} :
           pc'[t] = pc[t] /\ (stat[t] # "SUSPEND" => error'[t] = error[t])
    BY <1>7, <1>8, <2>1
  <2>3. \A l \in Lists : Range(suspend_thread'[l]) \subseteq Range(suspend_thread[l]) \cup {c}
    BY <1>6 DEF Less
  <2> QED BY <2>1, <2>2, <2>3, LooksKept
<1> QED BY <1>6, <1>9, <1>11, <1>12, NobodyJoins DEF KStep, ListStep

LEMMA GoesOnResuming ==
    ASSUME KInv, NEW S, NEW c \in Threads \ {Idle}, AtWork(c), Moves(c), Goes(c),
           NEW W \in SUBSET Threads, Resumes(W), Told(W, S), error' \in [Threads -> Errors],
           \A t \in Threads \ (W \cup {c}) : error'[t] = error[t],
           UNCHANGED <<current_priority, remaining_tick, rt_thread_defunct, rt_current_thread,
                       rt_scheduler_lock_nest, isr>>
    PROVE  KStep(S)
<1>1. PriorityStep(S) /\ current_priority' \in [Threads -> Prios]
  BY DEF PriorityStep, KInv, Regular, TcbOK
<1>2. stat[c] = "READY" /\ \A w \in Awaited : w[2] \notin S => ~Awaits(c, w)
  BY DEF AtWork
<1>3. rt_current_thread = c /\ Woke(c)
  BY AtWorkWoke
<1> QED BY <1>1, <1>2, <1>3, GoesOnFrom

\* It goes on, and nobody is.
LEMMA Calmly ==
    ASSUME KInv, NEW c \in Threads \ {Idle}, AtWork(c), Moves(c), Goes(c),
           UNCHANGED <<stat, current_priority, remaining_tick, armed, lists, rt_current_thread,
                       rt_scheduler_lock_nest, isr>>,
           error' \in [Threads -> Errors], \A t \in Threads \ {c} : error'[t] = error[t]
    PROVE  KStep({})
<1>1. Resumes({})
  BY Undisturbed DEF lists
<1>2. current_priority' \in [Threads -> Prios]
  BY DEF KInv, Regular, TcbOK
<1>3. {} \in SUBSET Threads /\ \A t \in Threads \ ({} \cup {c}) : error'[t] = error[t]
  OBVIOUS
<1> QED BY <1>1, <1>2, <1>3, ToldNobody, GoesOnResuming DEF lists

LEMMA Quietly ==
    ASSUME KInv, NEW c \in Threads \ {Idle}, AtWork(c), Moves(c), Goes(c),
           UNCHANGED <<tcb, lists, rt_current_thread, rt_scheduler_lock_nest, isr>>
    PROVE  KStep({})
<1>1. error' \in [Threads -> Errors] /\ error' = error
  BY DEF KInv, Regular, TcbOK, tcb
<1> QED BY <1>1, Calmly DEF tcb

\* The thread that runs makes a call that leaves the kernel as it is.
LEMMA CallsQuietly ==
    ASSUME KInv, api \in Apis, NEW c \in Threads, NEW call, Call(c, call), NEW s, Goto(c, s),
           pc'[c] = s => Goes(c),
           UNCHANGED <<tcb, lists, rt_current_thread, rt_scheduler_lock_nest, isr>>
    PROVE  KStep({})
BY Calls, GotoMoves, Quietly

\* A handler runs, or the tick, and the threads of W are resumed.
LEMMA Handling ==
    ASSUME KInv, NEW S, NEW W \in SUBSET Threads, Resumes(W), Told(W, S),
           isr' \in {"none", "tick"},
           remaining_tick' \in [Threads -> 1..InitTick], error' \in [Threads -> Errors],
           \A t \in Threads \ W : error'[t] = error[t],
           UNCHANGED <<pc, current_priority, rt_thread_defunct, rt_scheduler_lock_nest>>,
           rt_current_thread' = rt_current_thread \/ Schedule
    PROVE  KStep(S)
<1>1. TcbOK
  BY DEF KInv, Regular
<1>2. TcbOK'
  BY <1>1 DEF TcbOK, Resumes, Stats
<1>3. ReadyQueueOK'
  BY DEF ReadyQueueOK, Resumes
<1>4. \A t \in Threads : stat'[t] = IF t \in W THEN "READY" ELSE stat[t]
  BY DEF Resumes
<1>5. armed' \subseteq armed \ W /\ Less(suspend_thread', suspend_thread, W)
  BY DEF Resumes
<1>6. DOMAIN pc' = Threads /\ \A t \in Threads \ {} : pc'[t] = pc[t]
  BY DEF KInv, Regular
<1>7. {} \in SUBSET (Threads \ {Idle}) /\ \A t \in {} : stat[t] = "READY" /\ InCall(t)'
  OBVIOUS
<1>8. \A t \in Threads \ ({} \cup W) : error'[t] = error[t]
  OBVIOUS
<1>9. KInv'
  BY <1>2, <1>3, <1>4, <1>5, <1>6, <1>7, <1>8, GoesOn
<1>10. \A t \in {} : \A w \in Awaited : w[2] \notin S =>
             \/ ~Awaits(t, w) /\ ~Awaits(t, w)'
             \/ (Awaits(t, w) <=> Awaits(t, w)') /\ error'[t] = error[t]
  OBVIOUS
<1>11. GrantStep(S)
  <2>1. \A t \in {} : stat[t] = "READY"
    OBVIOUS
  <2>2. {} \in SUBSET Threads /\ W \in SUBSET Threads
    OBVIOUS
  <2> QED BY ONLY KInv, Told(W, S), <1>5, <1>6, <1>8, <1>10, <2>1, <2>2, GrantsKept
<1>12. LookStep
  <2>1. {} \in SUBSET Threads /\ (\A t \in {} : t = rt_current_thread /\ Woke(t))
        /\ \A t \in W : stat[t] = "SUSPEND"
    BY DEF Told
  <2>2. \A t \in Threads \ {} :
           pc'[t] = pc[t] /\ (stat[t] # "SUSPEND" => error'[t] = error[t])
    BY <1>8, <2>1
  <2>3. \A l \in Lists : Range(suspend_thread'[l]) \subseteq Range(suspend_thread[l]) \cup {}
    BY <1>5 DEF Less
  <2> QED BY <2>1, <2>2, <2>3, LooksKept
<1> QED BY <1>5, <1>9, <1>11, <1>12, NobodyJoins DEF KStep, ListStep, PriorityStep

\* rt_ipc_list_resume, after a change of the priority of a thread that is ready.
LEMMA HeadIsResumed ==
    ASSUME KInv, NEW l \in Lists, suspend_thread[l] # <<>>, NEW table, NEW group,
           current_priority' \in [Threads -> Prios],
           \A t \in Threads :
              stat[t] = "SUSPEND" => current_priority'[t] = current_priority[t],
           QueueOK(stat, current_priority', table, group), HeadResumedOn(l, table, group)
    PROVE  {Head(suspend_thread[l])} \in SUBSET Threads /\ Resumes({Head(suspend_thread[l])})
<1> DEFINE h == Head(suspend_thread[l])
<1>1. /\ Less([suspend_thread EXCEPT ![l] = Tail(@)], suspend_thread, {h})
      /\ h \in Threads /\ stat[h] = "SUSPEND"
  BY LessByHead DEF KInv
<1>2. stat \in [Threads -> Stats] /\ current_priority'[h] = current_priority[h]
  BY <1>1 DEF KInv, Regular, TcbOK
<1> HIDE DEF h
<1>3. /\ suspend_thread' = [suspend_thread EXCEPT ![l] = Tail(@)]
      /\ armed' = armed \ {h} /\ stat' = [stat EXCEPT ![h] = "READY"]
      /\ rt_thread_priority_table' = [table EXCEPT ![current_priority'[h]] = Append(@, h)]
      /\ rt_thread_ready_priority_group' = group \cup {current_priority'[h]}
  BY <1>1, <1>2 DEF HeadResumedOn, TimerStopped, Inserted, h
<1>4. QueueOK(stat', current_priority', rt_thread_priority_table',
              rt_thread_ready_priority_group')
  BY <1>1, <1>2, <1>3, QueueWith
<1>5. stat' = [t \in Threads |-> IF t \in {h} THEN "READY" ELSE stat[t]]
  BY <1>2, <1>3
<1>6. Resumes({h})
  BY <1>1, <1>3, <1>4, <1>5 DEF Resumes
<1> QED BY <1>1, <1>6 DEF h

\* The thread that FirstResumed resumes.
First(l) == IF suspend_thread[l] # <<>> THEN {Head(suspend_thread[l])} ELSE {}

LEMMA FirstIsResumed ==
    ASSUME KInv, NEW l \in Lists, UNCHANGED current_priority, FirstResumed(l)
    PROVE  First(l) \in SUBSET Threads /\ Resumes(First(l))
<1>1. /\ current_priority' \in [Threads -> Prios]
      /\ QueueOK(stat, current_priority', rt_thread_priority_table,
                 rt_thread_ready_priority_group)
  BY DEF KInv, Regular, TcbOK, ReadyQueueOK
<1>2. CASE suspend_thread[l] # <<>>
  <2>1. HeadResumedOn(l, rt_thread_priority_table, rt_thread_ready_priority_group)
    BY <1>2 DEF FirstResumed, HeadResumed
  <2>2. First(l) = {Head(suspend_thread[l])}
    BY <1>2 DEF First
  <2> QED BY <1>1, <1>2, <2>1, <2>2, HeadIsResumed
<1>3. CASE suspend_thread[l] = <<>>
  <2>1. First(l) = {} /\ UNCHANGED <<suspend_thread, armed, stat, queues>>
    BY <1>3 DEF First, FirstResumed, NobodyResumed
  <2> QED BY <2>1, Undisturbed
<1> QED BY <1>2, <1>3

\* Some threads of a list are resumed.
LEMMA SomeAreResumed ==
    ASSUME KInv, NEW q \in Seq(Threads), IsInjective(q), NEW S \in SUBSET Range(q),
           \A t \in S : stat[t] = "SUSPEND", SomeResumed(q, S), UNCHANGED current_priority,
           Less(suspend_thread', suspend_thread, S)
    PROVE  S \in SUBSET Threads /\ Resumes(S)
<1>1. stat \in [Threads -> Stats] /\ current_priority \in [Threads -> Prios]
  BY DEF KInv, Regular, TcbOK
<1>2. Range(q) \subseteq Threads
  BY ElementOfSeq, LenProperties DEF Range
<1>3. QueueOK(Readied(stat, S), current_priority,
              Lengthened(rt_thread_priority_table, current_priority, q, S),
              rt_thread_ready_priority_group \cup Raised(current_priority, S))
  <2>1. \A t \in S : stat[t] # "READY"
    OBVIOUS
  <2>2. QueueOK(stat, current_priority, rt_thread_priority_table,
                rt_thread_ready_priority_group)
    BY DEF KInv, ReadyQueueOK
  <2> QED BY <1>1, <2>1, <2>2, QueueWithAll
<1> QED BY <1>2, <1>3 DEF SomeResumed, Resumes, Readied, Lengthened, Raised

\* A thread that joins a list has not been given what it waits for.
LEMMA WaitGrants ==
    ASSUME KInv, NEW S, NEW c \in Threads, AtWork(c), NEW w, pc'[c] = <<Again(c), w>>,
           NEW l \in Lists, WaitsOn(w, l), NEW q, Range(q) = Range(suspend_thread[l]) \cup {c},
           suspend_thread' = [suspend_thread EXCEPT ![l] = q],
           \A t \in Threads \ {c} : pc'[t] = pc[t] /\ error'[t] = error[t]
    PROVE  GrantStep(S)
<1> SUFFICES ASSUME NEW v \in Awaited, NEW t \in Threads
             PROVE  t \in Receivers(v)' <=> t \in Receivers(v)
  BY DEF GrantStep, Receivers
<1>1. v[2] \in Lists /\ WaitsOn(v, v[2]) /\ v # Again(c)
  BY AwaitedIs DEF Again
<1>2. Range(suspend_thread'[v[2]]) \ {c} = Range(suspend_thread[v[2]]) \ {c}
      /\ Range(suspend_thread'[l]) = Range(suspend_thread[l]) \cup {c}
  BY <1>1 DEF KInv, WaitersOK
<1>3. CASE t # c
  BY <1>1, <1>2, <1>3 DEF Receivers, Awaits, Awaited
<1>4. CASE t = c
  <2>1. t \notin Receivers(v)
    BY <1>4 DEF Receivers, AtWork
  <2>2. Awaits(t, v)' => v = w
    <3>1. \A i \in DOMAIN pc'[c] : pc'[c][i] \in {Again(c), w}
      OBVIOUS
    <3> QED BY <1>1, <1>4, <3>1 DEF Awaits, Awaited
  <2>3. v = w => v[2] = l
    BY <1>1, WaitsOnOne
  <2>4. t \notin Receivers(v)'
    BY <1>2, <1>4, <2>2, <2>3 DEF Receivers, Awaited
  <2> QED BY <2>1, <2>4
<1> QED BY <1>3, <1>4

\* rt_ipc_list_suspend and what goes with it, after a change of the priority of
\* another thread.
LEMMA WaitBegins ==
    ASSUME KInv, NEW S, NEW c \in Threads \ {Idle}, rt_current_thread = c, AtWork(c),
           NEW l \in Lists, NEW timed, NEW table, NEW group,
           current_priority' \in [Threads -> Prios],
           current_priority'[c] = current_priority[c],
           PriorityStep(S), l \in S,
           QueueOK(stat, current_priority', table, group), WaitOn(c, l, timed, table, group),
           NEW w \in Waits(c), WaitsOn(w, l), Moves(c), pc'[c] = <<Again(c), w>>,
           UNCHANGED <<remaining_tick, rt_thread_defunct, rt_current_thread,
                       rt_scheduler_lock_nest, isr>>
    PROVE  KStep(S) /\ GrantStep({})
<1> stat[c] = "READY"
  BY DEF AtWork
<1>1. TcbOK /\ DOMAIN pc' = Threads /\ \A t \in Threads \ {c} : pc'[t] = pc[t]
  BY DEF KInv, Regular, Moves
<1>2. stat \in [Threads -> Stats] /\ current_priority \in [Threads -> Prios]
      /\ error \in [Threads -> Errors] /\ armed \subseteq Threads
  BY <1>1 DEF TcbOK
<1>3. /\ error' = [error EXCEPT ![c] = "EOK"] /\ stat' = [stat EXCEPT ![c] = "SUSPEND"]
      /\ rt_thread_priority_table' = Unlinked(table, c)
      /\ rt_thread_ready_priority_group' =
            IF Unlinked(table, c)[current_priority'[c]] = <<>>
            THEN group \ {current_priority'[c]} ELSE group
      /\ suspend_thread' = [suspend_thread EXCEPT ![l] = Enqueued(l, c)]
  BY DEF WaitOn, Suspended
<1>4. armed' \subseteq armed \cup {c}
  BY DEF WaitOn, TimerStopped
<1>5. TcbOK'
  BY <1>1, <1>2, <1>3, <1>4 DEF TcbOK, Stats, Errors
<1>6. ReadyQueueOK'
  BY <1>2, <1>3, QueueWithout DEF ReadyQueueOK
<1>7. \A t \in Threads \ {c} : error'[t] = error[t]
  BY <1>2, <1>3
<1>8. error'[c] = "EOK"
  BY <1>2, <1>3
<1> DEFINE q == Enqueued(l, c)
<1>9. suspend_thread[l] \in Seq(Threads)
  BY DEF KInv, WaitersOK
<1>10. /\ q \in Seq(Threads) /\ Range(q) = Range(suspend_thread[l]) \cup {c}
       /\ (IsInjective(suspend_thread[l]) /\ c \notin Range(suspend_thread[l])
              => IsInjective(q))
  <2>1. CASE l \in Newest
    BY <1>9, <2>1, ConsRange DEF Enqueued
  <2>2. CASE l \notin Newest
    <3>1. q = EnqueuedIn(suspend_thread[l], c, l \in Fifo)
      BY <2>2 DEF Enqueued
    <3> QED BY <1>2, <1>9, <3>1, EnqueuedInIs
  <2> QED BY <2>1, <2>2
<1> HIDE DEF q
<1>11. \E k \in Lists, r \in Seq(Threads) :
                 /\ suspend_thread' = [suspend_thread EXCEPT ![k] = r]
                 /\ (IsInjective(suspend_thread[k]) /\ c \notin Range(suspend_thread[k])
                        => IsInjective(r))
                 /\ Range(r) = Range(suspend_thread[k]) \cup {c}
                 /\ WaitsOn(w, k) /\ error'[c] = "EOK"
  BY <1>3, <1>8, <1>10 DEF q
<1>12. KInv'
  BY <1>1, <1>3, <1>4, <1>5, <1>6, <1>7, <1>11, BeginsToWait
<1>13. GrantStep(S) /\ GrantStep({})
  BY <1>1, <1>2, <1>3, <1>7, <1>10, WaitGrants DEF q
<1>14. JoinStep(S)
  BY <1>3 DEF JoinStep, KInv, WaitersOK
<1>15. LookStep
  <2>1. {c} \in SUBSET Threads /\ \A t \in {c} : t = rt_current_thread /\ Woke(t)
    BY AtWorkWoke
  <2>2. \A k \in Lists : Range(suspend_thread'[k]) \subseteq Range(suspend_thread[k]) \cup {c}
    BY <1>3, <1>10 DEF q, KInv, WaitersOK
  <2>3. \A t \in Threads \ {c} :
           pc'[t] = pc[t] /\ (stat[t] # "SUSPEND" => error'[t] = error[t])
    BY <1>1, <1>7
  <2> QED BY <2>1, <2>2, <2>3, LooksKept
<1> QED BY <1>3, <1>12, <1>13, <1>14, <1>15 DEF KStep, ListStep, Enters

-----------------------------------------------------------------------------
(* The steps of the kernel.                                                *)

LEMMA WaitersUnlinked ==
    ASSUME NEW susp, NEW st, WaitersOK(susp, st), NEW t \in Threads, st[t] # "SUSPEND"
    PROVE  Unlinked(susp, t) = susp
<1>1. susp \in [Lists -> Seq(Threads)]
  BY DEF WaitersOK
<1>2. ASSUME NEW l \in Lists PROVE RemoveFirst(susp[l], t) = susp[l]
  <2>1. t \notin Range(susp[l])
    BY DEF WaitersOK
  <2> QED BY <1>1, <2>1, RemoveAbsent
<1>3. DOMAIN susp = Lists /\ susp = [l \in Lists |-> susp[l]]
  BY <1>1
<1> QED BY <1>2, <1>3 DEF Unlinked

LEMMA NothingDefunct ==
    ASSUME KInv, NEW t
    PROVE  RemoveFirst(rt_thread_defunct, t) = rt_thread_defunct
<1>1. rt_thread_defunct = <<>> /\ rt_thread_defunct \in Seq(Threads)
  BY DEF KInv, Regular
<1>2. t \notin Range(rt_thread_defunct)
  BY <1>1 DEF Range
<1> QED BY <1>1, <1>2, RemoveAbsent

LEMMA SchedStep ==
    ASSUME KInv, NEW c \in Threads, Sched(c)
    PROVE  KStep({})
<1>1. KInv' /\ SameSteps
  BY Reschedules
<1>2. UNCHANGED suspend_thread
  BY DEF Sched, lists
<1>3. Less(suspend_thread', suspend_thread, {})
  BY <1>2, LessByNone DEF KInv
<1>4. UNCHANGED <<error, current_priority>>
  BY DEF Sched, tcb
<1>5. GrantStep({})
  <2> SUFFICES ASSUME NEW w \in Awaited PROVE Receivers(w)' = Receivers(w)
    BY DEF GrantStep
  <2>1. w[1] # "sched"
    BY AwaitedIs
  <2> QED BY <1>1, <1>2, <1>4, <2>1 DEF Receivers, Awaits, Awaited, SameSteps
<1>6. LookStep
  <2> SUFFICES ASSUME NEW o \in Buffers, NEW label \in LoopLabels,
                      NEW t \in ToLookAgain(o, label)
               PROVE  t \in ToLookAgain(o, label)'
    BY DEF LookStep
  <2>1. t \in Threads
    BY DEF ToLookAgain
  <2>2. PICK w : /\ \E i \in DOMAIN pc[t] : pc[t][i] = w
                 /\ \/ w[1] = label /\ w[2] = o
                    \/ /\ w[1] = "woken" /\ w[2][1] = label /\ w[2][2] = o
                       /\ error[t] = "EOK"
                       /\ \A l \in Range(ListsOf[o]) : t \notin Range(suspend_thread[l])
    BY DEF ToLookAgain
  <2>3. w[1] # "sched"
    BY <2>2 DEF LoopLabels
  <2>4. \E i \in DOMAIN pc'[t] : pc'[t][i] = w
    BY <1>1, <2>1, <2>2, <2>3 DEF SameSteps
  <2> QED BY <1>2, <1>4, <2>1, <2>2, <2>4 DEF ToLookAgain
<1> QED BY <1>1, <1>3, <1>4, <1>5, <1>6, NobodyJoins DEF KStep, ListStep, PriorityStep

LEMMA SleepStep ==
    ASSUME KInv, api \in Apis, NEW c \in Threads, Sleep(c)
    PROVE  KStep({})
<1> DEFINE w == <<"awake", c>>
<1>1. /\ Call(c, "sleep") /\ Goto(c, << Again(c), w >>) /\ armed' = armed \cup {c}
      /\ UNCHANGED <<current_priority, remaining_tick, error, rt_current_thread,
                     rt_scheduler_lock_nest, isr>>
  BY DEF Sleep, Again
<1>2. c \in Threads \ {Idle} /\ rt_current_thread = c /\ stat[c] = "READY" /\ isr = "none"
      /\ AtWork(c)
  BY <1>1, Calls
<1>3. /\ stat' = [stat EXCEPT ![c] = "SUSPEND"] /\ RemoveThread(c)
  BY <1>2 DEF Sleep
<1>4. Moves(c) /\ pc'[c] = <<Again(c), w>>
  <2> HIDE DEF w
  <2> QED BY <1>1, GotoMoves
<1>5. /\ rt_thread_priority_table' = Unlinked(rt_thread_priority_table, c)
      /\ UNCHANGED <<rt_thread_defunct, suspend_thread>>
      /\ rt_thread_ready_priority_group' =
            IF Unlinked(rt_thread_priority_table, c)[current_priority[c]] = <<>>
            THEN rt_thread_ready_priority_group \ {current_priority[c]}
            ELSE rt_thread_ready_priority_group
  <2>1. Unlinked(suspend_thread, c) = suspend_thread
    BY <1>2, WaitersUnlinked DEF KInv
  <2> QED BY <1>3, <2>1, NothingDefunct DEF RemoveThread, Unlink, GroupAfterRemove
<1>6. TcbOK /\ stat \in [Threads -> Stats] /\ current_priority \in [Threads -> Prios]
  BY DEF KInv, Regular, TcbOK
<1>7. TcbOK'
  BY <1>1, <1>3, <1>6 DEF TcbOK, Stats
<1>8. ReadyQueueOK'
  <2>1. QueueOK(stat, current_priority, rt_thread_priority_table,
                rt_thread_ready_priority_group)
    BY DEF KInv, ReadyQueueOK
  <2> QED BY <1>1, <1>2, <1>3, <1>5, <1>6, <2>1, QueueWithout DEF ReadyQueueOK
<1>9. w \in Waits(c) /\ w[1] = "awake" /\ \A l \in Lists : ~WaitsOn(w, l)
  BY DEF Waits, WaitsOn
<1>10. DOMAIN pc' = Threads /\ \A t \in Threads \ {c} : pc'[t] = pc[t]
  BY <1>4 DEF Moves
<1>11. armed' \subseteq armed \cup {c} /\ \A t \in Threads \ {c} : error'[t] = error[t]
  BY <1>1
<1> HIDE DEF w
<1>12. KInv'
  BY <1>1, <1>2, <1>3, <1>4, <1>5, <1>7, <1>8, <1>9, <1>10, <1>11, BeginsToWait
<1>13. Less(suspend_thread', suspend_thread, {})
  BY <1>5, LessByNone DEF KInv
<1>14. GrantStep({})
  <2> SUFFICES ASSUME NEW v \in Awaited PROVE Receivers(v)' = Receivers(v)
    BY DEF GrantStep
  <2>1. v # w /\ v # Again(c)
    BY <1>9, AwaitedIs DEF Again
  <2>2. ~Awaits(c, v)
    BY <1>2 DEF AtWork
  <2>3. ~Awaits(c, v)'
    BY <1>4, <2>1 DEF Awaits, Awaited
  <2> QED BY <1>1, <1>5, <1>10, <2>2, <2>3 DEF Receivers, Awaits, Awaited
<1>15. LookStep
  <2>1. {c} \in SUBSET Threads /\ \A t \in {c} : t = rt_current_thread /\ Woke(t)
    BY <1>2, AtWorkWoke
  <2>2. \A l \in Lists : Range(suspend_thread'[l]) \subseteq Range(suspend_thread[l]) \cup {c}
    BY <1>5
  <2>3. \A t \in Threads \ {c} :
           pc'[t] = pc[t] /\ (stat[t] # "SUSPEND" => error'[t] = error[t])
    BY <1>10, <1>11
  <2> QED BY <2>1, <2>2, <2>3, LooksKept
<1> QED BY <1>1, <1>12, <1>13, <1>14, <1>15, NobodyJoins DEF KStep, ListStep, PriorityStep

\* The running thread goes to the tail of its ready list.
LEMMA Rotating ==
    ASSUME KInv, NEW t \in Threads, stat[t] = "READY", rt_thread_priority_table' = Rotated(t),
           UNCHANGED <<stat, armed, suspend_thread, current_priority,
                       rt_thread_ready_priority_group>>
    PROVE  Resumes({})
<1>1. stat \in [Threads -> Stats] /\ current_priority \in [Threads -> Prios]
  BY DEF KInv, Regular, TcbOK
<1>2. QueueOK(stat, current_priority, rt_thread_priority_table,
              rt_thread_ready_priority_group)
  BY DEF KInv, ReadyQueueOK
<1>3. QueueOK(stat', current_priority', rt_thread_priority_table',
              rt_thread_ready_priority_group')
  BY <1>1, <1>2, QueueRotated DEF Rotated
<1>4. stat = [u \in Threads |-> IF u \in {} THEN "READY" ELSE stat[u]]
  BY <1>1
<1>5. Less(suspend_thread', suspend_thread, {})
  BY LessByNone DEF KInv
<1> QED BY <1>3, <1>4, <1>5 DEF Resumes

LEMMA YieldStep ==
    ASSUME KInv, api \in Apis, NEW c \in Threads, Yield(c)
    PROVE  KStep({})
<1>1. /\ Call(c, "yield") /\ Goto(c, << Again(c) >>) /\ Rotates(c)
      /\ rt_thread_priority_table' = Rotated(c)
      /\ UNCHANGED <<tcb, rt_thread_ready_priority_group, rt_thread_defunct,
                     suspend_thread, rt_current_thread, rt_scheduler_lock_nest, isr>>
  BY DEF Yield, Again
<1>2. c \in Threads \ {Idle} /\ rt_current_thread = c /\ stat[c] = "READY" /\ AtWork(c)
  BY <1>1, Calls
<1>3. Moves(c) /\ pc'[c] = <<Again(c)>>
  BY <1>1, GotoMoves
<1>4. Goes(c)
  BY <1>3, InCallNext
<1>5. Resumes({})
  BY <1>1, <1>2, Rotating DEF tcb
<1>6. /\ UNCHANGED <<current_priority, error, remaining_tick>>
      /\ current_priority' \in [Threads -> Prios] /\ error' \in [Threads -> Errors]
  BY <1>1 DEF tcb, KInv, Regular, TcbOK
<1>7. {} \in SUBSET Threads /\ \A t \in Threads \ ({} \cup {c}) : error'[t] = error[t]
  BY <1>6
<1> QED BY <1>1, <1>2, <1>3, <1>4, <1>5, <1>6, <1>7, ToldNobody, GoesOnResuming

LEMMA ScheduleCallStep ==
    ASSUME KInv, api \in Apis, NEW c \in Threads, ScheduleCall(c)
    PROVE  KStep({})
<1>1. /\ Call(c, "schedule") /\ Goto(c, << Again(c) >>)
      /\ UNCHANGED <<tcb, lists, rt_current_thread, rt_scheduler_lock_nest, isr>>
  BY DEF ScheduleCall, Again
<1>2. pc'[c] = <<Again(c)>> => Goes(c)
  BY InCallNext
<1> QED BY <1>1, <1>2, CallsQuietly

LEMMA SleepReturnStep ==
    ASSUME KInv, NEW c \in Threads, SleepReturn(c)
    PROVE  KStep({})
<1>1. /\ At(c, "awake") /\ Proceed(c, <<>>)
      /\ error' = [error EXCEPT ![c] = IF @ = "ETIMEOUT" THEN "EOK" ELSE @]
      /\ UNCHANGED <<stat, current_priority, remaining_tick, armed, lists,
                     rt_current_thread, rt_scheduler_lock_nest, isr>>
  BY DEF SleepReturn, Return
<1>2. c \in Threads \ {Idle} /\ AtWork(c) /\ pc[c] = <<Head(pc[c])>>
  BY <1>1, AtWait
<1>3. Moves(c) /\ pc'[c] = <<>>
  <2>1. <<>> \in Seq(Threads)
    OBVIOUS
  <2> QED BY <1>1, <1>2, <2>1, AfterOne
<1>4. Goes(c)
  BY <1>3, InCallNext
<1>5. error \in [Threads -> Errors]
  BY DEF KInv, Regular, TcbOK
<1>6. error' \in [Threads -> Errors] /\ \A t \in Threads \ {c} : error'[t] = error[t]
  BY <1>1, <1>5 DEF Errors
<1> QED BY <1>1, <1>2, <1>3, <1>4, <1>6, Calmly

LEMMA TickEnterStep ==
    ASSUME KInv, TickEnter
    PROVE  KStep({})
<1> DEFINE c == rt_current_thread
<1>1. /\ isr' = "tick" /\ remaining_tick' = [remaining_tick EXCEPT ![c] = SliceAfterTick(@)]
      /\ UNCHANGED <<stat, current_priority, error, armed, rt_thread_defunct,
                     suspend_thread, rt_scheduler_lock_nest, pc>>
      /\ \/ /\ Rotates(c) /\ rt_thread_priority_table' = Rotated(c)
            /\ UNCHANGED rt_thread_ready_priority_group /\ Schedule
         \/ UNCHANGED <<queues, rt_current_thread>>
  BY DEF TickEnter
<1>2. /\ c \in Threads /\ remaining_tick \in [Threads -> 1..InitTick]
      /\ error \in [Threads -> Errors]
  BY DEF KInv, Regular, TcbOK
<1>3. remaining_tick' \in [Threads -> 1..InitTick] /\ error' \in [Threads -> Errors]
  <2>1. InitTick \in Nat \ {0} /\ remaining_tick[c] \in 1..InitTick
    BY <1>2, KernelAssumption
  <2>2. SliceAfterTick(remaining_tick[c]) \in 1..InitTick
    BY <2>1 DEF SliceAfterTick
  <2> QED BY <1>1, <1>2, <2>2
<1>4. Resumes({})
  <2>1. CASE Rotates(c) /\ rt_thread_priority_table' = Rotated(c)
             /\ UNCHANGED rt_thread_ready_priority_group
    <3>1. stat[c] = "READY"
      BY <2>1 DEF Rotates
    <3> QED BY <1>1, <1>2, <2>1, <3>1, Rotating
  <2>2. CASE UNCHANGED queues
    BY <1>1, <2>2, Undisturbed
  <2> QED BY <1>1, <2>1, <2>2
<1>5. rt_current_thread' = rt_current_thread \/ Schedule
  BY <1>1
<1>6. {} \in SUBSET Threads /\ \A t \in Threads \ {} : error'[t] = error[t]
  BY <1>1
<1> QED BY <1>1, <1>3, <1>4, <1>5, <1>6, ToldNobody, Handling

\* A timeout takes the thread out of the list it waits in, if it does in one.
LEMMA TimeoutResumes ==
    ASSUME KInv, NEW t \in Threads, ThreadTimeout(t)
    PROVE  Resumes({t})
<1>1. /\ t \in armed /\ armed' = armed \ {t} /\ stat' = [stat EXCEPT ![t] = "READY"]
      /\ rt_thread_priority_table' = Inserted(Unlinked(rt_thread_priority_table, t), t)
      /\ rt_thread_ready_priority_group' =
             rt_thread_ready_priority_group \cup {current_priority[t]}
      /\ suspend_thread' = Unlinked(suspend_thread, t) /\ UNCHANGED current_priority
  BY DEF ThreadTimeout, TimerStopped
<1>2. stat[t] = "SUSPEND"
  BY <1>1 DEF KInv, TimedAreSuspended
<1>3. stat \in [Threads -> Stats] /\ current_priority \in [Threads -> Prios]
  BY DEF KInv, Regular, TcbOK
<1>4. QueueOK(stat, current_priority, rt_thread_priority_table,
              rt_thread_ready_priority_group)
  BY DEF KInv, ReadyQueueOK
<1>5. Unlinked(rt_thread_priority_table, t) = rt_thread_priority_table
  BY <1>2, <1>4, QueueUnlinked
<1>6. QueueOK(stat', current_priority', rt_thread_priority_table',
              rt_thread_ready_priority_group')
  BY <1>1, <1>2, <1>3, <1>4, <1>5, QueueWith DEF Inserted
<1>7. Less(suspend_thread', suspend_thread, {t})
  BY <1>1, LessUnlinked DEF KInv
<1>8. stat' = [u \in Threads |-> IF u \in {t} THEN "READY" ELSE stat[u]]
  BY <1>1, <1>3
<1> QED BY <1>1, <1>6, <1>7, <1>8 DEF Resumes

LEMMA TimeoutStep ==
    ASSUME KInv, NEW t \in Threads, ThreadTimeout(t)
    PROVE  KStep({})
<1>1. /\ error' = [error EXCEPT ![t] = "ETIMEOUT"] /\ Schedule
      /\ rt_thread_defunct' = RemoveFirst(rt_thread_defunct, t)
      /\ UNCHANGED <<current_priority, remaining_tick, rt_scheduler_lock_nest, isr, pc>>
  BY DEF ThreadTimeout
<1>2. UNCHANGED rt_thread_defunct
  BY <1>1, NothingDefunct
<1>3. /\ error \in [Threads -> Errors] /\ remaining_tick' \in [Threads -> 1..InitTick]
      /\ isr' \in {"none", "tick"}
  BY <1>1 DEF KInv, Regular, TcbOK
<1>4. error' \in [Threads -> Errors] /\ \A u \in Threads \ {t} : error'[u] = error[u]
  BY <1>1, <1>3 DEF Errors
<1>5. {t} \in SUBSET Threads /\ Resumes({t})
  BY TimeoutResumes
<1>6. t \in armed /\ error'[t] # "EOK"
  BY <1>1, <1>3 DEF ThreadTimeout
<1>7. stat[t] = "SUSPEND"
  BY <1>6 DEF KInv, TimedAreSuspended
<1>8. Told({t}, {})
  BY <1>6, <1>7, ToldInVain
<1> QED BY <1>1, <1>2, <1>3, <1>4, <1>5, <1>8, Handling

LEMMA TickExitStep ==
    ASSUME KInv, TickExit
    PROVE  KStep({})
<1>1. /\ isr' = "none"
      /\ UNCHANGED <<tcb, lists, rt_current_thread, rt_scheduler_lock_nest, pc>>
  BY DEF TickExit
<1>2. Resumes({})
  BY <1>1, Undisturbed DEF tcb, lists
<1>3. remaining_tick' \in [Threads -> 1..InitTick] /\ error' \in [Threads -> Errors]
  BY <1>1 DEF tcb, KInv, Regular, TcbOK
<1>4. {} \in SUBSET Threads /\ \A t \in Threads \ {} : error'[t] = error[t]
  BY <1>1 DEF tcb
<1> QED BY <1>1, <1>2, <1>3, <1>4, ToldNobody, Handling DEF tcb, lists

LEMMA KernelStep ==
    ASSUME KInv, api \in Apis, Settled, Next
    PROVE  KStep({})
<1>1. ASSUME NEW c \in Threads, NEW call \in Lifecycle, Call(c, call) PROVE FALSE
  BY <1>1 DEF Call, Settled
<1>2. ASSUME NEW c \in Threads, ThreadStep(c) PROVE KStep({})
  <2>1. ~(\/ ResumeCheck(c) \/ ResumeUnlink(c) \/ ResumeInsert(c) \/ SuspendCheck(c)
          \/ SuspendRemove(c) \/ DeleteRemove(c) \/ DeleteTimer(c) \/ DeleteClose(c)
          \/ DeleteDefunct(c))
    BY AtNothing DEF ResumeCheck, ResumeUnlink, ResumeInsert, SuspendCheck, SuspendRemove,
                     DeleteRemove, DeleteTimer, DeleteClose, DeleteDefunct
  <2> QED BY <1>2, <2>1, SchedStep, SleepReturnStep DEF ThreadStep
<1>3. ASSUME NEW c \in Threads, ThreadCall(c) PROVE KStep({})
  <2>1. ~Exit(c) /\ ~EnterCritical(c) /\ ~ExitCritical(c)
    BY <1>1 DEF Exit, EnterCritical, ExitCritical, Lifecycle
  <2>2. ASSUME NEW t
        PROVE  /\ ~Create(c, t) /\ ~Startup(c, t) /\ ~Delete(c, t) /\ ~ResumeCall(c, t)
               /\ ~SuspendCall(c, t)
    BY <1>1 DEF Create, Startup, Delete, ResumeCall, SuspendCall, Lifecycle
  <2>3. ASSUME NEW t, NEW p PROVE ~ChangePriority(c, t, p)
    BY <1>1 DEF ChangePriority, Lifecycle
  <2> QED BY <1>3, <2>1, <2>2, <2>3, YieldStep, SleepStep, ScheduleCallStep DEF ThreadCall
<1>4. ~IdleStep
  <2>1. ~Reap
    BY DEF Reap, KInv, Regular
  <2>2. ~Free
    BY AtNothing, KernelAssumption DEF Free
  <2> QED BY <2>1, <2>2 DEF IdleStep
<1>5. ASSUME TickStep PROVE KStep({})
  BY <1>5, TickEnterStep, TimeoutStep, TickExitStep DEF TickStep
<1> QED BY <1>2, <1>3, <1>4, <1>5 DEF Next
=============================================================================
