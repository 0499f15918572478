----------------------------- MODULE Ipc_proofs -----------------------------
(***************************************************************************)
(* What holds of the IPC objects over the kernel, for every set of         *)
(* threads, objects, lists, priorities and requests, in the applications   *)
(* whose threads neither end nor manage each other and that leave the      *)
(* scheduler unlocked (Settled).  Handlers, timeouts, and the reset and    *)
(* deletion of objects are all there.                                      *)
(*                                                                         *)
(* Kernel_proofs has the invariant, KInv, of what the calls on any object  *)
(* share: the ready queue, the suspend lists, and the shapes a call goes   *)
(* through.                                                                *)
(*                                                                         *)
(* Every action has a lemma that says it is KStep(S): KInv holds after it, *)
(* the lists only lose threads or get one caller (ListStep), and it gives  *)
(* nothing to the waiters of objects outside S, changes no priority but    *)
(* for a mutex in S, and lets nobody join a list outside S (GrantStep,     *)
(* PriorityStep, JoinStep).  What is proved of one object rests on that    *)
(* for the actions on all others:                                          *)
(*                                                                         *)
(* 1. The suspend lists (SuspendListsAreSound), their order if no owner of *)
(* a mutex waits on an ordered list (OwnersDoNotWait): the mutex raises    *)
(* the priority of its owner, whose place in the list stays.               *)
(* 2. The owner of a mutex (MutexIsOwned): Owned counts for the owner what *)
(* a thread resumed to have the mutex has not yet noted.  Its priority     *)
(* (OwnerInherits), in the applications that keep to one mutex at a time.  *)
(* 3. The tokens of a semaphore (TokensConserved), where its 16 bits       *)
(* cannot wrap around (NoWrap).                                            *)
(* 4. The blocks of a pool (BlocksAreConserved): Strung gives each free    *)
(* block a number, by which the next one is the next lower.                *)
(* 5. Nobody waits in vain (NobodyWaitsInVain), while the counts of        *)
(* waiters are not at their limit (CountsFit).  A thread that was resumed  *)
(* out of a loop and looks again is one step behind what is there.         *)
(* LookStep says that it stays the one to look until it does, so that      *)
(* Covered compares what is there with the number of those.                *)
(* 6. The messages of a queue (MessagesAreSomewhere): Placed names what is *)
(* in the queue and what is free, as sequences that the links string       *)
(* together, and leaves to the threads that copy one message each.  Turns  *)
(* says of each step that whatever was in these places before is in some   *)
(* after it, and how the queue changed (Passes).                           *)
(* 7. The channels (ChannelsAreFifo): Passes and the ring of a mailbox     *)
(* (Ring) make each step one of MailChannel, or none.                      *)
(***************************************************************************)
EXTENDS Kernel_proofs

-----------------------------------------------------------------------------
(* The steps that the IPC objects have in common.                          *)

\* Steps that leave the kernel as it is.
LEMMA StillStep ==
    ASSUME KInv, UNCHANGED kvars
    PROVE  KStep({})
<1>1. UNCHANGED <<tcb, lists, rt_current_thread, rt_scheduler_lock_nest, isr, pc>>
  BY DEF kvars
<1>2. Resumes({})
  BY <1>1, Undisturbed DEF tcb, lists
<1>3. /\ remaining_tick' \in [Threads -> 1..InitTick] /\ error' \in [Threads -> Errors]
      /\ isr' \in {"none", "tick"}
  BY <1>1 DEF tcb, KInv, Regular, TcbOK
<1>4. {} \in SUBSET Threads /\ \A t \in Threads \ {} : error'[t] = error[t]
  BY <1>1 DEF tcb
<1> QED BY <1>1, <1>2, <1>3, <1>4, ToldNobody, Handling DEF tcb, lists

\* The lists of an object.
LEMMA ObjectLists ==
    ASSUME NEW o \in Objects
    PROVE  /\ o \in Lists
           /\ \/ ListsOf[o] = <<o>> /\ Range(ListsOf[o]) = {o} /\ Len(ListsOf[o]) = 1
              \/ \E l \in Lists : /\ l # o /\ ListsOf[o] = <<o, l>>
                                  /\ Range(ListsOf[o]) = {o, l} /\ Len(ListsOf[o]) = 2
<1>1. o \in Lists
  BY IpcAssumption
<1>2. ListsOf[o] = <<o>> \/ \E l \in Lists \ Objects : ListsOf[o] = <<o, l>>
  BY IpcAssumption
<1>3. \A s : s = <<o>> => Range(s) = {o} /\ Len(s) = 1
  BY DEF Range
<1>4. ASSUME NEW l, NEW s, s = <<o, l>> PROVE Range(s) = {o, l} /\ Len(s) = 2
  <2>1. DOMAIN s = 1..2 /\ s[1] = o /\ s[2] = l /\ Len(s) = 2
    BY <1>4
  <2>2. \A i \in 1..2 : i = 1 \/ i = 2
    OBVIOUS
  <2>3. 1 \in 1..2 /\ 2 \in 1..2
    OBVIOUS
  <2>4. Range(s) = {s[i] : i \in 1..2}
    BY <2>1 DEF Range
  <2> QED BY <2>1, <2>2, <2>3, <2>4
<1> QED BY <1>1, <1>2, <1>3, <1>4

LEMMA WaitersOfObject ==
    ASSUME KInv, NEW o \in Objects
    PROVE  /\ Waiters(o) \in Seq(Threads) /\ IsInjective(Waiters(o))
           /\ Range(Waiters(o)) = UNION {Range(suspend_thread[l]) : l \in Range(ListsOf[o])}
           /\ Range(ListsOf[o]) \subseteq Lists
<1>1. \A l \in Lists : suspend_thread[l] \in Seq(Threads) /\ IsInjective(suspend_thread[l])
  BY DEF KInv, WaitersOK
<1>2. o \in Lists
  BY ObjectLists
<1>3. CASE Range(ListsOf[o]) = {o} /\ Len(ListsOf[o]) = 1
  <2>1. Waiters(o) = suspend_thread[o]
    BY <1>3 DEF Waiters
  <2> QED BY <1>1, <1>2, <1>3, <2>1
<1>4. CASE \E l \in Lists : /\ l # o /\ ListsOf[o] = <<o, l>>
                            /\ Range(ListsOf[o]) = {o, l} /\ Len(ListsOf[o]) = 2
  <2>1. PICK l \in Lists : /\ l # o /\ ListsOf[o] = <<o, l>>
                           /\ Range(ListsOf[o]) = {o, l} /\ Len(ListsOf[o]) = 2
    BY <1>4
  <2>2. Waiters(o) = suspend_thread[o] \o suspend_thread[l]
    <3>1. ListsOf[o][2] = l
      BY <2>1
    <3>2. Len(ListsOf[o]) # 1
      BY <2>1
    <3> QED BY <3>1, <3>2 DEF Waiters
  <2>3. Range(suspend_thread[o]) \cap Range(suspend_thread[l]) = {}
    <3>1. Range(suspend_thread[o]) \subseteq Threads
      BY <1>2, WaitersAreThreads DEF KInv, WaitersOK
    <3> QED BY <1>2, <2>1, <3>1 DEF KInv, WaitersOK
  <2>4. /\ Waiters(o) \in Seq(Threads) /\ IsInjective(Waiters(o))
        /\ Range(Waiters(o)) = Range(suspend_thread[o]) \cup Range(suspend_thread[l])
    BY <1>1, <1>2, <2>1, <2>2, <2>3, ConcatRange
  <2> QED BY <1>2, <2>1, <2>4
<1> QED BY <1>3, <1>4, ObjectLists

\* The control functions, and what they resume.
LEMMA ResetResumes ==
    ASSUME KInv, NEW c \in Threads, NEW o \in Objects, ResetObject(c, o)
    PROVE  Range(Waiters(o)) \in SUBSET Threads /\ Resumes(Range(Waiters(o)))
<1> DEFINE q == Waiters(o)
           S == Range(q)
<1>1. /\ SomeResumed(q, S) /\ UNCHANGED current_priority
      /\ suspend_thread' = [l \in Lists |-> IF l \in Range(ListsOf[o])
                                           THEN <<>> ELSE suspend_thread[l]]
  BY DEF ResetObject, AllResumed
<1>2. /\ q \in Seq(Threads) /\ IsInjective(q) /\ Range(ListsOf[o]) \subseteq Lists
      /\ S = UNION {Range(suspend_thread[l]) : l \in Range(ListsOf[o])}
  BY WaitersOfObject
<1>3. suspend_thread \in [Lists -> Seq(Threads)]
  BY DEF KInv, WaitersOK
<1> HIDE DEF q, S
<1>4. \A t \in S : stat[t] = "SUSPEND"
  BY <1>2 DEF KInv, WaitersOK
<1>5. ASSUME NEW l \in Lists
      PROVE  /\ suspend_thread'[l] \in Seq(Threads) /\ IsInjective(suspend_thread'[l])
             /\ Embeds(suspend_thread'[l], suspend_thread[l])
             /\ Range(suspend_thread'[l]) = Range(suspend_thread[l]) \ S
  <2>1. CASE l \in Range(ListsOf[o])
    <3>1. suspend_thread'[l] = <<>>
      BY <1>1, <2>1
    <3>2. <<>> \in Seq(Threads) /\ IsInjective(<<>>) /\ Embeds(<<>>, suspend_thread[l])
          /\ Range(<<>>) = {}
      BY DEF IsInjective, Embeds, Range
    <3>3. Range(suspend_thread[l]) \subseteq S
      BY <1>2, <2>1
    <3> QED BY <3>1, <3>2, <3>3
  <2>2. CASE l \notin Range(ListsOf[o])
    <3>1. suspend_thread'[l] = suspend_thread[l]
      BY <1>1, <2>2
    <3>2. Range(suspend_thread[l]) \cap S = {}
      <4>1. Range(suspend_thread[l]) \subseteq Threads
        BY <1>3, WaitersAreThreads
      <4> QED BY <1>2, <2>2, <4>1 DEF KInv, WaitersOK
    <3> QED BY <1>3, <3>1, <3>2, SelfEmbeds DEF KInv, WaitersOK
  <2> QED BY <2>1, <2>2
<1>6. suspend_thread' \in [Lists -> Seq(Threads)]
  <2>1. suspend_thread' = [l \in Lists |-> suspend_thread'[l]]
    BY <1>1
  <2> QED BY <1>5, <2>1
<1>7. Less(suspend_thread', suspend_thread, S)
  BY <1>5, <1>6 DEF Less
<1>8. S \in SUBSET Range(q)
  BY DEF S
<1>9. S \in SUBSET Threads /\ Resumes(S)
  BY <1>1, <1>2, <1>4, <1>7, <1>8, SomeAreResumed
<1> QED BY <1>9 DEF S, q

LEMMA ResetStep ==
    ASSUME KInv, api \in Apis, NEW c \in Threads, NEW o \in Objects, ResetObject(c, o)
    PROVE  KStep({})
<1> DEFINE S == Range(Waiters(o))
<1>1. /\ Call(c, "reset") /\ Goto(c, <<Again(c)>>) /\ error' = Failed(S)
      /\ UNCHANGED <<current_priority, remaining_tick, rt_thread_defunct,
                     rt_current_thread, rt_scheduler_lock_nest, isr>>
  BY DEF ResetObject, AllResumed, Again
<1>2. c \in Threads \ {Idle} /\ AtWork(c)
  BY <1>1, Calls
<1>3. Moves(c) /\ Goes(c)
  BY <1>1, GotoMoves, InCallNext
<1>4. S \in SUBSET Threads /\ Resumes(S)
  BY ResetResumes
<1>5. error \in [Threads -> Errors] /\ current_priority' \in [Threads -> Prios]
  BY <1>1 DEF KInv, Regular, TcbOK
<1> HIDE DEF S
<1>6. error' \in [Threads -> Errors] /\ \A t \in Threads \ (S \cup {c}) : error'[t] = error[t]
  BY <1>1, <1>5 DEF Failed, Errors
<1>7. Told(S, {})
  <2>1. \A t \in S : stat[t] = "SUSPEND"
    BY WaitersOfObject DEF S, KInv, WaitersOK
  <2>2. \A t \in S : error'[t] = "ERROR"
    BY <1>1, <1>4 DEF Failed
  <2> QED BY <2>1, <2>2, ToldInVain
<1> QED BY <1>1, <1>2, <1>3, <1>4, <1>5, <1>6, <1>7, GoesOnResuming

LEMMA MakeStep ==
    ASSUME KInv, NEW c, NEW o, MakeObject(c, o)
    PROVE  KStep({})
BY StillStep DEF MakeObject

\* Deletion: the steps it consists of, ...
LEMMA EndStep ==
    ASSUME KInv, api \in Apis, NEW c \in Threads, NEW o \in Objects, EndObject(c, o)
    PROVE  KStep({})
<1> DEFINE a == [i \in DOMAIN ListsOf[o] |-> <<"resumeall", ListsOf[o][i]>>]
           b == << <<"gone", o>> >>
<1>1. /\ Call(c, "deleteipc") /\ Goto(c, a \o b)
      /\ UNCHANGED <<tcb, lists, rt_current_thread, rt_scheduler_lock_nest, isr>>
  BY DEF EndObject
<1>2. a \in Seq(Ending)
  <2>1. ASSUME NEW x, NEW s, s = <<x>>, x \in Lists
        PROVE  [i \in DOMAIN s |-> <<"resumeall", s[i]>>] \in Seq(Ending)
    BY <2>1 DEF Ending
  <2>2. ASSUME NEW x, NEW y, NEW s, s = <<x, y>>, x \in Lists, y \in Lists
        PROVE  [i \in DOMAIN s |-> <<"resumeall", s[i]>>] \in Seq(Ending)
    BY <2>2 DEF Ending
  <2> QED BY <2>1, <2>2, ObjectLists
<1>3. b \in Seq(Ending)
  BY DEF Ending
<1> HIDE DEF a, b
<1>4. a \o b \in Seq(Ending)
  BY <1>2, <1>3, ConcatProperties
<1>5. pc'[c] = a \o b => Goes(c)
  BY <1>4, InCallNext
<1> QED BY <1>1, <1>5, CallsQuietly

LEMMA EndGoesOn ==
    ASSUME KInv, NEW c \in Threads, NEW s \in Seq(Ending), Proceed(c, s),
           Tail(pc[c]) \in Seq(Ending)
    PROVE  Moves(c) /\ Goes(c)
<1>1. Moves(c) /\ pc'[c] = s \o Tail(pc[c])
  BY ProceedMoves
<1>2. s \o Tail(pc[c]) \in Seq(Ending)
  BY ConcatProperties
<1> QED BY <1>1, <1>2, InCallNext

\* ... the test of the loop, ...
LEMMA ResumeAllTestStep ==
    ASSUME KInv, NEW c \in Threads, ResumeAllTest(c)
    PROVE  KStep({})
<1> DEFINE a == <<"resumeone", Target(c)>>
           b == <<"resumeall", Target(c)>>
<1>1. /\ At(c, "resumeall") /\ (Proceed(c, <<a, b>>) \/ Proceed(c, <<>>))
      /\ UNCHANGED <<tcb, lists, rt_current_thread, rt_scheduler_lock_nest, isr>>
  BY DEF ResumeAllTest, Return
<1>2. /\ c \in Threads \ {Idle} /\ AtWork(c)
      /\ Head(pc[c]) \in Ending /\ Head(pc[c])[1] = "resumeall" /\ Tail(pc[c]) \in Seq(Ending)
  BY <1>1, AtEnd
<1>3. Target(c) \in Lists
  BY <1>2 DEF Target, Ending
<1>4. a \in Ending /\ b \in Ending
  BY <1>3 DEF Ending
<1> HIDE DEF a, b
<1>5. <<a, b>> \in Seq(Ending) /\ <<>> \in Seq(Ending)
  BY <1>4
<1>6. Moves(c) /\ Goes(c)
  BY <1>1, <1>2, <1>5, EndGoesOn
<1> QED BY <1>1, <1>2, <1>6, Quietly

\* ... the body of the loop, ...
LEMMA ResumeOneResumes ==
    ASSUME KInv, NEW c \in Threads, ResumeOne(c)
    PROVE  /\ Target(c) \in Lists /\ First(Target(c)) \in SUBSET Threads
           /\ Resumes(First(Target(c)))
           /\ UNCHANGED <<current_priority, remaining_tick, rt_thread_defunct>>
           /\ error' = [t \in Threads |-> IF t \in First(Target(c)) THEN "ERROR" ELSE error[t]]
<1> DEFINE l == Target(c)
<1>1. /\ At(c, "resumeone")
      /\ \/ suspend_thread[l] = <<>> /\ UNCHANGED <<tcb, lists>>
         \/ /\ suspend_thread[l] # <<>> /\ error' = Failed({Head(suspend_thread[l])})
            /\ HeadResumed(l)
            /\ UNCHANGED <<current_priority, remaining_tick, rt_thread_defunct>>
  BY DEF ResumeOne
<1>2. /\ Head(pc[c]) \in Ending /\ Head(pc[c])[1] = "resumeone"
  BY <1>1, AtEnd
<1>3. l \in Lists
  BY <1>2 DEF Target, Ending
<1> HIDE DEF l
<1>4. CASE suspend_thread[l] = <<>> /\ UNCHANGED <<tcb, lists>>
  <2>1. First(l) = {} /\ Resumes({})
    BY <1>4, Undisturbed DEF First, tcb, lists
  <2>2. error' = [t \in Threads |-> IF t \in {} THEN "ERROR" ELSE error[t]]
    BY <1>4 DEF tcb, KInv, Regular, TcbOK
  <2> QED BY <1>3, <1>4, <2>1, <2>2 DEF tcb, lists, l
<1>5. CASE /\ suspend_thread[l] # <<>> /\ error' = Failed({Head(suspend_thread[l])})
           /\ HeadResumed(l)
           /\ UNCHANGED <<current_priority, remaining_tick, rt_thread_defunct>>
  <2>1. First(l) = {Head(suspend_thread[l])} /\ FirstResumed(l)
    BY <1>5 DEF First, FirstResumed
  <2>2. First(l) \in SUBSET Threads /\ Resumes(First(l))
    BY <1>3, <1>5, <2>1, FirstIsResumed
  <2> QED BY <1>3, <1>5, <2>1, <2>2 DEF Failed, l
<1> QED BY <1>1, <1>4, <1>5

LEMMA ResumeOneStep ==
    ASSUME KInv, NEW c \in Threads, ResumeOne(c)
    PROVE  KStep({})
<1> DEFINE W == First(Target(c))
<1>1. /\ At(c, "resumeone") /\ Proceed(c, <<>>)
      /\ UNCHANGED <<rt_current_thread, rt_scheduler_lock_nest, isr>>
  BY DEF ResumeOne, Return
<1>2. /\ c \in Threads \ {Idle} /\ AtWork(c) /\ Tail(pc[c]) \in Seq(Ending)
  BY <1>1, AtEnd
<1>3. Moves(c) /\ Goes(c)
  <2>1. <<>> \in Seq(Ending)
    OBVIOUS
  <2> QED BY <1>1, <1>2, <2>1, EndGoesOn
<1>4. /\ W \in SUBSET Threads /\ Resumes(W)
      /\ UNCHANGED <<current_priority, remaining_tick, rt_thread_defunct>>
      /\ error' = [t \in Threads |-> IF t \in W THEN "ERROR" ELSE error[t]]
  BY ResumeOneResumes
<1> HIDE DEF W
<1>5. /\ error \in [Threads -> Errors] /\ current_priority' \in [Threads -> Prios]
  BY <1>4 DEF KInv, Regular, TcbOK
<1>6. error' \in [Threads -> Errors] /\ \A t \in Threads \ (W \cup {c}) : error'[t] = error[t]
  BY <1>4, <1>5 DEF Errors
<1>7. Told(W, {})
  <2>1. \A t \in W : stat[t] = "SUSPEND"
    <3>1. CASE W = {}
      BY <3>1
    <3>2. CASE W # {}
      <4>1. suspend_thread[Target(c)] # <<>> /\ W = {Head(suspend_thread[Target(c)])}
        BY <3>2 DEF W, First
      <4>2. Target(c) \in Lists /\ WaitersOK(suspend_thread, stat)
        BY ResumeOneResumes DEF KInv
      <4> QED BY <4>1, <4>2, LessByHead
    <3> QED BY <3>1, <3>2
  <2>2. \A t \in W : error'[t] = "ERROR"
    BY <1>4
  <2> QED BY <2>1, <2>2, ToldInVain
<1> QED BY <1>1, <1>2, <1>3, <1>4, <1>5, <1>6, <1>7, GoesOnResuming

\* ... and the end.
LEMMA ObjectGoneStep ==
    ASSUME KInv, NEW c \in Threads, ObjectGone(c)
    PROVE  KStep({})
<1>1. /\ At(c, "gone") /\ Proceed(c, <<>>)
      /\ UNCHANGED <<tcb, lists, rt_current_thread, rt_scheduler_lock_nest, isr>>
  BY DEF ObjectGone, Return
<1>2. /\ c \in Threads \ {Idle} /\ AtWork(c) /\ Tail(pc[c]) \in Seq(Ending)
  BY <1>1, AtEnd
<1>3. Moves(c) /\ Goes(c)
  <2>1. <<>> \in Seq(Ending)
    OBVIOUS
  <2> QED BY <1>1, <1>2, <2>1, EndGoesOn
<1> QED BY <1>1, <1>2, <1>3, Quietly

\* The calls that wait, whether at once or in a turn of a loop.
LEMMA WaitsHere ==
    ASSUME KInv, NEW c \in Threads \ {Idle}, rt_current_thread = c, AtWork(c),
           NEW l \in Lists, NEW timed, Wait(c, l, timed),
           NEW w \in Waits(c), WaitsOn(w, l), Moves(c), pc'[c] = <<Again(c), w>>,
           UNCHANGED <<current_priority, remaining_tick, rt_thread_defunct, rt_current_thread,
                       rt_scheduler_lock_nest, isr>>
    PROVE  KStep({l}) /\ GrantStep({})
<1>1. /\ current_priority' \in [Threads -> Prios] /\ current_priority'[c] = current_priority[c]
      /\ QueueOK(stat, current_priority', rt_thread_priority_table,
                 rt_thread_ready_priority_group)
  BY DEF KInv, Regular, TcbOK, ReadyQueueOK
<1>2. WaitOn(c, l, timed, rt_thread_priority_table, rt_thread_ready_priority_group)
  BY DEF Wait
<1>3. PriorityStep({l}) /\ l \in {l}
  BY DEF PriorityStep
<1> QED BY <1>1, <1>2, <1>3, WaitBegins

LEMMA CallWaits ==
    ASSUME KInv, api \in Apis, NEW c \in Threads, NEW call, Call(c, call),
           NEW l \in Lists, NEW timed, Wait(c, l, timed),
           NEW w \in Waits(c), WaitsOn(w, l), Goto(c, <<Again(c), w>>),
           UNCHANGED <<current_priority, remaining_tick, rt_thread_defunct, rt_current_thread,
                       rt_scheduler_lock_nest, isr>>
    PROVE  KStep({l}) /\ GrantStep({})
<1>1. c \in Threads \ {Idle} /\ rt_current_thread = c /\ AtWork(c)
  BY Calls
<1>2. Moves(c) /\ pc'[c] = <<Again(c), w>>
  BY GotoMoves
<1> QED BY <1>1, <1>2, WaitsHere

\* ... and come back to return an error or what they waited for.
LEMMA WaitReturns ==
    ASSUME KInv, NEW c \in Threads,
           NEW label \in {"awake", "received"}, At(c, label),
           Return(c), UNCHANGED <<tcb, lists, rt_current_thread, rt_scheduler_lock_nest, isr>>
    PROVE  KStep({})
<1>1. c \in Threads \ {Idle} /\ AtWork(c) /\ pc[c] = <<Head(pc[c])>>
  BY AtWait
<1>2. Moves(c) /\ Goes(c)
  <2>1. Proceed(c, <<>>) /\ <<>> \in Seq(Threads)
    BY DEF Return
  <2> QED BY <1>1, <2>1, AfterOne, InCallNext
<1> QED BY <1>1, <1>2, Quietly

\* What is given to a thread that returns with it, or an error, is given to no other.
LEMMA GrantReturns ==
    ASSUME KInv, NEW c \in Threads, NEW label \in {"taken", "locked"}, At(c, label),
           Return(c), UNCHANGED <<tcb, lists, rt_current_thread, rt_scheduler_lock_nest, isr>>
    PROVE  KStep({Target(c)})
<1>1. /\ c \in Threads \ {Idle} /\ rt_current_thread = c /\ stat[c] = "READY"
      /\ pc[c] = <<Head(pc[c])>> /\ Head(pc[c])[1] = label
  BY AtWait
<1>2. Moves(c) /\ Goes(c) /\ Woke(c)
  <2>1. Proceed(c, <<>>) /\ <<>> \in Seq(Threads)
    BY DEF Return
  <2>2. \A e : ~Awaits(c, <<"woken", e>>)
    <3>1. \A i \in DOMAIN pc[c] : pc[c][i] = Head(pc[c])
      BY <1>1
    <3>2. \A e : <<"woken", e>>[1] = "woken"
      OBVIOUS
    <3> QED BY <1>1, <3>1, <3>2 DEF Awaits
  <2> QED BY <1>1, <2>1, <2>2, AfterOne, InCallNext DEF Woke
<1>3. Resumes({})
  BY Undisturbed DEF tcb, lists
<1>4. \A w \in Awaited : w[2] \notin {Target(c)} => ~Awaits(c, w)
  <2>1. \A i \in DOMAIN pc[c] : pc[c][i] = Head(pc[c])
    BY <1>1
  <2> QED BY <2>1 DEF Awaits, Target
<1>5. /\ {} \in SUBSET Threads /\ current_priority' \in [Threads -> Prios]
      /\ error' \in [Threads -> Errors]
      /\ \A t \in Threads \ ({} \cup {c}) : error'[t] = error[t]
  BY DEF tcb, KInv, Regular, TcbOK
<1>6. PriorityStep({Target(c)})
  BY DEF PriorityStep, tcb
<1> QED BY <1>1, <1>2, <1>3, <1>4, <1>5, <1>6, ToldNobody, GoesOnFrom DEF tcb, lists

\* The calls that resume the first waiter, in one section, ...
LEMMA AfterResumeIs ==
    ASSUME NEW c, NEW l
    PROVE  AfterResume(c, l) = <<Again(c)>> \/ AfterResume(c, l) = <<>>
BY DEF AfterResume, Again

LEMMA FirstTold ==
    ASSUME KInv, NEW l \in Lists
    PROVE  Told(First(l), {l})
<1>1. First(l) \in SUBSET Range(suspend_thread[l])
  <2>1. CASE suspend_thread[l] # <<>>
    <3>1. 1 \in DOMAIN suspend_thread[l] /\ Head(suspend_thread[l]) = suspend_thread[l][1]
      BY <2>1, HeadTailProperties, LenProperties DEF KInv, WaitersOK
    <3> QED BY <3>1 DEF First, Range
  <2> QED BY <2>1 DEF First
<1> QED BY <1>1, ToldOfList

LEMMA FirstStep ==
    ASSUME KInv, NEW c \in Threads \ {Idle}, AtWork(c), NEW l \in Lists,
           FirstResumed(l), Moves(c), Goes(c),
           UNCHANGED <<current_priority, remaining_tick, error, rt_thread_defunct,
                       rt_current_thread, rt_scheduler_lock_nest, isr>>
    PROVE  KStep({l})
<1>1. First(l) \in SUBSET Threads /\ Resumes(First(l))
  BY FirstIsResumed
<1>2. /\ current_priority' \in [Threads -> Prios] /\ error' \in [Threads -> Errors]
      /\ \A t \in Threads \ (First(l) \cup {c}) : error'[t] = error[t]
  BY DEF KInv, Regular, TcbOK
<1>3. Told(First(l), {l})
  BY FirstTold
<1> QED BY <1>1, <1>2, <1>3, GoesOnResuming

LEMMA CallResumes ==
    ASSUME KInv, api \in Apis, NEW c \in Threads, NEW call, Call(c, call),
           NEW l \in Lists, FirstResumed(l), Goto(c, AfterResume(c, l)),
           UNCHANGED <<current_priority, remaining_tick, error, rt_thread_defunct,
                       rt_current_thread, rt_scheduler_lock_nest, isr>>
    PROVE  KStep({l})
<1>1. c \in Threads \ {Idle} /\ AtWork(c)
  BY Calls
<1>2. Moves(c) /\ pc'[c] = AfterResume(c, l)
  BY GotoMoves
<1>3. Goes(c)
  BY <1>2, AfterResumeIs, InCallNext
<1> QED BY <1>1, <1>2, <1>3, FirstStep

\* ... in the last of a loop, ...
LEMMA GoesOnAfterResume ==
    ASSUME KInv, NEW c \in Threads, NEW e, pc[c] = <<e>>, NEW l, Proceed(c, AfterResume(c, l))
    PROVE  Moves(c) /\ Goes(c)
<1>1. AfterResume(c, l) \in Seq({Again(c)})
  <2>1. \A a : <<a>> \in Seq({a}) /\ <<>> \in Seq({a})
    OBVIOUS
  <2> QED BY <2>1, AfterResumeIs
<1>2. Moves(c) /\ pc'[c] = AfterResume(c, l)
  BY <1>1, AfterOne
<1> QED BY <1>2, AfterResumeIs, InCallNext

\* ... and in a handler.
LEMMA HandlerResumes ==
    ASSUME KInv, NEW l \in Lists, FirstResumed(l),
           IF suspend_thread[l] # <<>> THEN Schedule ELSE UNCHANGED rt_current_thread,
           UNCHANGED <<current_priority, remaining_tick, error, rt_thread_defunct,
                       rt_scheduler_lock_nest, isr, pc>>
    PROVE  KStep({l})
<1>1. First(l) \in SUBSET Threads /\ Resumes(First(l))
  BY FirstIsResumed
<1>2. /\ remaining_tick' \in [Threads -> 1..InitTick] /\ error' \in [Threads -> Errors]
      /\ \A t \in Threads \ First(l) : error'[t] = error[t]
      /\ isr' \in {"none", "tick"}
  BY DEF KInv, Regular, TcbOK
<1>3. rt_current_thread' = rt_current_thread \/ Schedule
  OBVIOUS
<1> QED BY <1>1, <1>2, <1>3, FirstTold, Handling

\* A turn of a loop that finds nothing.
LEMMA LoopStep ==
    ASSUME KInv, NEW c \in Threads \ {Idle}, rt_current_thread = c, AtWork(c),
           pc[c] = <<Locals(c)>>, Locals(c) \in Loops, NEW l \in Lists, Looks(Locals(c), l),
           NEW err \in Errors, LoopWaits(c, l, err)
    PROVE  KStep({l})
<1> DEFINE w == <<"woken", Locals(c)>>
<1>1. UNCHANGED <<current_priority, remaining_tick, rt_thread_defunct,
                  rt_current_thread, rt_scheduler_lock_nest, isr>>
  BY DEF LoopWaits
<1>2. CASE Locals(c)[3] \in {"ever", "timed"}
  <2>1. /\ Wait(c, l, Locals(c)[3] = "timed") /\ Proceed(c, <<Again(c), w>>)
    BY <1>2 DEF LoopWaits, Again
  <2>2. w \in Waits(c) /\ WaitsOn(w, l)
    BY DEF Waits, WaitsOn
  <2> HIDE DEF w
  <2>3. <<Again(c), w>> \in Seq({Again(c), w})
    OBVIOUS
  <2>4. Moves(c) /\ pc'[c] = <<Again(c), w>>
    BY <2>1, <2>3, AfterOne
  <2>5. WaitOn(c, l, Locals(c)[3] = "timed", rt_thread_priority_table,
               rt_thread_ready_priority_group)
    BY <2>1 DEF Wait
  <2>6. /\ current_priority' \in [Threads -> Prios]
        /\ current_priority'[c] = current_priority[c]
        /\ QueueOK(stat, current_priority', rt_thread_priority_table,
                   rt_thread_ready_priority_group)
    BY <1>1 DEF KInv, Regular, TcbOK, ReadyQueueOK
  <2>7. PriorityStep({l}) /\ l \in {l}
    BY <1>1 DEF PriorityStep
  <2> QED BY <1>1, <2>2, <2>4, <2>5, <2>6, <2>7, WaitBegins
<1>3. CASE ~(Locals(c)[3] \in {"ever", "timed"})
  <2>1. /\ error' = IF Locals(c)[3] = "try" THEN error ELSE [error EXCEPT ![c] = err]
        /\ Proceed(c, <<>>) /\ UNCHANGED <<stat, armed, queues, suspend_thread>>
    BY <1>3 DEF LoopWaits, Return
  <2>2. Moves(c) /\ Goes(c)
    <3>1. <<>> \in Seq(Threads)
      OBVIOUS
    <3> QED BY <2>1, <3>1, AfterOne, InCallNext
  <2>3. error \in [Threads -> Errors]
    BY DEF KInv, Regular, TcbOK
  <2>4. error' \in [Threads -> Errors] /\ \A t \in Threads \ {c} : error'[t] = error[t]
    BY <2>1, <2>3 DEF Errors
  <2>5. UNCHANGED lists
    BY <1>1, <2>1 DEF lists
  <2>6. KStep({})
    BY <1>1, <2>1, <2>2, <2>4, <2>5, Calmly
  <2> QED BY <2>6, KStepMore
<1> QED BY <1>2, <1>3

LEMMA WokenStep ==
    ASSUME KInv, NEW c \in Threads, Woken(c)
    PROVE  KStep({})
<1>1. /\ At(c, "woken")
      /\ UNCHANGED <<tcb, lists, rt_current_thread, rt_scheduler_lock_nest, isr>>
  BY DEF Woken
<1>2. /\ c \in Threads \ {Idle} /\ rt_current_thread = c /\ stat[c] = "READY"
      /\ pc[c] = <<Head(pc[c])>>
      /\ Head(pc[c]) \in Waits(c) /\ Head(pc[c])[1] = "woken"
  BY <1>1, AtWait
<1>3. Target(c) \in Loops /\ Head(pc[c]) = <<"woken", Target(c)>>
  <2>1. Head(pc[c]) \in {"woken"} \X Loops
    BY <1>2 DEF Waits
  <2> QED BY <2>1 DEF Target
<1>4. \A v : Awaits(c, v) => v = <<"woken", Target(c)>>
  <2>1. \A i \in DOMAIN pc[c] : pc[c][i] = Head(pc[c])
    BY <1>2
  <2> QED BY <1>3, <2>1 DEF Awaits
<1>5. \A w \in Awaited : ~Awaits(c, w)
  BY <1>4, AwaitedIs
<1>6. Moves(c) /\ Goes(c) /\ Woke(c)
  <2>1. CASE error[c] # "EOK"
    <3>1. Proceed(c, <<>>) /\ <<>> \in Seq(Threads)
      BY <2>1 DEF Woken, Return
    <3> QED BY <1>2, <2>1, <3>1, AfterOne, InCallNext DEF Woke
  <2>2. CASE error[c] = "EOK"
    <3>1. PICK left \in Times : Proceed(c, << [Target(c) EXCEPT ![3] = left] >>)
      BY <2>2 DEF Woken, Times
    <3> DEFINE f == [Target(c) EXCEPT ![3] = left]
    <3>2. f \in Loops /\ f[1] = Target(c)[1] /\ f[2] = Target(c)[2]
      BY <1>3, LoopObject
    <3> HIDE DEF f
    <3>3. Proceed(c, <<f>>) /\ <<f>> \in Seq(Loops)
      BY <3>1, <3>2 DEF f
    <3>4. Moves(c) /\ pc'[c] = <<f>>
      BY <1>2, <3>3, AfterOne
    <3>5. Goes(c)
      BY <3>2, <3>4, InCallNext
    <3>6. Woke(c)
      <4> SUFFICES ASSUME NEW e \in Loops, Awaits(c, <<"woken", e>>)
                   PROVE  e = Target(c)
        BY <3>2, <3>4 DEF Woke
      <4>1. <<"woken", e>> = <<"woken", Target(c)>>
        BY <1>4
      <4> QED BY <4>1
    <3> QED BY <3>4, <3>5, <3>6
  <2> QED BY <2>1, <2>2
<1>7. Resumes({})
  BY <1>1, Undisturbed DEF tcb, lists
<1>8. /\ {} \in SUBSET Threads /\ current_priority' \in [Threads -> Prios]
      /\ error' \in [Threads -> Errors]
      /\ \A t \in Threads \ ({} \cup {c}) : error'[t] = error[t]
  BY <1>1 DEF tcb, KInv, Regular, TcbOK
<1>9. PriorityStep({}) /\ Told({}, {})
  BY <1>1, ToldNobody DEF PriorityStep, tcb
<1> QED BY <1>1, <1>2, <1>5, <1>6, <1>7, <1>8, <1>9, GoesOnFrom DEF tcb, lists

-----------------------------------------------------------------------------
(* The semaphores.                                                         *)

LEMMA SemaphoreLists ==
    ASSUME NEW s \in Semaphores
    PROVE  s \in Objects /\ s \in Lists
BY SemaphoreAssumption, IpcAssumption

LEMMA TakeWaitStep ==
    ASSUME KInv, api \in Apis, NEW c \in Threads, NEW s \in Semaphores, NEW timed,
           TakeWait(c, s, timed)
    PROVE  KStep({s}) /\ GrantStep({})
<1> DEFINE w == <<"taken", s>>
<1>1. /\ \E call : Call(c, call)
      /\ Wait(c, s, timed) /\ Goto(c, <<Again(c), w>>)
      /\ UNCHANGED <<current_priority, remaining_tick, rt_thread_defunct,
                     rt_current_thread, rt_scheduler_lock_nest, isr>>
  BY DEF TakeWait, Again
<1>2. w \in Waits(c) /\ WaitsOn(w, s)
  BY DEF Waits, WaitsOn
<1> HIDE DEF w
<1> QED BY <1>1, <1>2, SemaphoreLists, CallWaits

LEMMA ReleaseStep ==
    ASSUME KInv, api \in Apis, NEW c \in Threads, NEW s \in Semaphores, Release(c, s)
    PROVE  KStep({s})
<1>1. /\ Call(c, "release") /\ FirstResumed(s) /\ Goto(c, AfterResume(c, s))
      /\ UNCHANGED <<current_priority, remaining_tick, error, rt_thread_defunct,
                     rt_current_thread, rt_scheduler_lock_nest, isr>>
  BY DEF Release, Released
<1> QED BY <1>1, SemaphoreLists, CallResumes

LEMMA IsrReleaseStep ==
    ASSUME KInv, NEW s \in Semaphores, IsrRelease(s)
    PROVE  KStep({s})
<1>1. /\ FirstResumed(s)
      /\ IF suspend_thread[s] # <<>> THEN Schedule ELSE UNCHANGED rt_current_thread
      /\ UNCHANGED <<current_priority, remaining_tick, error, rt_thread_defunct,
                     rt_scheduler_lock_nest, isr, pc>>
  BY DEF IsrRelease, Released
<1> QED BY <1>1, SemaphoreLists, HandlerResumes

LEMMA TakeReturnStep ==
    ASSUME KInv, NEW c \in Threads, TakeReturn(c)
    PROVE  Target(c) \in Semaphores /\ KStep({Target(c)})
<1>1. /\ At(c, "taken") /\ Return(c)
      /\ UNCHANGED <<tcb, lists, rt_current_thread, rt_scheduler_lock_nest, isr>>
  BY DEF TakeReturn
<1>2. Head(pc[c]) \in Waits(c) /\ Head(pc[c])[1] = "taken"
  BY <1>1, AtWait
<1>3. Target(c) \in Semaphores
  BY <1>2 DEF Waits, Target
<1> QED BY <1>1, <1>3, GrantReturns

\* The other steps give nothing.
LEMMA SemaphoreStillStep ==
    ASSUME KInv, api \in Apis, NEW c \in Threads, NEW s \in Semaphores, NEW v,
           \/ SemInitialise(c, s, v) \/ SemCreate(c, s, v) \/ SemReset(c, s, v)
           \/ SemDetach(c, s) \/ SemDelete(c, s) \/ Take(c, s)
    PROVE  KStep({})
<1>2. CASE SemInitialise(c, s, v) \/ SemCreate(c, s, v) \/ SemReset(c, s, v)
  BY <1>2, SemaphoreLists, MakeStep, ResetStep
     DEF SemInitialise, SemCreate, InitObject, CreateObject, SemReset
<1>3. CASE SemDetach(c, s) \/ SemDelete(c, s)
  BY <1>3, SemaphoreLists, EndStep DEF SemDetach, SemDelete, DetachObject, DeleteObject
<1>4. CASE Take(c, s)
  BY <1>4, StillStep DEF Take
<1> QED BY <1>2, <1>3, <1>4

LEMMA SemaphoreStep ==
    ASSUME KInv, api \in Apis, SemNext
    PROVE  KStep(Semaphores)
<1>1. ASSUME NEW S, S \subseteq Semaphores, KStep(S) PROVE KStep(Semaphores)
  BY <1>1, KStepMore
<1>2. \A s \in Semaphores : {s} \subseteq Semaphores /\ {} \subseteq Semaphores
  OBVIOUS
<1>3. ASSUME NEW s \in Semaphores, IsrRelease(s) PROVE KStep(Semaphores)
  BY <1>1, <1>2, <1>3, IsrReleaseStep
<1>4. ASSUME NEW c \in Threads, TakeReturn(c) PROVE KStep(Semaphores)
  BY <1>1, <1>2, <1>4, TakeReturnStep
<1>5. ASSUME NEW c \in Threads, NEW s \in Semaphores, Release(c, s) PROVE KStep(Semaphores)
  BY <1>1, <1>2, <1>5, ReleaseStep
<1>6. ASSUME NEW c \in Threads, NEW s \in Semaphores, NEW v,
             \/ SemInitialise(c, s, v) \/ SemCreate(c, s, v) \/ SemReset(c, s, v)
             \/ SemDetach(c, s) \/ SemDelete(c, s) \/ Take(c, s)
      PROVE  KStep(Semaphores)
  <2>1. KStep({})
    BY <1>6, SemaphoreStillStep
  <2> QED BY <1>1, <2>1
<1>7. ASSUME NEW c \in Threads, NEW s \in Semaphores, NEW timed, TakeWait(c, s, timed)
      PROVE  KStep(Semaphores)
  BY <1>1, <1>2, <1>7, TakeWaitStep
<1> QED BY <1>3, <1>4, <1>5, <1>6, <1>7 DEF SemNext, SemStep

-----------------------------------------------------------------------------
(* The objects that give nothing to a thread before it looks again.        *)

MailLists == Mailboxes \cup {SenderList[mb] : mb \in Mailboxes}

LEMMA StepAmong ==
    ASSUME NEW S, NEW l \in S, KStep({l})
    PROVE  KStep(S)
BY KStepMore

LEMMA StillAmong ==
    ASSUME NEW S, KStep({})
    PROVE  KStep(S)
BY KStepMore

-----------------------------------------------------------------------------
(* The events.                                                             *)

LEMMA EventLists ==
    ASSUME NEW e \in Events
    PROVE  e \in Objects /\ e \in Lists
BY EventAssumption, IpcAssumption

\* A call that answers at once.
LEMMA CallAnswers ==
    ASSUME KInv, api \in Apis, NEW c \in Threads, NEW call, Call(c, call),
           NEW err \in Errors, error' = [error EXCEPT ![c] = err],
           UNCHANGED <<stat, current_priority, remaining_tick, armed, lists,
                       rt_current_thread, rt_scheduler_lock_nest, isr, pc>>
    PROVE  KStep({})
<1>1. c \in Threads \ {Idle} /\ AtWork(c)
  BY Calls
<1>2. Moves(c) /\ Goes(c)
  BY <1>1, StaysMoves
<1>3. error \in [Threads -> Errors]
  BY DEF KInv, Regular, TcbOK
<1>4. error' \in [Threads -> Errors] /\ \A t \in Threads \ {c} : error'[t] = error[t]
  BY <1>3
<1> QED BY <1>1, <1>2, <1>4, Calmly

\* The waiters that rt_event_send resumes.
Sent(e, bits) == {suspend_thread[e][i] : i \in Satisfied(set[e] \cup bits, suspend_thread[e])}

LEMMA SendResumes ==
    ASSUME KInv, NEW e \in Events, NEW bits, SendBits(e, bits)
    PROVE  /\ Sent(e, bits) \in SUBSET Range(suspend_thread[e])
           /\ Sent(e, bits) \in SUBSET Threads /\ Resumes(Sent(e, bits))
<1> DEFINE q == suspend_thread[e]
           W == Sent(e, bits)
           r == Among(q, Threads \ W)
<1>1. /\ SomeResumed(q, W) /\ UNCHANGED current_priority
      /\ suspend_thread' = [suspend_thread EXCEPT ![e] = Among(@, Threads \ W)]
  BY DEF SendBits, Sent
<1>2. e \in Lists
  BY EventLists
<1>3. q \in Seq(Threads) /\ IsInjective(q) /\ Range(q) \subseteq Threads
      /\ suspend_thread \in [Lists -> Seq(Threads)]
  BY <1>2, WaitersAreThreads DEF KInv, WaitersOK
<1>4. W \in SUBSET Range(q)
  <2>1. \A i \in Satisfied(set[e] \cup bits, q) : i \in DOMAIN q
    BY DEF Satisfied
  <2> QED BY <2>1 DEF Sent, Range
<1>5. r \in Seq(Threads) /\ Range(r) = Range(q) \cap (Threads \ W)
      /\ Embeds(r, q) /\ IsInjective(r)
  <2> HIDE DEF q, W
  <2> QED BY <1>3, AmongIs
<1>6. suspend_thread' = [suspend_thread EXCEPT ![e] = r]
  BY <1>1, <1>2, <1>3
<1>7. \A t \in W : stat[t] = "SUSPEND"
  BY <1>2, <1>4 DEF KInv, WaitersOK
<1> HIDE DEF q, W, r
<1>8. Range(r) = Range(q) \ W
  BY <1>3, <1>4, <1>5
<1>9. Less(suspend_thread', suspend_thread, W)
  BY <1>2, <1>4, <1>5, <1>6, <1>8, LessOfOne DEF KInv, q
<1>10. W \in SUBSET Threads /\ Resumes(W)
  BY <1>1, <1>3, <1>4, <1>7, <1>9, SomeAreResumed
<1> QED BY <1>4, <1>10 DEF W, q

LEMMA EventSendStep ==
    ASSUME KInv, api \in Apis, NEW c \in Threads, NEW e \in Events, NEW bits,
           EventSend(c, e, bits)
    PROVE  KStep({e})
<1>1. /\ Call(c, "send") /\ UNCHANGED rt_current_thread
      /\ Goto(c, <<Again(c)>>) \/ Goto(c, <<>>)
      /\ UNCHANGED <<current_priority, remaining_tick, error, rt_thread_defunct,
                     rt_scheduler_lock_nest, isr>>
  BY DEF EventSend, SendBits, Again
<1>2. c \in Threads \ {Idle} /\ AtWork(c)
  BY <1>1, Calls
<1>3. Moves(c) /\ Goes(c)
  BY <1>1, GotoMoves, InCallNext
<1>4. Sent(e, bits) \in SUBSET Threads /\ Resumes(Sent(e, bits))
  BY SendResumes DEF EventSend
<1>5. /\ current_priority' \in [Threads -> Prios] /\ error' \in [Threads -> Errors]
      /\ \A t \in Threads \ (Sent(e, bits) \cup {c}) : error'[t] = error[t]
  BY <1>1 DEF KInv, Regular, TcbOK
<1>6. Told(Sent(e, bits), {e})
  BY SendResumes, EventLists, ToldOfList DEF EventSend
<1> QED BY <1>1, <1>2, <1>3, <1>4, <1>5, <1>6, GoesOnResuming

LEMMA IsrEventSendStep ==
    ASSUME KInv, NEW e \in Events, NEW bits, IsrEventSend(e, bits)
    PROVE  KStep({e})
<1>1. /\ rt_current_thread' = rt_current_thread \/ Schedule
      /\ UNCHANGED <<current_priority, remaining_tick, error, rt_thread_defunct,
                     rt_scheduler_lock_nest, isr, pc>>
  BY DEF IsrEventSend, SendBits
<1>2. Sent(e, bits) \in SUBSET Threads /\ Resumes(Sent(e, bits))
  BY SendResumes DEF IsrEventSend
<1>3. /\ remaining_tick' \in [Threads -> 1..InitTick] /\ error' \in [Threads -> Errors]
      /\ \A t \in Threads \ Sent(e, bits) : error'[t] = error[t]
      /\ isr' \in {"none", "tick"}
  BY <1>1 DEF KInv, Regular, TcbOK
<1>4. Told(Sent(e, bits), {e})
  BY SendResumes, EventLists, ToldOfList DEF IsrEventSend
<1> QED BY <1>1, <1>2, <1>3, <1>4, Handling

LEMMA EventWaitStep ==
    ASSUME KInv, api \in Apis, NEW c \in Threads, NEW e \in Events, NEW asked, NEW option,
           NEW timed, EventWait(c, e, asked, option, timed)
    PROVE  KStep(Events)
<1> DEFINE w == <<"received", e>>
<1>1. /\ \E call : Call(c, call)
      /\ Wait(c, e, timed) /\ Goto(c, <<Again(c), w>>)
      /\ UNCHANGED <<current_priority, remaining_tick, rt_thread_defunct,
                     rt_current_thread, rt_scheduler_lock_nest, isr>>
  BY DEF EventWait, Again
<1>2. w \in Waits(c) /\ WaitsOn(w, e)
  BY DEF Waits, WaitsOn
<1> HIDE DEF w
<1>3. KStep({e})
  BY <1>1, <1>2, EventLists, CallWaits
<1> QED BY <1>3, EventLists, StepAmong

LEMMA EventsStep ==
    ASSUME KInv, api \in Apis, EventNext
    PROVE  KStep(Events)
<1>0. KStep({}) => KStep(Events)
  BY StillAmong
<1> USE <1>0
<1>1. ASSUME NEW c \in Threads, EventReturn(c) PROVE KStep({})
  BY <1>1, WaitReturns DEF EventReturn
<1>2. ASSUME NEW c \in Threads, NEW e \in Events,
             EventInitialise(c, e) \/ EventCreate(c, e) \/ EventReset(c, e)
      PROVE  KStep({})
  BY <1>2, EventLists, MakeStep, ResetStep
     DEF EventInitialise, EventCreate, InitObject, CreateObject, EventReset
<1>3. ASSUME NEW c \in Threads, NEW e \in Events, EventDetach(c, e) \/ EventDelete(c, e)
      PROVE  KStep({})
  BY <1>3, EventLists, EndStep DEF EventDetach, EventDelete, DetachObject, DeleteObject
<1>4. ASSUME NEW c \in Threads, NEW e, NEW asked, NEW option, EventRecv(c, e, asked, option)
      PROVE  KStep({})
  <2>1. "EOK" \in Errors
    BY DEF Errors
  <2> QED BY <1>4, <2>1, CallAnswers DEF EventRecv
<1>5. ASSUME NEW c \in Threads, NEW e, NEW asked, NEW option, EventTry(c, e, asked, option)
      PROVE  KStep({})
  <2>1. "ETIMEOUT" \in Errors
    BY DEF Errors
  <2> QED BY <1>5, <2>1, CallAnswers DEF EventTry
<1>6. ASSUME NEW e \in Events, KStep({e}) PROVE KStep(Events)
  BY <1>6, EventLists, StepAmong
<1>7. ASSUME NEW c \in Threads, NEW e \in Events, NEW bits, EventSend(c, e, bits)
      PROVE  KStep(Events)
  BY <1>6, <1>7, EventSendStep
<1>8. ASSUME NEW e \in Events, NEW bits, IsrEventSend(e, bits) PROVE KStep(Events)
  BY <1>6, <1>8, IsrEventSendStep
<1> QED BY <1>1, <1>2, <1>3, <1>4, <1>5, <1>7, <1>8, EventWaitStep
        DEF EventNext, EventStep

-----------------------------------------------------------------------------
(* The mailboxes.                                                          *)

LEMMA MailboxLists ==
    ASSUME NEW mb \in Mailboxes
    PROVE  /\ mb \in Objects /\ mb \in Lists /\ SenderList[mb] \in Lists
           /\ SenderList[mb] \notin Objects /\ mb \in MailLists
           /\ SenderList[mb] \in MailLists
<1>1. mb \in Objects /\ mb \in Lists /\ ListsOf[mb] = <<mb, SenderList[mb]>>
  BY MailboxAssumption, IpcAssumption
<1>2. ListsOf[mb] = <<mb>> \/ \E l \in Lists \ Objects : ListsOf[mb] = <<mb, l>>
  BY <1>1, IpcAssumption
<1>3. \A a, b, d : <<a, b>> = <<a, d>> => b = d
  OBVIOUS
<1>4. \A a, b : <<a, b>> # <<a>>
  <2> TAKE a, b
  <2>1. DOMAIN <<a, b>> = 1..2 /\ DOMAIN <<a>> = 1..1 /\ 2 \in 1..2 /\ 2 \notin 1..1
    OBVIOUS
  <2> QED BY <2>1
<1>5. SenderList[mb] \in Lists \ Objects
  BY <1>1, <1>2, <1>3, <1>4, IpcAssumption
<1> QED BY <1>1, <1>5 DEF MailLists

LEMMA MailCallStep ==
    ASSUME KInv, api \in Apis, NEW c \in Threads, NEW mb \in Mailboxes,
           NEW wait \in {"try", "ever", "timed"}, MailCall(c, mb, wait)
    PROVE  KStep({})
<1>1. UNCHANGED <<tcb, lists, rt_current_thread, rt_scheduler_lock_nest, isr>>
  BY DEF MailCall
<1>2. \E e \in Loops : \E call : Call(c, call) /\ Goto(c, <<e>>)
  <2>1. <<"mailrecv", mb, wait>> \in Loops
        /\ \A mail \in Mails : <<"mailsend", mb, wait, mail>> \in Loops
    BY DEF Loops, Times
  <2> QED BY <2>1 DEF MailCall
<1>3. PICK e \in Loops : \E call : Call(c, call) /\ Goto(c, <<e>>)
  BY <1>2
<1>4. pc'[c] = <<e>> => Goes(c)
  BY InCallNext
<1> QED BY <1>1, <1>3, <1>4, CallsQuietly

LEMMA MailSendStep ==
    ASSUME KInv, NEW c \in Threads, MailSend(c)
    PROVE  KStep(MailLists)
<1> DEFINE mb == Target(c)
<1>1. /\ At(c, "mailsend")
      /\ \/ LoopWaits(c, SenderList[mb], "EOK")
         \/ /\ FirstResumed(mb) /\ Proceed(c, AfterResume(c, mb))
            /\ UNCHANGED <<current_priority, remaining_tick, error, rt_thread_defunct,
                           rt_current_thread, rt_scheduler_lock_nest, isr>>
  BY DEF MailSend, Posted
<1>2. /\ c \in Threads \ {Idle} /\ rt_current_thread = c /\ AtWork(c)
      /\ pc[c] = <<Locals(c)>> /\ Locals(c) \in Loops /\ Locals(c)[1] = "mailsend"
  BY <1>1, AtLoop
<1>3. mb \in Mailboxes /\ Locals(c)[2] = mb
  BY <1>2, LoopObject DEF Target, Locals
<1>4. /\ mb \in Lists /\ mb \in MailLists
      /\ SenderList[mb] \in Lists /\ SenderList[mb] \in MailLists
      /\ Looks(Locals(c), SenderList[mb])
      /\ "EOK" \in Errors
  BY <1>2, <1>3, MailboxLists DEF Looks, Errors
<1> HIDE DEF mb
<1>5. CASE LoopWaits(c, SenderList[mb], "EOK")
  <2>1. KStep({SenderList[mb]})
    BY <1>2, <1>4, <1>5, LoopStep
  <2> QED BY <1>4, <2>1, StepAmong
<1>6. CASE /\ FirstResumed(mb) /\ Proceed(c, AfterResume(c, mb))
           /\ UNCHANGED <<current_priority, remaining_tick, error, rt_thread_defunct,
                          rt_current_thread, rt_scheduler_lock_nest, isr>>
  <2>1. Moves(c) /\ Goes(c)
    BY <1>2, <1>6, GoesOnAfterResume
  <2>2. KStep({mb})
    BY <1>2, <1>4, <1>6, <2>1, FirstStep
  <2> QED BY <1>4, <2>2, StepAmong
<1> QED BY <1>1, <1>5, <1>6

LEMMA MailRecvStep ==
    ASSUME KInv, NEW c \in Threads, MailRecv(c)
    PROVE  KStep(MailLists)
<1> DEFINE mb == Target(c)
           l == SenderList[mb]
<1>1. /\ At(c, "mailrecv")
      /\ \/ LoopWaits(c, mb, "ETIMEOUT")
         \/ /\ FirstResumed(l) /\ Proceed(c, AfterResume(c, l))
            /\ UNCHANGED <<current_priority, remaining_tick, error, rt_thread_defunct,
                           rt_current_thread, rt_scheduler_lock_nest, isr>>
  BY DEF MailRecv
<1>2. /\ c \in Threads \ {Idle} /\ rt_current_thread = c /\ AtWork(c)
      /\ pc[c] = <<Locals(c)>> /\ Locals(c) \in Loops /\ Locals(c)[1] = "mailrecv"
  BY <1>1, AtLoop
<1>3. mb \in Mailboxes /\ Locals(c)[2] = mb
  BY <1>2, LoopObject DEF Target, Locals
<1>4. /\ mb \in Lists /\ mb \in MailLists /\ l \in Lists /\ l \in MailLists
      /\ Looks(Locals(c), mb) /\ "ETIMEOUT" \in Errors
  BY <1>2, <1>3, MailboxLists DEF Looks, Errors
<1> HIDE DEF mb, l
<1>5. CASE LoopWaits(c, mb, "ETIMEOUT")
  <2>1. KStep({mb})
    BY <1>2, <1>4, <1>5, LoopStep
  <2> QED BY <1>4, <2>1, StepAmong
<1>6. CASE /\ FirstResumed(l) /\ Proceed(c, AfterResume(c, l))
           /\ UNCHANGED <<current_priority, remaining_tick, error, rt_thread_defunct,
                          rt_current_thread, rt_scheduler_lock_nest, isr>>
  <2>1. Moves(c) /\ Goes(c)
    BY <1>2, <1>6, GoesOnAfterResume
  <2>2. KStep({l})
    BY <1>2, <1>4, <1>6, <2>1, FirstStep
  <2> QED BY <1>4, <2>2, StepAmong
<1> QED BY <1>1, <1>5, <1>6

LEMMA IsrMailSendStep ==
    ASSUME KInv, NEW mb \in Mailboxes, NEW mail, IsrMailSend(mb, mail)
    PROVE  KStep(MailLists)
<1>1. /\ FirstResumed(mb)
      /\ IF suspend_thread[mb] # <<>> THEN Schedule ELSE UNCHANGED rt_current_thread
      /\ UNCHANGED <<current_priority, remaining_tick, error, rt_thread_defunct,
                     rt_scheduler_lock_nest, isr, pc>>
  BY DEF IsrMailSend, Posted
<1>2. KStep({mb})
  BY <1>1, MailboxLists, HandlerResumes
<1> QED BY <1>2, MailboxLists, StepAmong

LEMMA MailboxesStep ==
    ASSUME KInv, api \in Apis, MailNext
    PROVE  KStep(MailLists)
<1>0. KStep({}) => KStep(MailLists)
  BY StillAmong
<1> USE <1>0
<1>1. ASSUME NEW c \in Threads, NEW mb \in Mailboxes,
             MailInitialise(c, mb) \/ MailCreate(c, mb) \/ MailReset(c, mb)
      PROVE  KStep({})
  BY <1>1, MailboxLists, MakeStep, ResetStep
     DEF MailInitialise, MailCreate, InitObject, CreateObject, MailReset
<1>2. ASSUME NEW c \in Threads, NEW mb \in Mailboxes, MailDetach(c, mb) \/ MailDelete(c, mb)
      PROVE  KStep({})
  BY <1>2, MailboxLists, EndStep DEF MailDetach, MailDelete, DetachObject, DeleteObject
<1> QED BY <1>1, <1>2, MailSendStep, MailRecvStep, MailCallStep, IsrMailSendStep
        DEF MailNext, MailStep

-----------------------------------------------------------------------------
(* The message queues.                                                     *)

LEMMA QueueLists ==
    ASSUME NEW q \in Queues
    PROVE  q \in Objects /\ q \in Lists
BY QueueAssumption, IpcAssumption

LEMMA MsgTakeStep ==
    ASSUME KInv, api \in Apis, NEW c \in Threads, NEW q \in Queues, NEW how, NEW text,
           MsgTake(c, q, how, text)
    PROVE  KStep({})
<1> DEFINE e == <<"fill", q, msg_queue_free[q], how, text>>
<1>1. /\ Call(c, "msgsend") /\ Goto(c, <<e>>)
      /\ UNCHANGED <<tcb, lists, rt_current_thread, rt_scheduler_lock_nest, isr>>
  BY DEF MsgTake
<1>2. Copying(e)
  BY DEF Copying
<1> HIDE DEF e
<1>3. pc'[c] = <<e>> => Goes(c)
  BY <1>2, InCallNext
<1> QED BY <1>1, <1>3, CallsQuietly

LEMMA MsgFillStep ==
    ASSUME KInv, NEW c \in Threads, MsgFill(c)
    PROVE  KStep({})
<1> DEFINE e == [Locals(c) EXCEPT ![1] = "link"]
<1>1. /\ At(c, "fill") /\ Proceed(c, <<e>>)
      /\ UNCHANGED <<tcb, lists, rt_current_thread, rt_scheduler_lock_nest, isr>>
  BY DEF MsgFill
<1>2. /\ c \in Threads \ {Idle} /\ AtWork(c)
      /\ pc[c] = <<Locals(c)>> /\ Copying(Locals(c))
  BY <1>1, AtCopy
<1>3. Copying(e)
  BY <1>2 DEF Copying
<1> HIDE DEF e
<1>4. Moves(c) /\ pc'[c] = <<e>>
  <2>1. <<e>> \in Seq({e})
    OBVIOUS
  <2> QED BY <1>1, <1>2, <2>1, AfterOne
<1>5. Goes(c)
  BY <1>3, <1>4, InCallNext
<1> QED BY <1>1, <1>2, <1>4, <1>5, Quietly

LEMMA MsgLinkStep ==
    ASSUME KInv, NEW c \in Threads, MsgLink(c)
    PROVE  KStep(Queues)
<1> DEFINE q == Target(c)
<1>1. /\ At(c, "link") /\ FirstResumed(q) /\ Proceed(c, AfterResume(c, q))
      /\ UNCHANGED <<current_priority, remaining_tick, error, rt_thread_defunct,
                     rt_current_thread, rt_scheduler_lock_nest, isr>>
  BY DEF MsgLink, Linked
<1>2. /\ c \in Threads \ {Idle} /\ AtWork(c)
      /\ pc[c] = <<Locals(c)>> /\ Copying(Locals(c))
  BY <1>1, AtCopy
<1>3. q \in Lists /\ q \in Queues
  BY <1>2, QueueLists DEF Copying, Target, Locals
<1> HIDE DEF q
<1>4. Moves(c) /\ Goes(c)
  BY <1>1, <1>2, GoesOnAfterResume
<1>5. KStep({q})
  BY <1>1, <1>2, <1>3, <1>4, FirstStep
<1> QED BY <1>3, <1>5, StepAmong

LEMMA IsrMsgSendStep ==
    ASSUME KInv, NEW q \in Queues, NEW how, NEW text, IsrMsgSend(q, how, text)
    PROVE  KStep(Queues)
<1>1. /\ FirstResumed(q)
      /\ IF suspend_thread[q] # <<>> THEN Schedule ELSE UNCHANGED rt_current_thread
      /\ UNCHANGED <<current_priority, remaining_tick, error, rt_thread_defunct,
                     rt_scheduler_lock_nest, isr, pc>>
  BY DEF IsrMsgSend, Linked
<1>2. KStep({q})
  BY <1>1, QueueLists, HandlerResumes
<1> QED BY <1>2, QueueLists, StepAmong

LEMMA MsgRecvCallStep ==
    ASSUME KInv, api \in Apis, NEW c \in Threads, NEW q \in Queues,
           NEW wait \in {"try", "ever", "timed"}, MsgRecvCall(c, q, wait)
    PROVE  KStep({})
<1> DEFINE e == <<"msgrecv", q, wait>>
<1>1. /\ \E call : Call(c, call) /\ Goto(c, <<e>>)
      /\ UNCHANGED <<tcb, lists, rt_current_thread, rt_scheduler_lock_nest, isr>>
  BY DEF MsgRecvCall
<1>2. e \in Loops
  BY DEF Loops, Times
<1> HIDE DEF e
<1>3. pc'[c] = <<e>> => Goes(c)
  BY <1>2, InCallNext
<1> QED BY <1>1, <1>3, CallsQuietly

LEMMA MsgRecvStep ==
    ASSUME KInv, NEW c \in Threads, MsgRecv(c)
    PROVE  KStep(Queues)
<1> DEFINE q == Target(c)
           e == <<"copy", q, msg_queue_head[q], "recv", msg_text[q][msg_queue_head[q]]>>
<1>1. /\ At(c, "msgrecv")
      /\ \/ LoopWaits(c, q, "ETIMEOUT")
         \/ /\ Proceed(c, <<e>>)
            /\ UNCHANGED <<tcb, lists, rt_current_thread, rt_scheduler_lock_nest, isr>>
  BY DEF MsgRecv
<1>2. /\ c \in Threads \ {Idle} /\ rt_current_thread = c /\ AtWork(c)
      /\ pc[c] = <<Locals(c)>> /\ Locals(c) \in Loops /\ Locals(c)[1] = "msgrecv"
  BY <1>1, AtLoop
<1>3. q \in Queues /\ Locals(c)[2] = q
  BY <1>2, LoopObject DEF Target, Locals
<1>4. q \in Lists /\ q \in Queues /\ Looks(Locals(c), q) /\ "ETIMEOUT" \in Errors
  BY <1>2, <1>3, QueueLists DEF Looks, Errors
<1>5. Copying(e)
  BY <1>3 DEF Copying
<1> HIDE DEF q, e
<1>6. CASE LoopWaits(c, q, "ETIMEOUT")
  <2>1. KStep({q})
    BY <1>2, <1>4, <1>6, LoopStep
  <2> QED BY <1>4, <2>1, StepAmong
<1>7. CASE /\ Proceed(c, <<e>>)
           /\ UNCHANGED <<tcb, lists, rt_current_thread, rt_scheduler_lock_nest, isr>>
  <2>1. <<e>> \in Seq({e})
    OBVIOUS
  <2>2. Moves(c) /\ pc'[c] = <<e>>
    BY <1>2, <1>7, <2>1, AfterOne
  <2>3. Goes(c)
    BY <1>5, <2>2, InCallNext
  <2> QED BY <1>2, <1>7, <2>2, <2>3, Quietly, StillAmong
<1> QED BY <1>1, <1>6, <1>7

LEMMA MsgFreeStep ==
    ASSUME KInv, NEW c \in Threads, MsgFree(c)
    PROVE  KStep({})
<1>1. /\ At(c, "copy") /\ Proceed(c, <<>>)
      /\ UNCHANGED <<tcb, lists, rt_current_thread, rt_scheduler_lock_nest, isr>>
  BY DEF MsgFree, Return
<1>2. c \in Threads \ {Idle} /\ AtWork(c) /\ pc[c] = <<Locals(c)>>
  BY <1>1, AtCopy
<1>3. Moves(c) /\ Goes(c)
  <2>1. <<>> \in Seq(Threads)
    OBVIOUS
  <2> QED BY <1>1, <1>2, <2>1, AfterOne, InCallNext
<1> QED BY <1>1, <1>2, <1>3, Quietly

LEMMA QueuesStep ==
    ASSUME KInv, api \in Apis, QueueNext
    PROVE  KStep(Queues)
<1>0. KStep({}) => KStep(Queues)
  BY StillAmong
<1> USE <1>0
<1>1. ASSUME NEW c \in Threads, NEW q \in Queues,
             QueueInitialise(c, q) \/ QueueCreate(c, q) \/ MsgReset(c, q)
      PROVE  KStep({})
  BY <1>1, QueueLists, MakeStep, ResetStep
     DEF QueueInitialise, QueueCreate, InitObject, CreateObject, MsgReset
<1>2. ASSUME NEW c \in Threads, NEW q \in Queues, QueueDetach(c, q) \/ QueueDelete(c, q)
      PROVE  KStep({})
  BY <1>2, QueueLists, EndStep DEF QueueDetach, QueueDelete, DetachObject, DeleteObject
<1> QED BY <1>1, <1>2, MsgTakeStep, MsgFillStep, MsgLinkStep, MsgRecvCallStep, MsgRecvStep,
           MsgFreeStep, IsrMsgSendStep DEF QueueNext, QueueStep

-----------------------------------------------------------------------------
(* The memory pools.                                                       *)

LEMMA PoolLists ==
    ASSUME NEW mp \in Pools
    PROVE  mp \in Objects /\ mp \in Lists
BY PoolAssumption, IpcAssumption

LEMMA PoolCallStep ==
    ASSUME KInv, api \in Apis, NEW c \in Threads, NEW mp \in Pools,
           NEW wait \in {"try", "ever", "timed"}, PoolCall(c, mp, wait)
    PROVE  KStep({})
<1> DEFINE e == <<"mpalloc", mp, wait>>
<1>1. /\ \E call : Call(c, call) /\ Goto(c, <<e>>)
      /\ UNCHANGED <<tcb, lists, rt_current_thread, rt_scheduler_lock_nest, isr>>
  BY DEF PoolCall
<1>2. e \in Loops
  BY DEF Loops, Times
<1> HIDE DEF e
<1>3. pc'[c] = <<e>> => Goes(c)
  BY <1>2, InCallNext
<1> QED BY <1>1, <1>3, CallsQuietly

LEMMA PoolAllocStep ==
    ASSUME KInv, NEW c \in Threads, PoolAlloc(c)
    PROVE  KStep(Pools)
<1> DEFINE mp == Target(c)
<1>1. /\ At(c, "mpalloc")
      /\ \/ LoopWaits(c, mp, "ETIMEOUT")
         \/ /\ Proceed(c, <<>>)
            /\ (error' = [error EXCEPT ![c] = "ETIMEOUT"] \/ error' = error)
            /\ UNCHANGED <<stat, current_priority, remaining_tick, armed, lists,
                           rt_current_thread, rt_scheduler_lock_nest, isr>>
  BY DEF PoolAlloc, PoolWaits, Return, tcb
<1>2. /\ c \in Threads \ {Idle} /\ rt_current_thread = c /\ AtWork(c)
      /\ pc[c] = <<Locals(c)>> /\ Locals(c) \in Loops /\ Locals(c)[1] = "mpalloc"
  BY <1>1, AtLoop
<1>3. mp \in Pools /\ Locals(c)[2] = mp
  BY <1>2, LoopObject DEF Target, Locals
<1>4. mp \in Lists /\ mp \in Pools /\ Looks(Locals(c), mp) /\ "ETIMEOUT" \in Errors
  BY <1>2, <1>3, PoolLists DEF Looks, Errors
<1> HIDE DEF mp
<1>5. CASE LoopWaits(c, mp, "ETIMEOUT")
  <2>1. KStep({mp})
    BY <1>2, <1>4, <1>5, LoopStep
  <2> QED BY <1>4, <2>1, StepAmong
<1>6. CASE /\ Proceed(c, <<>>)
           /\ (error' = [error EXCEPT ![c] = "ETIMEOUT"] \/ error' = error)
           /\ UNCHANGED <<stat, current_priority, remaining_tick, armed, lists,
                          rt_current_thread, rt_scheduler_lock_nest, isr>>
  <2>1. Moves(c) /\ Goes(c)
    <3>1. <<>> \in Seq(Threads)
      OBVIOUS
    <3> QED BY <1>2, <1>6, <3>1, AfterOne, InCallNext
  <2>2. error \in [Threads -> Errors]
    BY DEF KInv, Regular, TcbOK
  <2>3. error' \in [Threads -> Errors] /\ \A t \in Threads \ {c} : error'[t] = error[t]
    BY <1>4, <1>6, <2>2
  <2> QED BY <1>2, <1>6, <2>1, <2>3, Calmly, StillAmong
<1> QED BY <1>1, <1>5, <1>6

\* The thread that rt_mp_free resumes, if there is one by the count.
Freeing(mp) == IF suspend_thread_count[mp] = 0 THEN {} ELSE First(mp)

LEMMA FreedResumes ==
    ASSUME KInv, NEW mp \in Pools, NEW b, Freed(mp, b), UNCHANGED current_priority
    PROVE  /\ Freeing(mp) \in SUBSET Threads /\ Resumes(Freeing(mp))
           /\ error' = [t \in Threads |-> IF t \in Freeing(mp) THEN "EOK" ELSE error[t]]
<1>1. mp \in Lists /\ error \in [Threads -> Errors]
  BY PoolLists DEF KInv, Regular, TcbOK
<1>2. CASE /\ Freeing(mp) = {} /\ NobodyResumed /\ UNCHANGED error
  <2>1. Resumes({})
    BY <1>2, Undisturbed DEF NobodyResumed
  <2>2. error' = [t \in Threads |-> IF t \in {} THEN "EOK" ELSE error[t]]
    BY <1>1, <1>2
  <2> QED BY <1>2, <2>1, <2>2
<1>3. CASE /\ suspend_thread[mp] # <<>> /\ HeadResumed(mp)
           /\ Freeing(mp) = {Head(suspend_thread[mp])}
           /\ error' = [error EXCEPT ![Head(suspend_thread[mp])] = "EOK"]
  <2>1. FirstResumed(mp) /\ First(mp) = Freeing(mp)
    BY <1>3 DEF FirstResumed, First
  <2>2. Freeing(mp) \in SUBSET Threads /\ Resumes(Freeing(mp))
    BY <1>1, <2>1, FirstIsResumed
  <2>3. error' = [t \in Threads |-> IF t \in Freeing(mp) THEN "EOK" ELSE error[t]]
    BY <1>1, <1>3, <2>2
  <2> QED BY <2>2, <2>3
<1>4. CASE suspend_thread_count[mp] = 0
  BY <1>2, <1>4 DEF Freed, Freeing
<1>5. CASE suspend_thread_count[mp] # 0 /\ suspend_thread[mp] = <<>>
  BY <1>2, <1>5 DEF Freed, Freeing, First
<1>6. CASE suspend_thread_count[mp] # 0 /\ suspend_thread[mp] # <<>>
  BY <1>3, <1>6 DEF Freed, Freeing, First
<1> QED BY <1>4, <1>5, <1>6

LEMMA PoolFreeStep ==
    ASSUME KInv, api \in Apis, NEW c \in Threads, NEW mp \in Pools, NEW b, PoolFree(c, mp, b)
    PROVE  KStep(Pools)
<1> DEFINE W == Freeing(mp)
<1>1. /\ Call(c, "mpfree") /\ Freed(mp, b) /\ (Goto(c, <<Again(c)>>) \/ Goto(c, <<>>))
      /\ UNCHANGED <<current_priority, remaining_tick, rt_thread_defunct,
                     rt_current_thread, rt_scheduler_lock_nest, isr>>
  BY DEF PoolFree, Again
<1>2. c \in Threads \ {Idle} /\ AtWork(c)
  BY <1>1, Calls
<1>3. Moves(c) /\ Goes(c)
  BY <1>1, GotoMoves, InCallNext
<1>4. /\ W \in SUBSET Threads /\ Resumes(W)
      /\ error' = [t \in Threads |-> IF t \in W THEN "EOK" ELSE error[t]]
  BY <1>1, FreedResumes
<1> HIDE DEF W
<1>5. error \in [Threads -> Errors] /\ current_priority' \in [Threads -> Prios]
  BY <1>1 DEF KInv, Regular, TcbOK
<1>6. error' \in [Threads -> Errors] /\ \A t \in Threads \ (W \cup {c}) : error'[t] = error[t]
  BY <1>4, <1>5 DEF Errors
<1>7. Told(W, {mp}) /\ mp \in Pools
  BY FirstTold, ToldNobody, PoolLists DEF W, Freeing
<1>8. KStep({mp})
  BY <1>1, <1>2, <1>3, <1>4, <1>5, <1>6, <1>7, GoesOnResuming
<1> QED BY <1>7, <1>8, StepAmong

LEMMA IsrPoolFreeStep ==
    ASSUME KInv, NEW mp \in Pools, NEW b, IsrPoolFree(mp, b)
    PROVE  KStep(Pools)
<1> DEFINE W == Freeing(mp)
<1>1. /\ Freed(mp, b) /\ (rt_current_thread' = rt_current_thread \/ Schedule)
      /\ UNCHANGED <<current_priority, remaining_tick, rt_thread_defunct,
                     rt_scheduler_lock_nest, isr, pc>>
  BY DEF IsrPoolFree
<1>2. /\ W \in SUBSET Threads /\ Resumes(W)
      /\ error' = [t \in Threads |-> IF t \in W THEN "EOK" ELSE error[t]]
  BY <1>1, FreedResumes
<1> HIDE DEF W
<1>3. /\ remaining_tick' \in [Threads -> 1..InitTick] /\ error \in [Threads -> Errors]
      /\ isr' \in {"none", "tick"}
  BY <1>1 DEF KInv, Regular, TcbOK
<1>4. error' \in [Threads -> Errors] /\ \A t \in Threads \ W : error'[t] = error[t]
  BY <1>2, <1>3 DEF Errors
<1>7. Told(W, {mp}) /\ mp \in Pools
  BY FirstTold, ToldNobody, PoolLists DEF W, Freeing
<1>8. KStep({mp})
  BY <1>1, <1>2, <1>3, <1>4, <1>7, Handling
<1> QED BY <1>7, <1>8, StepAmong

LEMMA PoolsStep ==
    ASSUME KInv, api \in Apis, PoolNext
    PROVE  KStep(Pools)
<1>0. KStep({}) => KStep(Pools)
  BY StillAmong
<1> USE <1>0
<1>1. ASSUME NEW c \in Threads, NEW mp \in Pools, PoolInitialise(c, mp) \/ PoolCreate(c, mp)
      PROVE  KStep({})
  BY <1>1, PoolLists, MakeStep DEF PoolInitialise, PoolCreate, InitObject, CreateObject
<1>2. ASSUME NEW c \in Threads, NEW mp \in Pools, PoolDetach(c, mp) \/ PoolDelete(c, mp)
      PROVE  KStep({})
  BY <1>2, PoolLists, EndStep DEF PoolDetach, PoolDelete, DetachObject, DeleteObject
<1>3. ASSUME NEW mp, IsrPoolAlloc(mp) PROVE KStep({})
  <2>1. UNCHANGED kvars
    BY <1>3 DEF IsrPoolAlloc, kvars
  <2> QED BY <2>1, StillStep
<1>4. ASSUME NEW c \in Threads, PoolResumeOne(c) PROVE KStep({})
  BY <1>4, ResumeOneStep DEF PoolResumeOne
<1> QED BY <1>1, <1>2, <1>3, <1>4, PoolCallStep, PoolAllocStep, PoolFreeStep, IsrPoolFreeStep
        DEF PoolNext, PoolStep

-----------------------------------------------------------------------------
(* The mutexes.                                                            *)

\* A mutex that is not free has an owner, whose priority is kept.
MutexesOK ==
    /\ owner \in [Mutexes -> Threads \cup {NoThread}]
    /\ original_priority \in [Mutexes -> Prios \cup {NoPriority}]
    /\ \A m \in Mutexes : /\ m \in free <=> owner[m] = NoThread
                          /\ m \notin free => original_priority[m] \in Prios

LEMMA MutexLists ==
    ASSUME NEW m \in Mutexes
    PROVE  m \in Objects /\ m \in Lists
BY MutexAssumption, IpcAssumption

\* The ready queue after a change of priority.
LEMMA MovedIs ==
    ASSUME KInv, NEW t \in Threads, NEW p \in Prios
    PROVE  QueueOK(stat, [current_priority EXCEPT ![t] = p], Moved(t, p).table,
                   Moved(t, p).group)
<1> DEFINE rest == Unlinked(rt_thread_priority_table, t)
           pr == [current_priority EXCEPT ![t] = p]
<1>1. /\ stat \in [Threads -> Stats] /\ current_priority \in [Threads -> Prios]
      /\ QueueOK(stat, current_priority, rt_thread_priority_table,
                 rt_thread_ready_priority_group)
  BY DEF KInv, Regular, TcbOK, ReadyQueueOK
<1>2. CASE stat[t] = "READY"
  <2>1. /\ Moved(t, p).table = [rest EXCEPT ![p] = Append(@, t)]
        /\ Moved(t, p).group = (IF rest[current_priority[t]] = <<>>
                                THEN rt_thread_ready_priority_group \ {current_priority[t]}
                                ELSE rt_thread_ready_priority_group) \cup {p}
    BY <1>2 DEF Moved, GroupAfterRemove
  <2>2. QueueOK(stat, pr, [rest EXCEPT ![p] = Append(@, t)],
                (IF rest[current_priority[t]] = <<>>
                 THEN rt_thread_ready_priority_group \ {current_priority[t]}
                 ELSE rt_thread_ready_priority_group) \cup {p})
    BY <1>1, <1>2, QueueMoved
  <2> QED BY <2>1, <2>2
<1>3. CASE stat[t] # "READY"
  <2>1. /\ Moved(t, p).table = rt_thread_priority_table
        /\ Moved(t, p).group = rt_thread_ready_priority_group
    BY <1>3 DEF Moved
  <2>2. QueueOK(stat, pr, rt_thread_priority_table, rt_thread_ready_priority_group)
    BY <1>1, <1>3, QueueApart
  <2> QED BY <2>1, <2>2
<1> QED BY <1>2, <1>3

LEMMA MutexWaitStep ==
    ASSUME KInv, MutexesOK, api \in Apis, NEW c \in Threads, NEW m \in Mutexes, NEW timed,
           MutexWait(c, m, timed)
    PROVE  KStep({m}) /\ GrantStep({})
<1> DEFINE w == <<"locked", m>>
           o == owner[m]
           p == current_priority[c]
<1>1. /\ \E call : Call(c, call)
      /\ Goto(c, <<Again(c), w>>) /\ m \notin free /\ o # c
      /\ UNCHANGED <<remaining_tick, rt_thread_defunct, rt_current_thread,
                     rt_scheduler_lock_nest, isr>>
  BY DEF MutexWait, Again
<1>2. w \in Waits(c) /\ WaitsOn(w, m) /\ m \in Lists
  BY MutexLists DEF Waits, WaitsOn
<1>3. o \in Threads /\ current_priority \in [Threads -> Prios] /\ p \in Prios
  BY <1>1 DEF MutexesOK, KInv, Regular, TcbOK
<1>4. c \in Threads \ {Idle} /\ rt_current_thread = c /\ AtWork(c)
  BY <1>1, Calls
<1>5. Moves(c) /\ pc'[c] = <<Again(c), w>>
  <2> HIDE DEF w
  <2> QED BY <1>1, GotoMoves
<1>6. CASE Raises(c, m)
  <2>1. /\ current_priority' = [current_priority EXCEPT ![o] = p]
        /\ WaitOn(c, m, timed, Moved(o, p).table, Moved(o, p).group)
    BY <1>6 DEF MutexWait
  <2>2. current_priority' \in [Threads -> Prios] /\ current_priority'[c] = current_priority[c]
    BY <1>1, <1>3, <2>1
  <2>3. QueueOK(stat, current_priority', Moved(o, p).table, Moved(o, p).group)
    BY <1>3, <2>1, MovedIs
  <2>4. PriorityStep({m}) /\ m \in {m}
    BY <1>3, <2>1 DEF PriorityStep, Owners
  <2> HIDE DEF w, o, p
  <2> QED BY <1>1, <1>2, <1>4, <1>5, <2>1, <2>2, <2>3, <2>4, WaitBegins
<1>7. CASE ~Raises(c, m)
  <2>1. Wait(c, m, timed) /\ UNCHANGED current_priority
    BY <1>7 DEF MutexWait
  <2> HIDE DEF w
  <2> QED BY <1>1, <1>2, <2>1, CallWaits
<1> QED BY <1>6, <1>7

\* The priority of the releasing thread is its own again.
LEMMA ReleaseResumes ==
    ASSUME KInv, MutexesOK, NEW c \in Threads, NEW m \in Mutexes, MutexRelease(c, m),
           stat[c] = "READY"
    PROVE  /\ First(m) \in SUBSET Threads /\ Resumes(First(m))
           /\ current_priority' \in [Threads -> Prios] /\ PriorityStep({m})
<1> DEFINE o == original_priority[m]
           q == IF o # current_priority[c] THEN Moved(c, o)
                ELSE [table |-> rt_thread_priority_table,
                      group |-> rt_thread_ready_priority_group]
<1>1. /\ owner[m] = c /\ current_priority' = [current_priority EXCEPT ![c] = o]
      /\ \/ suspend_thread[m] # <<>> /\ HeadResumedOn(m, q.table, q.group)
         \/ /\ suspend_thread[m] = <<>>
            /\ rt_thread_priority_table' = q.table /\ rt_thread_ready_priority_group' = q.group
            /\ UNCHANGED <<suspend_thread, armed, stat>>
  BY DEF MutexRelease
<1>2. m \notin free /\ o \in Prios /\ m \in Lists
  BY <1>1, MutexLists, KernelAssumption DEF MutexesOK
<1>3. current_priority \in [Threads -> Prios] /\ stat \in [Threads -> Stats]
  BY DEF KInv, Regular, TcbOK
<1>4. QueueOK(stat, current_priority', q.table, q.group)
  <2>1. CASE o # current_priority[c]
    BY <1>1, <1>2, <2>1, MovedIs
  <2>2. CASE o = current_priority[c]
    <3>1. current_priority' = current_priority
      BY <1>1, <1>3, <2>2
    <3>2. q.table = rt_thread_priority_table /\ q.group = rt_thread_ready_priority_group
      BY <2>2
    <3> QED BY <3>1, <3>2 DEF KInv, ReadyQueueOK
  <2> QED BY <2>1, <2>2
<1>5. /\ current_priority' \in [Threads -> Prios]
      /\ \A t \in Threads : stat[t] = "SUSPEND" => current_priority'[t] = current_priority[t]
  BY <1>1, <1>2, <1>3
<1>8. PriorityStep({m})
  BY <1>5 DEF PriorityStep
<1> HIDE DEF q, o
<1>6. CASE suspend_thread[m] # <<>> /\ HeadResumedOn(m, q.table, q.group)
  <2>1. First(m) = {Head(suspend_thread[m])}
    BY <1>6 DEF First
  <2> QED BY <1>2, <1>4, <1>5, <1>6, <1>8, <2>1, HeadIsResumed
<1>7. CASE /\ suspend_thread[m] = <<>>
           /\ rt_thread_priority_table' = q.table /\ rt_thread_ready_priority_group' = q.group
           /\ UNCHANGED <<suspend_thread, armed, stat>>
  <2>1. First(m) = {}
    BY <1>7 DEF First
  <2>2. stat' = [t \in Threads |-> IF t \in {} THEN "READY" ELSE stat[t]]
    BY <1>3, <1>7
  <2>3. Less(suspend_thread', suspend_thread, {})
    BY <1>7, LessByNone DEF KInv
  <2>4. Resumes({})
    BY <1>4, <1>7, <2>2, <2>3 DEF Resumes
  <2> QED BY <1>5, <1>8, <2>1, <2>4
<1> QED BY <1>1, <1>6, <1>7

LEMMA MutexReleaseStep ==
    ASSUME KInv, MutexesOK, api \in Apis, NEW c \in Threads, NEW m \in Mutexes,
           MutexRelease(c, m)
    PROVE  KStep({m})
<1>1. /\ Call(c, "unlock") /\ Goto(c, AfterResume(c, m))
      /\ UNCHANGED <<remaining_tick, error, rt_thread_defunct, rt_current_thread,
                     rt_scheduler_lock_nest, isr>>
  BY DEF MutexRelease
<1>2. /\ c \in Threads \ {Idle} /\ AtWork(c) /\ stat[c] = "READY"
      /\ rt_current_thread = c /\ Woke(c)
  BY <1>1, Calls, AtWorkWoke
<1>3. Moves(c) /\ Goes(c)
  BY <1>1, AfterResumeIs, GotoMoves, InCallNext
<1>4. /\ First(m) \in SUBSET Threads /\ Resumes(First(m))
      /\ current_priority' \in [Threads -> Prios] /\ PriorityStep({m})
  BY <1>2, ReleaseResumes
<1>5. /\ error' \in [Threads -> Errors]
      /\ \A t \in Threads \ (First(m) \cup {c}) : error'[t] = error[t]
  BY <1>1 DEF KInv, Regular, TcbOK
<1>6. \A w \in Awaited : w[2] \notin {m} => ~Awaits(c, w)
  BY <1>2 DEF AtWork
<1> QED BY <1>1, <1>2, <1>3, <1>4, <1>5, <1>6, FirstTold, MutexLists, GoesOnFrom

LEMMA MutexReturnStep ==
    ASSUME KInv, NEW c \in Threads, MutexReturn(c)
    PROVE  Target(c) \in Mutexes /\ KStep({Target(c)})
<1>1. /\ At(c, "locked") /\ Return(c)
      /\ UNCHANGED <<tcb, lists, rt_current_thread, rt_scheduler_lock_nest, isr>>
  BY DEF MutexReturn
<1>2. Head(pc[c]) \in Waits(c) /\ Head(pc[c])[1] = "locked"
  BY <1>1, AtWait
<1>3. Target(c) \in Mutexes
  BY <1>2 DEF Waits, Target
<1> QED BY <1>1, <1>3, GrantReturns

\* The steps that give nothing and leave the priorities.
MutexStill(c, m) ==
    \/ MutexInitialise(c, m) \/ MutexCreate(c, m) \/ MutexDetach(c, m) \/ MutexDelete(c, m)
    \/ MutexTake(c, m) \/ MutexAgain(c, m) \/ MutexTry(c, m) \/ MutexRefused(c, m)
    \/ MutexLessOne(c, m)

LEMMA MutexStillStep ==
    ASSUME KInv, api \in Apis, NEW c \in Threads, NEW m \in Mutexes, MutexStill(c, m)
    PROVE  KStep({})
<1>2. ASSUME MutexInitialise(c, m) \/ MutexCreate(c, m)
      PROVE  KStep({})
  BY <1>2, MutexLists, MakeStep DEF MutexInitialise, MutexCreate, InitObject, CreateObject
<1>3. ASSUME MutexDetach(c, m) \/ MutexDelete(c, m)
      PROVE  KStep({})
  BY <1>3, MutexLists, EndStep DEF MutexDetach, MutexDelete, DetachObject, DeleteObject
<1>4. ASSUME MutexTake(c, m) \/ MutexAgain(c, m) PROVE KStep({})
  <2>1. "EOK" \in Errors
    BY DEF Errors
  <2> QED BY <1>4, <2>1, CallAnswers DEF MutexTake, MutexAgain
<1>5. ASSUME MutexTry(c, m) \/ MutexRefused(c, m) PROVE KStep({})
  <2>1. "ETIMEOUT" \in Errors /\ "ERROR" \in Errors
    BY DEF Errors
  <2> QED BY <1>5, <2>1, CallAnswers DEF MutexTry, MutexRefused
<1>6. ASSUME MutexLessOne(c, m) PROVE KStep({})
  BY <1>6, StillStep DEF MutexLessOne
<1> QED BY <1>2, <1>3, <1>4, <1>5, <1>6 DEF MutexStill

LEMMA MutexesStep ==
    ASSUME KInv, MutexesOK, api \in Apis, NEW c \in Threads, MutexStep(c)
    PROVE  KStep(Mutexes)
<1>1. ASSUME NEW S, S \subseteq Mutexes, KStep(S) PROVE KStep(Mutexes)
  BY <1>1, KStepMore
<1>2. \A m \in Mutexes : {m} \subseteq Mutexes /\ {} \subseteq Mutexes
  OBVIOUS
<1>3. ASSUME MutexReturn(c) PROVE KStep(Mutexes)
  BY <1>1, <1>2, <1>3, MutexReturnStep
<1>4. ASSUME NEW m \in Mutexes, MutexRelease(c, m) PROVE KStep(Mutexes)
  BY <1>1, <1>2, <1>4, MutexReleaseStep
<1>5. ASSUME NEW m \in Mutexes, NEW timed, MutexWait(c, m, timed) PROVE KStep(Mutexes)
  BY <1>1, <1>2, <1>5, MutexWaitStep
<1>6. ASSUME NEW m \in Mutexes, MutexStill(c, m) PROVE KStep(Mutexes)
  <2>1. KStep({})
    BY <1>6, MutexStillStep
  <2> QED BY <1>1, <2>1
<1> QED BY <1>3, <1>4, <1>5, <1>6 DEF MutexStep, MutexStill

\* The owners.
LEMMA MutexesOKStep ==
    ASSUME KInv, MutexesOK, NEW c \in Threads, MutexStep(c)
    PROVE  MutexesOK'
<1> USE DEF MutexesOK
<1>1. current_priority \in [Threads -> Prios] /\ NoThread \notin Threads
      /\ NoPriority \in Prios \cup {NoPriority}
  BY KernelAssumption DEF KInv, Regular, TcbOK
<1>2. ASSUME UNCHANGED <<free, owner, original_priority>> PROVE MutexesOK'
  BY <1>2 DEF NoPriority, Prios
<1>3. ASSUME MutexReturn(c) PROVE MutexesOK'
  BY <1>2, <1>3 DEF MutexReturn
<1>4. ASSUME NEW m \in Mutexes, MutexSetUp(m) PROVE MutexesOK'
  BY <1>1, <1>4 DEF MutexSetUp, NoPriority, Prios
<1>5. ASSUME NEW m \in Mutexes, MutexTake(c, m) PROVE MutexesOK'
  BY <1>1, <1>5 DEF MutexTake, NoPriority, Prios
<1>6. ASSUME NEW m \in Mutexes, MutexRelease(c, m) PROVE MutexesOK'
  <2>1. CASE suspend_thread[m] = <<>>
    BY <1>1, <1>6, <2>1 DEF MutexRelease, GivenUp, NoPriority, Prios
  <2>2. CASE suspend_thread[m] # <<>>
    <3> DEFINE h == Head(suspend_thread[m])
    <3>1. h \in Threads
      BY <2>2, MutexLists, LessByHead DEF KInv
    <3>2. /\ owner' = [owner EXCEPT ![m] = h] /\ UNCHANGED free /\ owner[m] = c
          /\ original_priority' = [original_priority EXCEPT ![m] = current_priority[h]]
      BY <1>6, <2>2 DEF MutexRelease, HandedOver, PriorityToKeep
    <3> HIDE DEF h
    <3> QED BY <1>1, <3>1, <3>2 DEF NoPriority, Prios
  <2> QED BY <2>1, <2>2
<1>7. ASSUME NEW m \in Mutexes,
             \/ MutexDetach(c, m) \/ MutexDelete(c, m) \/ MutexAgain(c, m) \/ MutexTry(c, m)
             \/ MutexRefused(c, m) \/ MutexLessOne(c, m) \/ \E timed : MutexWait(c, m, timed)
      PROVE  UNCHANGED <<free, owner, original_priority>>
  BY <1>7 DEF MutexDetach, MutexDelete, MutexAgain, MutexTry, MutexRefused, MutexLessOne,
              MutexWait, mvars
<1>8. ASSUME NEW m \in Mutexes, MutexInitialise(c, m) \/ MutexCreate(c, m) PROVE MutexesOK'
  BY <1>4, <1>8 DEF MutexInitialise, MutexCreate
<1> HIDE DEF MutexesOK
<1> QED BY <1>2, <1>3, <1>5, <1>6, <1>7, <1>8 DEF MutexStep

-----------------------------------------------------------------------------
(* All the objects together.                                               *)

\* The lists of the objects that give nothing to a thread before it looks again.
Elsewhere == Events \cup MailLists \cup Queues \cup Pools

LEMMA StepElsewhere ==
    ASSUME KStep(Events) \/ KStep(MailLists) \/ KStep(Queues) \/ KStep(Pools)
    PROVE  KStep(Elsewhere)
<1>1. Events \subseteq Elsewhere /\ MailLists \subseteq Elsewhere
      /\ Queues \subseteq Elsewhere /\ Pools \subseteq Elsewhere
  BY DEF Elsewhere
<1> QED BY <1>1, KStepMore

LEMMA ElsewhereIs == /\ Elsewhere \subseteq Lists /\ Elsewhere \cap Semaphores = {}
                     /\ Elsewhere \cap Mutexes = {}
<1>1. ASSUME NEW l \in Elsewhere PROVE l \in Lists /\ l \notin Semaphores \cup Mutexes
  <2>1. CASE l \in Events \cup Queues \cup Pools
    BY <2>1, EventLists, QueueLists, PoolLists, KindsAssumption
  <2>2. CASE l \in MailLists
    BY <2>2, MailboxLists, SemaphoreAssumption, MutexAssumption, KindsAssumption
       DEF MailLists
  <2> QED BY <2>1, <2>2 DEF Elsewhere
<1> QED BY <1>1

\* What holds in the runs of such an application.
SettledInv == KInv /\ MutexesOK /\ api \in Apis /\ Settled

LEMMA StartIsSettled ==
    ASSUME AllInit, Settled
    PROVE  SettledInv
<1> USE KernelAssumption
<1>1. Init /\ MutexInit
  BY DEF AllInit, IpcInit
<1>2. api \in Apis
  BY <1>1 DEF Init
<1>3. TcbOK
  BY <1>1 DEF Init, TcbOK, Stats, Errors
<1>4. ReadyQueueOK
  <2>1. \A p \in Prios : \A t \in Range(StartQueue[p]) : InitPrio[t] = p /\ t \in Threads
    BY ElementOfSeq, LenProperties DEF Range
  <2>2. \A p \in Prios : \A t \in Range(StartQueue[p]) :
           stat[t] = "READY" /\ current_priority[t] = p
    BY <1>1, <2>1 DEF Init
  <2>3. \A t \in Threads : stat[t] = "READY" => t \in Range(StartQueue[current_priority[t]])
    BY <1>1 DEF Init
  <2>4. \A p \in Prios : IsInjective(StartQueue[p])
    BY DEF IsInjective
  <2> QED BY <1>1, <2>2, <2>3, <2>4 DEF Init, ReadyQueueOK, QueueOK
<1>5. stat[Idle] = "READY" /\ \A t \in Threads : stat[t] \in {"NONE", "READY"}
  BY <1>1 DEF Init
<1>6. rt_current_thread \in Threads /\ stat[rt_current_thread] = "READY"
  BY <1>1, <1>3, <1>4, <1>5, QueueHighest DEF Init, ReadyQueueOK, TcbOK
<1>7. Regular
  BY <1>1, <1>3, <1>5, <1>6 DEF Init, Regular
<1>8. WaitersOK(suspend_thread, stat) /\ WaitersAreCalling /\ TimedAreSuspended
  <2>1. \A l \in Lists : suspend_thread[l] = <<>>
    BY <1>1 DEF Init
  <2>2. Range(<<>>) = {} /\ IsInjective(<<>>)
    BY DEF Range, IsInjective
  <2>3. suspend_thread \in [Lists -> Seq(Threads)]
    BY <1>1 DEF Init
  <2>4. armed = {}
    BY <1>1 DEF Init
  <2> QED BY <2>1, <2>2, <2>3, <2>4 DEF WaitersOK, WaitersAreCalling, TimedAreSuspended
<1>9. CallsOK
  <2>1. \A t \in Threads : pc[t] = <<>>
    BY <1>1 DEF Init
  <2>2. <<>> \in Seq(Ending)
    OBVIOUS
  <2> QED BY <1>5, <2>1, <2>2 DEF CallsOK, InCall
<1>10. MutexesOK
  BY <1>1 DEF MutexInit, MutexesOK, NoPriority, Prios
<1> QED BY <1>2, <1>4, <1>6, <1>7, <1>8, <1>9, <1>10 DEF SettledInv, KInv, HartIsReady

\* Every step of the application.
LEMMA StepIsSettled ==
    ASSUME SettledInv, [AllNext]_vars
    PROVE  SettledInv' /\ KStep(Lists)
<1>1. KInv /\ MutexesOK /\ api \in Apis /\ Settled
  BY DEF SettledInv
<1>2. ASSUME NEW S, S \subseteq Lists, KStep(S) PROVE KStep(Lists)
  BY <1>2, KStepMore
<1>3. {} \subseteq Lists /\ Semaphores \subseteq Lists /\ Mutexes \subseteq Lists
      /\ Elsewhere \subseteq Lists
  BY SemaphoreAssumption, MutexAssumption, IpcAssumption, ElsewhereIs
<1>4. ASSUME KStep({}) \/ KStep(Semaphores) \/ KStep(Mutexes) \/ KStep(Elsewhere)
      PROVE  KStep(Lists)
  BY <1>2, <1>3, <1>4
<1>5. ASSUME KStep(Lists), UNCHANGED api, UNCHANGED mvars \/ MutexesOK'
      PROVE  SettledInv' /\ KStep(Lists)
  <2>1. KInv' /\ api' \in Apis /\ Settled'
    BY <1>1, <1>5 DEF KStep, Settled
  <2>2. MutexesOK'
    BY <1>1, <1>5 DEF mvars, MutexesOK
  <2> QED BY <1>5, <2>1, <2>2 DEF SettledInv
<1>6. CASE UNCHANGED vars
  <2>1. KStep({})
    BY <1>1, <1>6, StillStep DEF vars
  <2> QED BY <1>4, <1>5, <1>6, <2>1 DEF vars
<1>7. CASE Next /\ UNCHANGED <<ipcvars, svars, mvars, evars, bvars, qvars, pvars>>
  <2>1. KStep({})
    BY <1>1, <1>7, KernelStep
  <2> QED BY <1>4, <1>5, <1>7, <2>1 DEF Next
<1>8. CASE /\ \E c \in Threads : IpcStep(c) \/ Woken(c)
           /\ UNCHANGED <<api, svars, mvars, evars, bvars, qvars, pvars>>
  <2>1. KStep({})
    BY <1>1, <1>8, ResumeAllTestStep, ObjectGoneStep, ResumeOneStep, WokenStep DEF IpcStep
  <2> QED BY <1>4, <1>5, <1>8, <2>1
<1>9. CASE SemNext /\ UNCHANGED <<api, mvars, evars, bvars, qvars, pvars>>
  BY <1>1, <1>4, <1>5, <1>9, SemaphoreStep
<1>10. CASE /\ \E c \in Threads : MutexStep(c)
            /\ UNCHANGED <<api, svars, evars, bvars, qvars, pvars>>
  <2>1. KStep(Mutexes) /\ MutexesOK'
    BY <1>1, <1>10, MutexesStep, MutexesOKStep
  <2> QED BY <1>4, <1>5, <1>10, <2>1
<1>11. CASE EventNext /\ UNCHANGED <<api, svars, mvars, bvars, qvars, pvars>>
  BY <1>1, <1>4, <1>5, <1>11, EventsStep, StepElsewhere
<1>12. CASE MailNext /\ UNCHANGED <<api, svars, mvars, evars, qvars, pvars>>
  BY <1>1, <1>4, <1>5, <1>12, MailboxesStep, StepElsewhere
<1>13. CASE QueueNext /\ UNCHANGED <<api, svars, mvars, evars, bvars, pvars>>
  BY <1>1, <1>4, <1>5, <1>13, QueuesStep, StepElsewhere
<1>14. CASE PoolNext /\ UNCHANGED <<api, svars, mvars, evars, bvars, qvars>>
  BY <1>1, <1>4, <1>5, <1>14, PoolsStep, StepElsewhere
<1> QED BY <1>6, <1>7, <1>8, <1>9, <1>10, <1>11, <1>12, <1>13, <1>14 DEF AllNext

-----------------------------------------------------------------------------
(* The order of the waiting threads.                                       *)

\* No owner of a mutex waits on a list in the order of the priorities: it would
\* stay where it is on the list when the mutex raises its priority.
OwnersDoNotWait ==
    \A m \in Mutexes, l \in Lists \ (Fifo \cup Newest) :
        owner[m] \notin Range(suspend_thread[l])

ListsInOrder ==
    \A l \in Lists \ (Fifo \cup Newest) : Ordered(suspend_thread[l], current_priority)

LEMMA OrderedUnder ==
    ASSUME NEW q, NEW pr, NEW pr2, Ordered(q, pr), \A t \in Range(q) : pr2[t] = pr[t]
    PROVE  Ordered(q, pr2)
BY DEF Ordered, Range

LEMMA OrderKept ==
    ASSUME KInv, ListStep, NEW l \in Lists \ (Fifo \cup Newest),
           Ordered(suspend_thread[l], current_priority),
           \A t \in Range(suspend_thread[l]) : current_priority'[t] = current_priority[t]
    PROVE  Ordered(suspend_thread'[l], current_priority')
<1>1. /\ WaitersOK(suspend_thread, stat) /\ current_priority \in [Threads -> Prios]
      /\ suspend_thread \in [Lists -> Seq(Threads)]
  BY DEF KInv, Regular, TcbOK, WaitersOK
<1>2. ASSUME NEW W, Less(suspend_thread', suspend_thread, W)
      PROVE  Ordered(suspend_thread'[l], current_priority')
  <2>1. Embeds(suspend_thread'[l], suspend_thread[l])
        /\ Range(suspend_thread'[l]) \subseteq Range(suspend_thread[l])
    BY <1>2 DEF Less
  <2>2. Ordered(suspend_thread'[l], current_priority)
    BY <2>1, OrderedPart
  <2> QED BY <2>1, <2>2, OrderedUnder
<1>3. ASSUME NEW c \in Threads, NEW k \in Lists, Enters(c, k),
             current_priority'[c] = current_priority[c]
      PROVE  Ordered(suspend_thread'[l], current_priority')
  <2>1. CASE k # l
    <3>1. suspend_thread'[l] = suspend_thread[l]
      BY <1>1, <1>3, <2>1 DEF Enters
    <3> QED BY <3>1, OrderedUnder
  <2>2. CASE k = l
    <3>1. suspend_thread'[l] = EnqueuedIn(suspend_thread[l], c, l \in Fifo)
      BY <1>1, <1>3, <2>2 DEF Enters, Enqueued
    <3>2. suspend_thread[l] \in Seq(Threads)
      BY <1>1
    <3>3. /\ Range(suspend_thread'[l]) = Range(suspend_thread[l]) \cup {c}
          /\ Ordered(suspend_thread'[l], current_priority)
      BY <1>1, <3>1, <3>2, EnqueuedInIs
    <3>4. \A t \in Range(suspend_thread'[l]) : current_priority'[t] = current_priority[t]
      BY <1>3, <3>3
    <3> QED BY <3>3, <3>4, OrderedUnder
  <2> QED BY <2>1, <2>2
<1> QED BY <1>2, <1>3 DEF ListStep

LEMMA OrderStep ==
    ASSUME SettledInv, OwnersDoNotWait, ListsInOrder, KStep(Lists)
    PROVE  ListsInOrder'
<1> SUFFICES ASSUME NEW l \in Lists \ (Fifo \cup Newest)
             PROVE  Ordered(suspend_thread'[l], current_priority')
  BY DEF ListsInOrder
<1>1. KInv /\ WaitersOK(suspend_thread, stat) /\ ListStep
  BY DEF SettledInv, KInv, KStep
<1>2. \A t \in Range(suspend_thread[l]) : current_priority'[t] = current_priority[t]
  <2> TAKE t \in Range(suspend_thread[l])
  <2>1. t \in Threads /\ stat[t] = "SUSPEND"
    BY <1>1, WaitersAreThreads DEF WaitersOK
  <2>2. t \notin Owners
    BY DEF OwnersDoNotWait, Owners
  <2> QED BY <2>1, <2>2 DEF KStep, PriorityStep
<1> QED BY <1>1, <1>2, OrderKept DEF ListsInOrder

\* The threads on the suspend lists are suspended, inside the call they wait in,
\* and on a list with RT_IPC_FLAG_PRIO in the order of their priorities, through
\* timeouts, resumption of one or of all, deletion and inheritance of priorities:
\* in applications whose threads neither end nor manage each other, and in which
\* no owner of a mutex waits on such a list.
THEOREM SuspendListsAreSoundHolds ==
    AllSpec /\ Settled /\ []OwnersDoNotWait => []SuspendListsAreSound
<1>1. AllInit /\ Settled => SettledInv /\ ListsInOrder
  <2> SUFFICES ASSUME AllInit, Settled PROVE SettledInv /\ ListsInOrder
    OBVIOUS
  <2>1. \A l \in Lists : suspend_thread[l] = <<>>
    BY DEF AllInit, IpcInit, Init
  <2> QED BY <2>1, StartIsSettled DEF ListsInOrder, Ordered
<1>2. SettledInv /\ OwnersDoNotWait /\ ListsInOrder /\ [AllNext]_vars
         => SettledInv' /\ ListsInOrder'
  BY StepIsSettled, OrderStep
<1>3. SettledInv /\ ListsInOrder => SuspendListsAreSound
  <2> SUFFICES ASSUME SettledInv, ListsInOrder PROVE SuspendListsAreSound
    OBVIOUS
  <2>1. WaitersInOrder
    BY DEF ListsInOrder, Ordered, WaitersInOrder
  <2>2. ASSUME NEW l \in Lists, NEW t \in Range(suspend_thread[l])
        PROVE  stat[t] = "SUSPEND" /\ pc[t] # <<>>
    <3>1. stat[t] = "SUSPEND"
      BY DEF SettledInv, KInv, WaitersOK
    <3>2. PICK w \in Waits(t) : pc[t] = <<w>> \/ pc[t] = <<Again(t), w>>
      BY DEF SettledInv, KInv, WaitersAreCalling, InWait
    <3>3. <<w>> # <<>> /\ <<Again(t), w>> # <<>>
      OBVIOUS
    <3> QED BY <3>1, <3>2, <3>3
  <2> QED BY <2>1, <2>2 DEF SuspendListsAreSound, WaitersWait
<1> QED BY <1>1, <1>2, <1>3, PTL DEF AllSpec

-----------------------------------------------------------------------------
(* What is given to the threads that wait for a semaphore or a mutex.      *)

\* A thread of the list of a semaphore or a mutex waits for it.
LEMMA WaitersAwait ==
    ASSUME KInv, NEW w \in Awaited, NEW t \in Range(suspend_thread[w[2]])
    PROVE  t \in Threads /\ Awaits(t, w) /\ error[t] = "EOK" /\ stat[t] = "SUSPEND"
<1>1. w[2] \in Lists /\ w[2] \in Semaphores \cup Mutexes
  BY AwaitedIs
<1>2. PICK v \in Waits(t) : InWait(t, v) /\ WaitsOn(v, w[2])
  BY <1>1 DEF KInv, WaitersAreCalling
<1>3. t \in Threads /\ error[t] = "EOK" /\ stat[t] = "SUSPEND"
  BY <1>1, WaitersAreThreads DEF KInv, WaitersOK, WaitersAreCalling
<1>4. w[2] \notin Events \cup Mailboxes \cup Queues \cup Pools
  BY <1>1, KindsAssumption
<1>5. ASSUME v[1] = "woken" PROVE FALSE
  <2>1. v[2] \in Loops /\ Looks(v[2], w[2])
    BY <1>2, <1>5 DEF Waits, WaitsOn
  <2>2. CASE v[2][1] = "mailsend" /\ SenderList[v[2][2]] = w[2]
    <3>1. v[2][2] \in Mailboxes
      BY <2>1, <2>2, LoopObject
    <3>2. w[2] \notin Objects
      BY <2>2, <3>1, MailboxLists
    <3> QED BY <1>1, <3>2, SemaphoreAssumption, MutexAssumption
  <2>3. CASE v[2][1] \in {"mailrecv", "msgrecv", "mpalloc"} /\ v[2][2] = w[2]
    BY <1>4, <2>1, <2>3, LoopObject
  <2> QED BY <2>1, <2>2, <2>3 DEF Looks
<1>6. v[1] \in {"taken", "locked", "received"} /\ v[2] = w[2]
  BY <1>2, <1>5 DEF WaitsOn
<1>7. \/ v[1] = "taken" /\ v[2] \in Semaphores /\ v = <<"taken", v[2]>>
      \/ v[1] = "locked" /\ v[2] \in Mutexes /\ v = <<"locked", v[2]>>
      \/ v[1] = "received" /\ v[2] \in Events
  BY <1>2, <1>6 DEF Waits
<1>8. v = w
  BY <1>4, <1>6, <1>7, AwaitedIs, KindsAssumption
<1>9. Awaits(t, v)
  BY <1>2 DEF InWait, Awaits
<1> QED BY <1>3, <1>8, <1>9

\* What is released is given to the first of the list, ...
LEMMA FirstReceives ==
    ASSUME KInv, NEW w \in Awaited, NEW P \in SUBSET Threads,
           Less(suspend_thread', suspend_thread, First(w[2])), UNCHANGED error,
           \A t \in Threads \ P : pc'[t] = pc[t],
           \A t \in P : stat[t] = "READY" /\ ~Awaits(t, w) /\ ~Awaits(t, w)'
    PROVE  /\ Receivers(w)' = Receivers(w) \cup First(w[2])
           /\ Receivers(w) \cap First(w[2]) = {}
<1> DEFINE l == w[2]
<1>1. l \in Lists
  BY AwaitedIs
<1>2. First(l) \subseteq Range(suspend_thread[l])
  <2>1. WaitersOK(suspend_thread, stat)
    BY DEF KInv
  <2>2. suspend_thread[l] # <<>> => Head(suspend_thread[l]) \in Range(suspend_thread[l])
    BY <1>1, <2>1, LessByHead
  <2> QED BY <2>2 DEF First
<1>3. Range(suspend_thread'[l]) = Range(suspend_thread[l]) \ First(l)
  BY <1>1 DEF Less
<1> HIDE DEF l
<1>4. ASSUME NEW t \in Threads
      PROVE /\ t \in Receivers(w) <=> Awaits(t, w) /\ error[t] = "EOK"
                  /\ t \notin Range(suspend_thread[l])
            /\ t \in Receivers(w)' <=>
                  Awaits(t, w)' /\ error[t] = "EOK" /\ t \notin Range(suspend_thread'[l])
  BY DEF Receivers, l
<1>5. \A t \in Threads : pc'[t] = pc[t] => (Awaits(t, w)' <=> Awaits(t, w))
  BY DEF Awaits
<1>6. ASSUME NEW t \in Range(suspend_thread[l])
      PROVE  t \in Threads /\ Awaits(t, w) /\ error[t] = "EOK" /\ stat[t] = "SUSPEND"
  BY WaitersAwait DEF l
<1>7. ASSUME NEW t \in Threads
      PROVE  t \in Receivers(w)' <=> t \in Receivers(w) \/ t \in First(l)
  <2>1. CASE t \in P
    BY <1>2, <1>4, <1>6, <2>1
  <2>2. CASE t \notin P
    BY <1>2, <1>3, <1>4, <1>5, <1>6, <2>2
  <2> QED BY <2>1, <2>2
<1>8. /\ First(l) \subseteq Threads /\ Receivers(w) \subseteq Threads
      /\ Receivers(w)' \subseteq Threads
  BY <1>2, <1>6 DEF Receivers
<1>9. Receivers(w) \cap First(l) = {}
  BY <1>2, <1>4, <1>8
<1> QED BY <1>7, <1>8, <1>9 DEF l

\* ... which has it when it returns from its call without an error.
LEMMA ReceiverReturns ==
    ASSUME KInv, NEW c \in Threads, NEW label \in {"taken", "locked"}, At(c, label),
           Return(c), UNCHANGED <<tcb, lists, rt_current_thread, rt_scheduler_lock_nest, isr>>,
           NEW w, w = Head(pc[c])
    PROVE  /\ w \in Awaited /\ w = <<label, Target(c)>>
           /\ c \in Receivers(w) <=> error[c] = "EOK"
           /\ Receivers(w)' = Receivers(w) \ {c}
<1>1. /\ stat[c] = "READY" /\ pc[c] = <<w>> /\ w \in Waits(c) /\ w[1] = label
  BY AtWait
<1>2. w \in Awaited /\ w = <<label, Target(c)>>
  BY <1>1 DEF Waits, Awaited, Target
<1>3. pc[c][1] = w /\ 1 \in DOMAIN pc[c]
  BY <1>1
<1>4. Awaits(c, w)
  BY <1>3 DEF Awaits
<1>5. c \notin Range(suspend_thread[w[2]])
  BY <1>1, <1>2, WaitersAwait
<1>6. Moves(c) /\ pc'[c] = <<>>
  <2>1. Proceed(c, <<>>) /\ <<>> \in Seq(Threads)
    BY DEF Return
  <2> QED BY <1>1, <2>1, AfterOne
<1>7. ~Awaits(c, w)'
  BY <1>6 DEF Awaits
<1>8. \A t \in Threads : pc'[t] = pc[t] => (Awaits(t, w)' <=> Awaits(t, w))
  BY DEF Awaits
<1>9. UNCHANGED <<error, suspend_thread>>
  BY DEF tcb, lists
<1>10. ASSUME NEW t \in Threads
       PROVE  /\ t \in Receivers(w) <=> Awaits(t, w) /\ error[t] = "EOK"
                    /\ t \notin Range(suspend_thread[w[2]])
              /\ t \in Receivers(w)' <=>
                  Awaits(t, w)' /\ error[t] = "EOK" /\ t \notin Range(suspend_thread[w[2]])
  BY <1>9 DEF Receivers
<1>11. Receivers(w) \subseteq Threads /\ Receivers(w)' \subseteq Threads
  BY DEF Receivers
<1>12. Receivers(w)' = Receivers(w) \ {c}
  BY <1>6, <1>7, <1>8, <1>10, <1>11 DEF Moves
<1> QED BY <1>2, <1>4, <1>5, <1>10, <1>12

-----------------------------------------------------------------------------
(* The owners of the mutexes.                                              *)

\* The threads that have been resumed to own m and have not returned with it.
Locking(m) == Receivers(<<"locked", m>>)

\* How often t has m, if it is one of them.
Due(m, t) == taken[m][t] + (IF t \in Locking(m) THEN 1 ELSE 0)

Owned(m) ==
    /\ m \in free => hold[m] = 0 /\ suspend_thread[m] = <<>>
    /\ m \notin free => hold[m] = Due(m, owner[m]) /\ hold[m] > 0
    /\ \A t \in Threads \ {owner[m]} : Due(m, t) = 0

CountsOK == hold \in [Mutexes -> Int] /\ taken \in [Mutexes -> [Threads -> Int]]

LEMMA LockingIs ==
    ASSUME NEW m, NEW w, w = <<"locked", m>>
    PROVE  Locking(m) = Receivers(w) /\ Locking(m)' = Receivers(w)' /\ w[2] = m
           /\ (m \in Mutexes => w \in Awaited)
BY DEF Locking, Awaited, Receivers

LEMMA LockingKept ==
    ASSUME NEW m \in Mutexes, NEW S, m \notin S, GrantStep(S)
    PROVE  Locking(m)' = Locking(m)
<1> DEFINE w == <<"locked", m>>
<1> HIDE DEF w
<1>1. w \in Awaited /\ w[2] = m /\ Locking(m) = Receivers(w) /\ Locking(m)' = Receivers(w)'
  BY LockingIs DEF w
<1> QED BY <1>1 DEF GrantStep

LEMMA NotLocking ==
    ASSUME NEW m \in Mutexes, NEW c \in Threads, AtWork(c)
    PROVE  c \notin Locking(m)
<1> DEFINE w == <<"locked", m>>
<1> HIDE DEF w
<1>1. w \in Awaited /\ Locking(m) = Receivers(w)
  BY LockingIs DEF w
<1> QED BY <1>1 DEF AtWork, Receivers

\* What is known of n stays as it is in a step on other objects.
Unmoved(n) == /\ n \in free' <=> n \in free
              /\ owner'[n] = owner[n] /\ hold'[n] = hold[n] /\ taken'[n] = taken[n]

LEMMA OwnedKept ==
    ASSUME NEW m, Owned(m), Unmoved(m), Locking(m)' = Locking(m),
           m \in free => suspend_thread'[m] = <<>>
    PROVE  Owned(m)'
BY DEF Owned, Unmoved, Due

LEMMA OwnedApart ==
    ASSUME NEW m \in Mutexes, NEW S, m \notin S, KStep(S), Owned(m), Unmoved(m)
    PROVE  Owned(m)'
<1>1. Locking(m)' = Locking(m)
  BY LockingKept DEF KStep
<1>2. m \in free => suspend_thread'[m] = <<>>
  BY MutexLists, StaysEmpty DEF Owned
<1> QED BY <1>1, <1>2, OwnedKept

\* A step on m leaves the other mutexes as they are.
Alone(m) == /\ \A n \in Mutexes \ {m} : Unmoved(n)
            /\ CountsOK'

LEMMA StepsAlone ==
    ASSUME MutexesOK, CountsOK, NEW c \in Threads, NEW m \in Mutexes,
           \/ MutexSetUp(m) \/ MutexTake(c, m) \/ MutexAgain(c, m) \/ MutexLessOne(c, m)
           \/ MutexRelease(c, m)
    PROVE  Alone(m)
<1> USE DEF MutexesOK, CountsOK, Alone, Unmoved, Counted
<1>1. CASE MutexSetUp(m)
  BY <1>1 DEF MutexSetUp
<1>2. CASE MutexTake(c, m)
  BY <1>2 DEF MutexTake
<1>3. CASE MutexAgain(c, m)
  BY <1>3 DEF MutexAgain
<1>4. CASE MutexLessOne(c, m)
  BY <1>4 DEF MutexLessOne
<1>5. CASE MutexRelease(c, m)
  <2>1. Counted(m, c, -1) /\ (HandedOver(c, m) \/ GivenUp(c, m))
    BY <1>5 DEF MutexRelease
  <2>2. CASE HandedOver(c, m)
    BY <2>1, <2>2 DEF HandedOver
  <2>3. CASE GivenUp(c, m)
    BY <2>1, <2>3 DEF GivenUp
  <2> QED BY <2>1, <2>2, <2>3
<1> QED BY <1>1, <1>2, <1>3, <1>4, <1>5

LEMMA SetUpOwned ==
    ASSUME KInv, MutexesOK, CountsOK, NEW c \in Threads, NEW m \in Mutexes,
           MakeObject(c, m), MutexSetUp(m)
    PROVE  Owned(m)'
<1>1. m \in Objects /\ ListsOf[m] = <<m>>
  BY MutexLists, KindsAssumption
<1>2. Range(ListsOf[m]) = {m}
  BY <1>1 DEF Range
<1>3. Deserted(m) /\ UNCHANGED kvars
  BY DEF MakeObject
<1>4. suspend_thread'[m] = <<>>
  BY <1>2, <1>3 DEF Deserted, kvars, lists
<1> DEFINE w == <<"locked", m>>
<1>5. \A t \in Threads : ~Awaits(t, w)
  <2> SUFFICES ASSUME NEW t \in Threads, NEW i \in DOMAIN pc[t], pc[t][i] = w PROVE FALSE
    BY DEF Awaits
  <2>1. pc[t][i][1] = "locked" /\ pc[t][i][2] = m
    OBVIOUS
  <2> QED BY <1>2, <1>3, <2>1 DEF Deserted
<1>6. Locking(m) = {} /\ Locking(m)' = Locking(m)
  <2>1. UNCHANGED <<pc, error, suspend_thread>>
    BY <1>3 DEF kvars, tcb, lists
  <2> QED BY <1>5, <2>1 DEF Locking, Receivers, Awaits
<1>7. /\ m \in free' /\ owner'[m] = NoThread /\ hold'[m] = 0
      /\ \A t \in Threads : taken'[m][t] = 0
  BY DEF MutexSetUp, MutexesOK, CountsOK
<1> QED BY <1>4, <1>6, <1>7 DEF Owned, Due

LEMMA TakeOwned ==
    ASSUME KInv, MutexesOK, CountsOK, api \in Apis, NEW c \in Threads, NEW m \in Mutexes,
           Owned(m), MutexTake(c, m) \/ MutexAgain(c, m)
    PROVE  Owned(m)'
<1>1. AtWork(c) /\ c \notin Locking(m)
  BY Calls, NotLocking DEF MutexTake, MutexAgain
<1>2. Locking(m)' = Locking(m)
  <2>1. KStep({})
    BY MutexStillStep DEF MutexStill
  <2> QED BY <2>1, LockingKept DEF KStep
<1>3. /\ \A t \in Threads \ {c} : taken'[m][t] = taken[m][t]
      /\ taken[m] \in [Threads -> Int] /\ hold[m] \in Int
      /\ taken'[m][c] = taken[m][c] + 1 /\ hold'[m] = hold[m] + 1
      /\ owner'[m] = c /\ m \notin free' /\ NoThread \notin Threads
  BY KernelAssumption DEF MutexTake, MutexAgain, Counted, CountsOK, MutexesOK
<1>4. CASE MutexTake(c, m)
  <2>1. m \in free /\ owner[m] = NoThread
    BY <1>4 DEF MutexTake, MutexesOK
  <2> QED BY <1>1, <1>2, <1>3, <2>1 DEF Owned, Due
<1>5. CASE MutexAgain(c, m)
  <2>1. m \notin free /\ owner[m] = c
    BY <1>3, <1>5 DEF MutexAgain, MutexesOK
  <2> QED BY <1>1, <1>2, <1>3, <2>1 DEF Owned, Due
<1> QED BY <1>4, <1>5

LEMMA LessOneOwned ==
    ASSUME KInv, MutexesOK, CountsOK, api \in Apis, NEW c \in Threads, NEW m \in Mutexes,
           Owned(m), MutexLessOne(c, m)
    PROVE  Owned(m)'
<1>2. Locking(m)' = Locking(m)
  <2>1. KStep({})
    BY MutexStillStep DEF MutexStill
  <2> QED BY <2>1, LockingKept DEF KStep
<1>3. /\ \A t \in Threads \ {c} : taken'[m][t] = taken[m][t]
      /\ taken[m] \in [Threads -> Int] /\ hold[m] \in Int /\ hold[m] > 1
      /\ taken'[m][c] = taken[m][c] - 1 /\ hold'[m] = hold[m] - 1
      /\ owner[m] = c /\ owner'[m] = c /\ m \notin free /\ m \notin free'
  BY KernelAssumption DEF MutexLessOne, Counted, CountsOK, MutexesOK
<1> QED BY <1>2, <1>3 DEF Owned, Due

LEMMA WaitOwned ==
    ASSUME KInv, MutexesOK, CountsOK, api \in Apis, NEW c \in Threads, NEW m \in Mutexes,
           Owned(m), NEW timed, MutexWait(c, m, timed)
    PROVE  Owned(m)'
<1>1. Locking(m)' = Locking(m)
  <2>1. GrantStep({}) /\ m \notin {}
    BY MutexWaitStep
  <2> QED BY <2>1, LockingKept
<1>2. m \notin free /\ UNCHANGED mvars
  BY DEF MutexWait
<1> QED BY <1>1, <1>2, OwnedKept DEF Unmoved, mvars

LEMMA ReleaseOwned ==
    ASSUME KInv, MutexesOK, CountsOK, api \in Apis, NEW c \in Threads, NEW m \in Mutexes,
           Owned(m), MutexRelease(c, m)
    PROVE  Owned(m)'
<1>1. /\ Call(c, "unlock") /\ Goto(c, AfterResume(c, m)) /\ UNCHANGED error
      /\ owner[m] = c /\ hold[m] = 1 /\ Counted(m, c, -1)
  BY DEF MutexRelease
<1>2. AtWork(c) /\ stat[c] = "READY" /\ c \notin Locking(m)
  BY <1>1, Calls, NotLocking
<1>3. Moves(c) /\ Goes(c)
  BY <1>1, <1>2, AfterResumeIs, GotoMoves, InCallNext
<1>4. First(m) \in SUBSET Threads /\ Less(suspend_thread', suspend_thread, First(m))
  BY <1>2, ReleaseResumes DEF Resumes
<1>5. Locking(m)' = Locking(m) \cup First(m) /\ Locking(m) \cap First(m) = {}
  <2> DEFINE w == <<"locked", m>>
             P == {c}
  <2>1. w \in Awaited /\ w[2] = m /\ Locking(m) = Receivers(w) /\ Locking(m)' = Receivers(w)'
    BY LockingIs
  <2> HIDE DEF w
  <2>2. \A t \in P : stat[t] = "READY" /\ ~Awaits(t, w) /\ ~Awaits(t, w)'
    BY <1>2, <1>3, <2>1 DEF AtWork, Goes
  <2>3. P \in SUBSET Threads /\ \A t \in Threads \ P : pc'[t] = pc[t]
    BY <1>3 DEF Moves
  <2> HIDE DEF P
  <2> QED BY <1>1, <1>4, <2>1, <2>2, <2>3, FirstReceives
<1>6. /\ \A t \in Threads \ {c} : taken'[m][t] = taken[m][t]
      /\ taken[m] \in [Threads -> Int]
      /\ taken'[m][c] = taken[m][c] - 1 /\ m \notin free /\ NoThread \notin Threads
  BY <1>1, KernelAssumption DEF Counted, CountsOK, MutexesOK
<1>7. taken[m][c] = 1 /\ \A t \in Threads \ {c} : Due(m, t) = 0
  BY <1>1, <1>2, <1>6 DEF Owned, Due
<1>8. CASE suspend_thread[m] = <<>>
  <2>1. First(m) = {} /\ GivenUp(c, m) /\ suspend_thread'[m] = <<>>
    BY <1>8 DEF First, MutexRelease
  <2>2. m \in free' /\ owner'[m] = NoThread /\ hold'[m] = 0
    BY <2>1 DEF GivenUp, MutexesOK, CountsOK
  <2> QED BY <1>2, <1>5, <1>6, <1>7, <2>1, <2>2 DEF Owned, Due
<1>9. CASE suspend_thread[m] # <<>>
  <2> DEFINE h == Head(suspend_thread[m])
  <2>1. First(m) = {h} /\ HandedOver(c, m)
    BY <1>9 DEF First, MutexRelease
  <2>2. h \in Threads /\ h # c
    <3>1. m \in Lists /\ WaitersOK(suspend_thread, stat)
      BY MutexLists DEF KInv
    <3>2. h \in Threads /\ stat[h] = "SUSPEND"
      BY <1>9, <3>1, LessByHead
    <3> QED BY <1>2, <3>2
  <2>3. m \notin free' /\ owner'[m] = h /\ hold'[m] = 1
    BY <1>1, <1>6, <2>1 DEF HandedOver, MutexesOK, CountsOK
  <2> HIDE DEF h
  <2> QED BY <1>2, <1>5, <1>6, <1>7, <2>1, <2>2, <2>3 DEF Owned, Due
<1> QED BY <1>8, <1>9

LEMMA ReturnOwned ==
    ASSUME KInv, MutexesOK, CountsOK, NEW c \in Threads, MutexReturn(c),
           \A m \in Mutexes : Owned(m)
    PROVE  CountsOK' /\ \A m \in Mutexes : Owned(m)'
<1>1. /\ At(c, "locked") /\ Return(c)
      /\ UNCHANGED <<tcb, lists, rt_current_thread, rt_scheduler_lock_nest, isr>>
      /\ UNCHANGED <<free, owner, hold, original_priority>>
  BY DEF MutexReturn
<1>0. Target(c) \in Mutexes /\ KStep({Target(c)})
  BY MutexReturnStep
<1>2. PICK m \in Mutexes : m = Target(c) /\ KStep({m})
  BY <1>0
<1>11. PICK w : w = Head(pc[c])
  OBVIOUS
<1>3. /\ w \in Awaited /\ w = <<"locked", m>>
      /\ (c \in Receivers(w) <=> error[c] = "EOK")
      /\ Receivers(w)' = Receivers(w) \ {c}
  BY <1>1, <1>2, <1>11, ReceiverReturns
<1>4. /\ (c \in Locking(m) <=> error[c] = "EOK")
      /\ Locking(m)' = Locking(m) \ {c}
  BY <1>3, LockingIs
<1>5. IF error[c] = "EOK" THEN Counted(m, c, 1) ELSE UNCHANGED taken
  BY <1>2 DEF MutexReturn
<1>6. CountsOK' /\ \A n \in Mutexes \ {m} : Unmoved(n)
  BY <1>1, <1>2, <1>5 DEF CountsOK, Unmoved, Counted
<1>7. suspend_thread'[m] = suspend_thread[m]
  BY <1>1 DEF lists
<1>8. \A t \in Threads : Due(m, t)' = Due(m, t)
  BY <1>2, <1>4, <1>5 DEF Due, Counted, CountsOK
<1>9. Owned(m)'
  <2>1. owner[m] \in Threads \cup {NoThread} /\ (m \in free <=> owner[m] = NoThread)
    BY <1>2 DEF MutexesOK
  <2>2. Owned(m)
    BY <1>2
  <2>3. m \notin free => Due(m, owner[m])' = Due(m, owner[m])
    BY <1>1, <1>8, <2>1
  <2> QED BY <1>1, <1>7, <1>8, <2>1, <2>2, <2>3 DEF Owned
<1>10. ASSUME NEW n \in Mutexes, n # m PROVE Owned(n)'
  <2>1. n \notin {m} /\ Owned(n) /\ Unmoved(n)
    BY <1>6, <1>10
  <2> QED BY <1>2, <2>1, OwnedApart
<1> QED BY <1>6, <1>9, <1>10

OwnersOK == CountsOK /\ \A m \in Mutexes : Owned(m)

\* A step on one mutex.
LEMMA OneOwned ==
    ASSUME OwnersOK, NEW m \in Mutexes, KStep({m}), Alone(m), Owned(m)'
    PROVE  OwnersOK'
<1>1. ASSUME NEW n \in Mutexes, n # m PROVE Owned(n)'
  <2>1. n \notin {m} /\ Owned(n) /\ Unmoved(n)
    BY <1>1 DEF OwnersOK, Alone
  <2> QED BY <2>1, OwnedApart
<1> QED BY <1>1 DEF OwnersOK, Alone

\* A step on none.
LEMMA NoneOwned ==
    ASSUME OwnersOK, NEW S, S \cap Mutexes = {}, KStep(S), UNCHANGED mvars
    PROVE  OwnersOK'
<1>1. ASSUME NEW n \in Mutexes PROVE Owned(n)'
  <2>1. n \notin S /\ Owned(n) /\ Unmoved(n)
    BY DEF OwnersOK, mvars, Unmoved
  <2> QED BY <2>1, OwnedApart
<1> QED BY <1>1 DEF OwnersOK, CountsOK, mvars

LEMMA MutexStillOwned ==
    ASSUME KInv, MutexesOK, OwnersOK, api \in Apis, NEW c \in Threads, NEW m \in Mutexes,
           MutexStill(c, m)
    PROVE  OwnersOK'
<1>1. KStep({}) /\ {} \cap Mutexes = {} /\ KStep({m})
  <2>1. KStep({}) /\ {} \subseteq {m}
    BY MutexStillStep
  <2> QED BY <2>1, KStepMore
<1>2. CountsOK /\ Owned(m)
  BY DEF OwnersOK
<1>3. CASE MutexInitialise(c, m) \/ MutexCreate(c, m)
  <2>1. MakeObject(c, m) /\ MutexSetUp(m)
    BY <1>3 DEF MutexInitialise, MutexCreate, InitObject, CreateObject
  <2> QED BY <1>1, <1>2, <2>1, StepsAlone, SetUpOwned, OneOwned
<1>4. CASE MutexTake(c, m) \/ MutexAgain(c, m)
  BY <1>1, <1>2, <1>4, StepsAlone, TakeOwned, OneOwned
<1>5. CASE MutexLessOne(c, m)
  BY <1>1, <1>2, <1>5, StepsAlone, LessOneOwned, OneOwned
<1>6. CASE MutexDetach(c, m) \/ MutexDelete(c, m) \/ MutexTry(c, m) \/ MutexRefused(c, m)
  <2>1. UNCHANGED mvars
    BY <1>6 DEF MutexDetach, MutexDelete, MutexTry, MutexRefused
  <2> QED BY <1>1, <2>1, NoneOwned
<1> QED BY <1>3, <1>4, <1>5, <1>6 DEF MutexStill

LEMMA OwnersStep ==
    ASSUME KInv, MutexesOK, OwnersOK, api \in Apis, NEW c \in Threads, MutexStep(c)
    PROVE  OwnersOK'
<1>1. CountsOK /\ \A m \in Mutexes : Owned(m)
  BY DEF OwnersOK
<1>2. CASE MutexReturn(c)
  BY <1>1, <1>2, ReturnOwned DEF OwnersOK
<1>3. ASSUME NEW m \in Mutexes, MutexRelease(c, m) PROVE OwnersOK'
  BY <1>1, <1>3, MutexReleaseStep, StepsAlone, ReleaseOwned, OneOwned
<1>4. ASSUME NEW m \in Mutexes, NEW timed, MutexWait(c, m, timed) PROVE OwnersOK'
  <2>1. KStep({m}) /\ Owned(m)'
    BY <1>1, <1>4, MutexWaitStep, WaitOwned
  <2>2. UNCHANGED mvars
    BY <1>4 DEF MutexWait
  <2>3. Alone(m)
    BY <1>1, <2>2 DEF Alone, Unmoved, CountsOK, mvars
  <2> QED BY <2>1, <2>3, OneOwned
<1>5. ASSUME NEW m \in Mutexes, MutexStill(c, m) PROVE OwnersOK'
  BY <1>5, MutexStillOwned
<1> QED BY <1>2, <1>3, <1>4, <1>5 DEF MutexStep, MutexStill

\* A step is one of the mutexes or on something else.
LEMMA MutexesApart ==
    ASSUME SettledInv, [AllNext]_vars
    PROVE  \/ \E c \in Threads : MutexStep(c)
           \/ UNCHANGED mvars /\ \E S : S \cap Mutexes = {} /\ KStep(S)
<1>1. KInv /\ MutexesOK /\ api \in Apis /\ Settled
  BY DEF SettledInv
<1>2. /\ {} \cap Mutexes = {} /\ Semaphores \cap Mutexes = {} /\ Elsewhere \cap Mutexes = {}
  BY KindsAssumption, ElsewhereIs
<1> DEFINE Apart == UNCHANGED mvars /\ \E S : S \cap Mutexes = {} /\ KStep(S)
<1>3. ASSUME KStep({}) \/ KStep(Semaphores) \/ KStep(Elsewhere), UNCHANGED mvars
      PROVE  Apart
  BY <1>2, <1>3
<1> HIDE DEF Apart
<1>4. ASSUME UNCHANGED vars PROVE Apart
  BY <1>1, <1>3, <1>4, StillStep DEF vars
<1>5. ASSUME Next, UNCHANGED <<ipcvars, svars, mvars, evars, bvars, qvars, pvars>>
      PROVE  Apart
  BY <1>1, <1>3, <1>5, KernelStep
<1>6. ASSUME \E c \in Threads : IpcStep(c) \/ Woken(c),
             UNCHANGED <<api, svars, mvars, evars, bvars, qvars, pvars>>
      PROVE  Apart
  <2>1. KStep({})
    BY <1>1, <1>6, ResumeAllTestStep, ObjectGoneStep, ResumeOneStep, WokenStep DEF IpcStep
  <2> QED BY <1>3, <1>6, <2>1
<1>7. ASSUME SemNext, UNCHANGED <<api, mvars, evars, bvars, qvars, pvars>>
      PROVE  Apart
  BY <1>1, <1>3, <1>7, SemaphoreStep
<1>8. ASSUME EventNext, UNCHANGED <<api, svars, mvars, bvars, qvars, pvars>>
      PROVE  Apart
  BY <1>1, <1>3, <1>8, EventsStep, StepElsewhere
<1>9. ASSUME MailNext, UNCHANGED <<api, svars, mvars, evars, qvars, pvars>>
      PROVE  Apart
  BY <1>1, <1>3, <1>9, MailboxesStep, StepElsewhere
<1>10. ASSUME QueueNext, UNCHANGED <<api, svars, mvars, evars, bvars, pvars>>
       PROVE  Apart
  BY <1>1, <1>3, <1>10, QueuesStep, StepElsewhere
<1>11. ASSUME PoolNext, UNCHANGED <<api, svars, mvars, evars, bvars, qvars>>
       PROVE  Apart
  BY <1>1, <1>3, <1>11, PoolsStep, StepElsewhere
<1> QED BY <1>4, <1>5, <1>6, <1>7, <1>8, <1>9, <1>10, <1>11 DEF AllNext, Apart

\* The steps on the other objects.
LEMMA OwnersKept ==
    ASSUME SettledInv, OwnersOK, [AllNext]_vars
    PROVE  OwnersOK'
<1>1. KInv /\ MutexesOK /\ api \in Apis
  BY DEF SettledInv
<1>2. CASE \E c \in Threads : MutexStep(c)
  BY <1>1, <1>2, OwnersStep
<1>3. ASSUME UNCHANGED mvars, NEW S, S \cap Mutexes = {}, KStep(S) PROVE OwnersOK'
  BY <1>3, NoneOwned
<1> QED BY <1>2, <1>3, MutexesApart

LEMMA OwnersAreSound ==
    ASSUME SettledInv, OwnersOK
    PROVE  MutexIsOwned
<1> SUFFICES ASSUME NEW m \in Mutexes
             PROVE  LET due(t) == taken[m][t] + (IF Receiving(t, m) THEN 1 ELSE 0)
                    IN /\ m \in free <=> owner[m] = NoThread
                       /\ m \in free => hold[m] = 0 /\ suspend_thread[m] = <<>>
                       /\ m \notin free => hold[m] = due(owner[m]) /\ hold[m] > 0
                       /\ \A t \in Threads \ {owner[m]} : due(t) = 0
  BY DEF MutexIsOwned
<1>1. \A t \in Threads : Receiving(t, m) <=> t \in Locking(m)
  BY DEF Receiving, Locking, Receivers, Awaits
<1>2. \A t \in Threads : Due(m, t) = taken[m][t] + (IF Receiving(t, m) THEN 1 ELSE 0)
  BY <1>1 DEF Due
<1>3. Owned(m) /\ owner[m] \in Threads \cup {NoThread} /\ (m \in free <=> owner[m] = NoThread)
  BY DEF SettledInv, OwnersOK, MutexesOK
<1> QED BY <1>2, <1>3 DEF Owned

LEMMA StartIsOwned ==
    ASSUME AllInit, Settled
    PROVE  SettledInv /\ OwnersOK
<1>1. MutexInit /\ Init
  BY DEF AllInit, IpcInit
<1>2. CountsOK
  BY <1>1 DEF MutexInit, CountsOK
<1>3. \A m \in Mutexes : m \in Lists /\ suspend_thread[m] = <<>>
  BY <1>1, MutexLists DEF Init
<1>4. ASSUME NEW m \in Mutexes PROVE Locking(m) = {}
  <2>1. \A t \in Threads : pc[t] = <<>>
    BY <1>1 DEF Init
  <2> QED BY <2>1 DEF Locking, Receivers, Awaits
<1>5. \A m \in Mutexes : Owned(m)
  BY <1>1, <1>3, <1>4 DEF Owned, Due, MutexInit
<1> QED BY <1>2, <1>5, StartIsSettled DEF OwnersOK

\* However takes, timeouts, releases and deletion interleave, the owner of a mutex
\* is the one thread whose takes succeeded, it has it as often as hold says, and a
\* free mutex has neither an owner nor waiters.
THEOREM MutexIsOwnedHolds == AllSpec /\ Settled => []MutexIsOwned
<1>1. AllInit /\ Settled => SettledInv /\ OwnersOK
  BY StartIsOwned
<1>2. SettledInv /\ OwnersOK /\ [AllNext]_vars => SettledInv' /\ OwnersOK'
  BY StepIsSettled, OwnersKept
<1>3. SettledInv /\ OwnersOK => MutexIsOwned
  BY OwnersAreSound
<1> QED BY <1>1, <1>2, <1>3, PTL DEF AllSpec

-----------------------------------------------------------------------------
(* The priorities of the owners.                                           *)

\* A thread has one mutex at a time, and does not wait for another while it has one;
\* all are in the order of priorities, and none is made anew, since the owner of one
\* that is deleted keeps the priority it was raised to.
OneAtATime ==
    \A m, n \in Mutexes : m # n /\ owner[m] \in Threads =>
        owner[m] # owner[n] /\ owner[m] \notin Range(suspend_thread[n])

Plain == /\ Mutexes \cap (Fifo \cup Newest) = {}
         /\ \A t \in Threads : "makeipc" \notin api[t]

\* Who owns no mutex has the priority it began with, ...
OthersPlain == \A t \in Threads : (\A m \in Mutexes : owner[m] # t) =>
                                      current_priority[t] = InitPrio[t]

\* ... to which the owner comes back, who does not wait for its mutex and has
\* the priority of the first waiter at least.
Inherited(m) ==
    /\ owner[m] \in Threads => original_priority[m] = InitPrio[owner[m]]
    /\ Ordered(suspend_thread[m], current_priority)
    /\ \A t \in Range(suspend_thread[m]) :
          t # owner[m] /\ current_priority[owner[m]] <= current_priority[t]

InheritOK == OthersPlain /\ \A m \in Mutexes : Inherited(m)

\* A step on something else.
LEMMA InheritedKept ==
    ASSUME KInv, NEW S, KStep(S), UNCHANGED current_priority,
           NEW m \in Mutexes \ (S \cup Fifo \cup Newest), Inherited(m),
           owner'[m] = owner[m], original_priority'[m] = original_priority[m]
    PROVE  Inherited(m)'
<1>1. m \in Lists /\ ListStep
  BY MutexLists DEF KStep
<1>2. Ordered(suspend_thread'[m], current_priority')
  BY <1>1, OrderKept DEF Inherited
<1>3. Range(suspend_thread'[m]) \subseteq Range(suspend_thread[m])
  BY <1>1 DEF KStep, JoinStep
<1> QED BY <1>2, <1>3 DEF Inherited

LEMMA InheritApart ==
    ASSUME KInv, InheritOK, Plain, NEW S, S \cap Mutexes = {}, KStep(S),
           UNCHANGED <<owner, original_priority>>
    PROVE  InheritOK'
<1>1. UNCHANGED current_priority
  BY DEF KStep, PriorityStep
<1>2. ASSUME NEW m \in Mutexes PROVE Inherited(m)'
  BY <1>1, InheritedKept DEF InheritOK, Plain
<1> QED BY <1>1, <1>2 DEF InheritOK, OthersPlain

\* A free mutex is taken.
LEMMA TakeInherits ==
    ASSUME KInv, MutexesOK, OwnersOK, api \in Apis, InheritOK, Plain, OneAtATime',
           NEW c \in Threads, NEW m \in Mutexes, MutexTake(c, m)
    PROVE  InheritOK'
<1>1. KStep({}) /\ UNCHANGED current_priority
  BY MutexStillStep DEF MutexStill, MutexTake
<1>2. /\ m \in free /\ owner'[m] = c /\ original_priority'[m] = current_priority[c]
      /\ \A n \in Mutexes \ {m} : owner'[n] = owner[n]
                                  /\ original_priority'[n] = original_priority[n]
  BY DEF MutexTake, MutexesOK
<1>3. \A n \in Mutexes : owner[n] # c
  <2> SUFFICES ASSUME NEW n \in Mutexes, owner[n] = c PROVE FALSE
    OBVIOUS
  <2>1. n # m
    BY <1>2, KernelAssumption DEF MutexesOK
  <2>2. owner'[n] = c
    BY <1>2, <2>1
  <2> QED BY <1>2, <2>1, <2>2 DEF OneAtATime
<1>4. suspend_thread'[m] = <<>>
  BY <1>1, <1>2, StaysEmpty, MutexLists DEF OwnersOK, Owned
<1>5. Inherited(m)'
  <2>1. current_priority[c] = InitPrio[c]
    BY <1>3 DEF InheritOK, OthersPlain
  <2>2. Range(<<>>) = {}
    BY EmptySeq DEF Range
  <2> QED BY <1>2, <1>4, <2>1, <2>2 DEF Inherited, Ordered
<1>6. ASSUME NEW n \in Mutexes, n # m PROVE Inherited(n)'
  BY <1>1, <1>2, <1>6, InheritedKept DEF InheritOK, Plain
<1>7. OthersPlain'
  <2> SUFFICES ASSUME NEW t \in Threads, \A n \in Mutexes : owner'[n] # t
               PROVE  current_priority[t] = InitPrio[t]
    BY <1>1 DEF OthersPlain
  <2>1. \A n \in Mutexes : owner[n] # t
    <3> SUFFICES ASSUME NEW n \in Mutexes PROVE owner[n] # t
      OBVIOUS
    <3>1. CASE n = m
      BY <1>2, <3>1, KernelAssumption DEF MutexesOK
    <3> QED BY <1>2, <3>1
  <2> QED BY <2>1 DEF InheritOK, OthersPlain
<1> QED BY <1>5, <1>6, <1>7 DEF InheritOK

\* A thread begins to wait, and raises the owner.
LEMMA WaitInherits ==
    ASSUME KInv, MutexesOK, OwnersOK, api \in Apis, InheritOK, Plain, OneAtATime,
           NEW c \in Threads, NEW m \in Mutexes, NEW timed, MutexWait(c, m, timed)
    PROVE  InheritOK'
<1> DEFINE o == owner[m]
<1>1. KInv' /\ ListStep
  BY MutexWaitStep DEF KStep
<1>2. /\ m \notin free /\ o # c /\ UNCHANGED <<owner, original_priority>>
      /\ current_priority' = IF Raises(c, m)
                             THEN [current_priority EXCEPT ![o] = current_priority[c]]
                             ELSE current_priority
  BY DEF MutexWait, mvars
<1>3. suspend_thread' = [suspend_thread EXCEPT ![m] = Enqueued(m, c)]
  BY DEF MutexWait, Wait, WaitOn, Suspended
<1>4. /\ o \in Threads /\ current_priority \in [Threads -> Prios]
      /\ \A n \in Mutexes : suspend_thread[n] \in Seq(Threads) /\ n \in Lists
      /\ suspend_thread \in [Lists -> Seq(Threads)]
  BY <1>2, MutexLists DEF MutexesOK, KInv, Regular, TcbOK, WaitersOK
<1>5. \A n \in Mutexes : o \notin Range(suspend_thread[n])
  BY <1>4 DEF OneAtATime, InheritOK, Inherited
<1>6. \A t \in Threads \ {o} : current_priority'[t] = current_priority[t]
  BY <1>2, <1>4
<1>7. \A n \in Mutexes : \A t \in Range(suspend_thread[n]) :
         t \in Threads /\ t # o /\ current_priority'[t] = current_priority[t]
  BY <1>4, <1>5, <1>6 DEF Range
<1>8. ASSUME NEW n \in Mutexes PROVE Ordered(suspend_thread'[n], current_priority')
  BY <1>1, <1>4, <1>7, OrderKept DEF InheritOK, Inherited, Plain
<1>9. Range(suspend_thread'[m]) = Range(suspend_thread[m]) \cup {c}
  <2>1. Enqueued(m, c) = EnqueuedIn(suspend_thread[m], c, m \in Fifo)
    BY DEF Plain, Enqueued
  <2>2. suspend_thread'[m] = Enqueued(m, c)
    BY <1>3, <1>4
  <2> QED BY <1>4, <2>1, <2>2, EnqueuedInIs
<1>10. /\ current_priority'[o] <= current_priority[o]
       /\ current_priority'[o] <= current_priority[c]
       /\ Prios \subseteq Nat
  BY <1>2, <1>4 DEF Raises, Prios
<1>11. Inherited(m)'
  <2> SUFFICES ASSUME NEW t \in Range(suspend_thread'[m])
               PROVE  t # o /\ current_priority'[o] <= current_priority'[t]
    BY <1>2, <1>8 DEF InheritOK, Inherited
  <2>1. CASE t = c
    BY <1>2, <1>6, <1>10, <2>1
  <2>2. CASE t \in Range(suspend_thread[m])
    <3>1. current_priority[o] <= current_priority[t] /\ current_priority[t] \in Nat
          /\ current_priority[o] \in Nat /\ current_priority'[o] \in Nat
      BY <1>2, <1>4, <1>7, <1>10, <2>2 DEF InheritOK, Inherited
    <3>2. current_priority'[t] = current_priority[t] /\ t # o
      BY <1>7, <2>2
    <3> HIDE DEF o
    <3> QED BY <1>10, <3>1, <3>2
  <2> QED BY <1>9, <2>1, <2>2
<1>12. ASSUME NEW n \in Mutexes, n # m PROVE Inherited(n)'
  <2>1. suspend_thread'[n] = suspend_thread[n] /\ Inherited(n)
    BY <1>3, <1>4, <1>12 DEF InheritOK
  <2>2. CASE owner[n] \in Threads
    <3>1. owner[n] # o
      BY <1>12, <2>2 DEF OneAtATime
    <3>2. current_priority'[owner[n]] = current_priority[owner[n]]
      BY <1>6, <2>2, <3>1
    <3> QED BY <1>2, <1>7, <1>8, <2>1, <3>2 DEF Inherited
  <2>3. CASE owner[n] \notin Threads
    <3>1. n \in free
      BY <2>3 DEF MutexesOK
    <3>2. suspend_thread[n] = <<>>
      BY <3>1 DEF OwnersOK, Owned
    <3>3. Range(<<>>) = {}
      BY EmptySeq DEF Range
    <3> QED BY <1>2, <1>8, <2>1, <2>3, <3>2, <3>3 DEF Inherited
  <2> QED BY <2>2, <2>3
<1>13. OthersPlain'
  BY <1>2, <1>6 DEF InheritOK, OthersPlain
<1> QED BY <1>11, <1>12, <1>13 DEF InheritOK

\* The owner is as it was before, and the first waiter has the mutex.
LEMMA ReleaseInherits ==
    ASSUME KInv, MutexesOK, OwnersOK, api \in Apis, InheritOK, Plain, OneAtATime,
           NEW c \in Threads, NEW m \in Mutexes, MutexRelease(c, m)
    PROVE  InheritOK'
<1> DEFINE h == Head(suspend_thread[m])
<1>1. KStep({m}) /\ ListStep
  BY MutexReleaseStep DEF KStep
<1>2. /\ owner[m] = c /\ Call(c, "unlock")
      /\ current_priority' = [current_priority EXCEPT ![c] = original_priority[m]]
      /\ IF suspend_thread[m] # <<>> THEN HandedOver(c, m) ELSE GivenUp(c, m)
  BY DEF MutexRelease
<1>3. /\ stat[c] = "READY" /\ WaitersOK(suspend_thread, stat)
      /\ current_priority \in [Threads -> Prios] /\ Prios \subseteq Nat
      /\ \A n \in Mutexes : n \in Lists
  BY <1>2, Calls, MutexLists DEF KInv, Regular, TcbOK, Prios
<1>4. Less(suspend_thread', suspend_thread, First(m))
  BY <1>3, ReleaseResumes DEF Resumes
<1>5. /\ current_priority'[c] = InitPrio[c]
      /\ \A t \in Threads \ {c} : current_priority'[t] = current_priority[t]
  BY <1>2, <1>3 DEF InheritOK, Inherited
<1>6. \A n \in Mutexes : \A t \in Range(suspend_thread[n]) :
         t \in Threads /\ t # c /\ current_priority'[t] = current_priority[t]
  BY <1>3, <1>5, WaitersAreThreads DEF WaitersOK
<1>7. \A n \in Mutexes : Range(suspend_thread'[n]) = Range(suspend_thread[n]) \ First(m)
  BY <1>3, <1>4 DEF Less
<1>8. ASSUME NEW n \in Mutexes PROVE Ordered(suspend_thread'[n], current_priority')
  BY <1>1, <1>3, <1>6, OrderKept DEF InheritOK, Inherited, Plain
<1>9. ASSUME NEW n \in Mutexes, n # m
      PROVE  owner'[n] = owner[n] /\ original_priority'[n] = original_priority[n]
  BY <1>2, <1>9 DEF HandedOver, GivenUp, MutexesOK
<1>10. owner[m] \in Threads /\ \A n \in Mutexes \ {m} : owner[n] # c
  BY <1>2 DEF OneAtATime
<1>11. ASSUME NEW n \in Mutexes, n # m PROVE Inherited(n)'
  <2>1. Inherited(n) /\ owner[n] # c
    BY <1>10, <1>11 DEF InheritOK
  <2>2. ASSUME NEW t \in Range(suspend_thread[n])
        PROVE  owner[n] \in Threads
    <3>1. n \notin free
      <4>1. Range(<<>>) = {}
        BY EmptySeq DEF Range
      <4> QED BY <2>2, <4>1 DEF OwnersOK, Owned
    <3> QED BY <3>1 DEF MutexesOK
  <2> QED BY <1>5, <1>6, <1>7, <1>8, <1>9, <1>11, <2>1, <2>2 DEF Inherited
<1>12. CASE suspend_thread[m] = <<>>
  <2>1. owner'[m] = NoThread /\ NoThread \notin Threads
    BY <1>2, <1>12, KernelAssumption DEF GivenUp, MutexesOK
  <2>2. Range(suspend_thread'[m]) = {}
    <3>1. Range(<<>>) = {}
      BY EmptySeq DEF Range
    <3> QED BY <1>7, <1>12, <3>1
  <2>3. Inherited(m)'
    BY <1>8, <2>1, <2>2 DEF Inherited
  <2>4. OthersPlain'
    <3> SUFFICES ASSUME NEW t \in Threads, \A n \in Mutexes : owner'[n] # t
                 PROVE  current_priority'[t] = InitPrio[t]
      BY DEF OthersPlain
    <3>1. CASE t # c
      <4>1. \A n \in Mutexes : owner[n] # t
        BY <1>2, <1>9, <3>1
      <4> QED BY <1>5, <3>1, <4>1 DEF InheritOK, OthersPlain
    <3> QED BY <1>5, <3>1
  <2> QED BY <1>11, <2>3, <2>4 DEF InheritOK
<1>13. CASE suspend_thread[m] # <<>>
  <2>1. owner'[m] = h /\ original_priority'[m] = current_priority[h]
    BY <1>2, <1>13 DEF HandedOver, MutexesOK, PriorityToKeep
  <2>2. /\ First(m) = {h} /\ h \in Range(suspend_thread[m]) /\ h = suspend_thread[m][1]
        /\ 1 \in DOMAIN suspend_thread[m] /\ suspend_thread[m] \in Seq(Threads)
    <3>1. suspend_thread[m] \in Seq(Threads)
      BY <1>3 DEF WaitersOK
    <3>2. 1 \in DOMAIN suspend_thread[m] /\ h = suspend_thread[m][1]
      BY <1>13, <3>1, LenProperties, EmptySeq
    <3> QED BY <1>13, <3>1, <3>2 DEF First, Range
  <2>3. h \in Threads /\ h # c /\ current_priority'[h] = current_priority[h]
    BY <1>6, <2>2
  <2>4. current_priority[h] = InitPrio[h]
    <3>1. \A n \in Mutexes : owner[n] # h
      BY <2>2, <2>3 DEF OneAtATime, InheritOK, Inherited
    <3> QED BY <2>3, <3>1 DEF InheritOK, OthersPlain
  <2>5. ASSUME NEW t \in Range(suspend_thread'[m])
        PROVE  t # h /\ current_priority'[h] <= current_priority'[t]
    <3>1. t \in Range(suspend_thread[m]) /\ t # h
      BY <1>7, <2>2
    <3>2. PICK i \in DOMAIN suspend_thread[m] : t = suspend_thread[m][i]
      BY <3>1 DEF Range
    <3>3. i # 1 /\ i \in Nat \ {0}
      BY <2>2, <3>1, <3>2, LenProperties
    <3>4. current_priority[h] <= current_priority[t]
      BY <2>2, <3>2, <3>3 DEF InheritOK, Inherited, Ordered
    <3> QED BY <1>6, <2>3, <3>1, <3>4
  <2> HIDE DEF h
  <2>6. Inherited(m)'
    BY <1>8, <2>1, <2>4, <2>5 DEF Inherited
  <2>7. OthersPlain'
    <3> SUFFICES ASSUME NEW t \in Threads, \A n \in Mutexes : owner'[n] # t
                 PROVE  current_priority'[t] = InitPrio[t]
      BY DEF OthersPlain
    <3>1. CASE t # c
      <4>1. \A n \in Mutexes : owner[n] # t
        BY <1>2, <1>9, <3>1
      <4> QED BY <1>5, <3>1, <4>1 DEF InheritOK, OthersPlain
    <3> QED BY <1>5, <3>1
  <2> QED BY <1>11, <2>6, <2>7 DEF InheritOK
<1> QED BY <1>12, <1>13

LEMMA MutexInherits ==
    ASSUME KInv, MutexesOK, OwnersOK, api \in Apis, InheritOK, Plain,
           OneAtATime, OneAtATime', NEW c \in Threads, MutexStep(c)
    PROVE  InheritOK'
<1>1. CASE MutexReturn(c)
  <2>1. UNCHANGED <<current_priority, suspend_thread, owner, original_priority>>
    BY <1>1 DEF MutexReturn, tcb, lists
  <2> QED BY <2>1 DEF InheritOK, OthersPlain, Inherited
<1>2. ASSUME NEW m \in Mutexes, MutexStill(c, m), ~MutexTake(c, m) PROVE InheritOK'
  <2>1. KStep({}) /\ {} \cap Mutexes = {}
    BY <1>2, MutexStillStep
  <2>2. ~MutexInitialise(c, m) /\ ~MutexCreate(c, m)
    BY DEF MutexInitialise, MutexCreate, InitObject, CreateObject, MakeObject, Call, Plain
  <2>3. UNCHANGED <<owner, original_priority>>
    BY <1>2, <2>2 DEF MutexStill, MutexDetach, MutexDelete, MutexAgain, MutexTry,
                      MutexRefused, MutexLessOne, mvars
  <2> QED BY <2>1, <2>3, InheritApart
<1> QED BY <1>1, <1>2, TakeInherits, WaitInherits, ReleaseInherits DEF MutexStep, MutexStill

LEMMA InheritKept ==
    ASSUME SettledInv, OwnersOK, InheritOK, Plain, OneAtATime, OneAtATime', [AllNext]_vars
    PROVE  InheritOK'
<1>1. KInv /\ MutexesOK /\ api \in Apis
  BY DEF SettledInv
<1>2. CASE \E c \in Threads : MutexStep(c)
  BY <1>1, <1>2, MutexInherits
<1>3. ASSUME UNCHANGED mvars, NEW S, S \cap Mutexes = {}, KStep(S) PROVE InheritOK'
  BY <1>1, <1>3, InheritApart DEF mvars
<1> QED BY <1>2, <1>3, MutexesApart

\* No thread waits for an owner of a lower priority than its own, and who owns no
\* mutex has its own priority: in applications that keep to one mutex at a time,
\* with RT_IPC_FLAG_PRIO, and make none anew.
THEOREM OwnerInheritsHolds ==
    AllSpec /\ Settled /\ Plain /\ []OneAtATime => []OwnerInherits
<1>1. AllInit /\ Settled => SettledInv /\ OwnersOK /\ InheritOK
  <2> SUFFICES ASSUME AllInit, Settled PROVE InheritOK
    BY StartIsOwned
  <2>1. MutexInit /\ Init
    BY DEF AllInit, IpcInit
  <2>2. \A m \in Mutexes : m \in Lists /\ suspend_thread[m] = <<>> /\ owner[m] = NoThread
    BY <2>1, MutexLists DEF Init, MutexInit
  <2>3. \A t \in Threads : current_priority[t] = InitPrio[t]
    BY <2>1 DEF Init
  <2>4. Range(<<>>) = {} /\ NoThread \notin Threads
    BY EmptySeq, KernelAssumption DEF Range
  <2> QED BY <2>2, <2>3, <2>4 DEF InheritOK, OthersPlain, Inherited, Ordered
<1>2. SettledInv /\ OwnersOK /\ InheritOK /\ Plain /\ OneAtATime /\ OneAtATime'
         /\ [AllNext]_vars
         => SettledInv' /\ OwnersOK' /\ InheritOK' /\ Plain'
  <2>1. Plain /\ [AllNext]_vars => Plain'
    BY DEF AllNext, vars, Next, Plain
  <2> QED BY <2>1, StepIsSettled, OwnersKept, InheritKept
<1>3. InheritOK => OwnerInherits
  BY DEF InheritOK, OthersPlain, Inherited, OwnerInherits
<1> QED BY <1>1, <1>2, <1>3, PTL DEF AllSpec

-----------------------------------------------------------------------------
(* The tokens of the semaphores.                                           *)

\* No value wraps around.
NoWrap == MaxSupply < ValueMod /\ \A s \in Semaphores : InitValue[s] <= MaxSupply

\* The tokens that the threads have by the counts of f, one by one.
HeldBy(f) == UNION {{t} \X (1..f[t]) : t \in Threads}

LEMMA HeldMore ==
    ASSUME NEW f \in [Threads -> Nat], NEW c \in Threads, IsFiniteSet(HeldBy(f))
    PROVE  LET g == [f EXCEPT ![c] = @ + 1]
           IN /\ IsFiniteSet(HeldBy(g))
              /\ Cardinality(HeldBy(g)) = Cardinality(HeldBy(f)) + 1
<1> DEFINE g == [f EXCEPT ![c] = @ + 1]
           x == <<c, f[c] + 1>>
<1>1. HeldBy(g) = HeldBy(f) \cup {x} /\ x \notin HeldBy(f)
  <2>1. ASSUME NEW p
        PROVE  p \in HeldBy(g) <=> p \in HeldBy(f) \/ p = x
    <3>1. p \in HeldBy(f) <=> \E t \in Threads : \E i \in 1..f[t] : p = <<t, i>>
      BY DEF HeldBy
    <3>2. p \in HeldBy(g) <=> \E t \in Threads : \E i \in 1..g[t] : p = <<t, i>>
      BY DEF HeldBy
    <3>3. g[c] = f[c] + 1 /\ \A t \in Threads : t # c => g[t] = f[t]
      OBVIOUS
    <3>4. \A t \in Threads : f[t] \in Nat /\ g[t] \in Nat
      OBVIOUS
    <3> HIDE DEF g
    <3>5. \A i : i \in 1..g[c] <=> i \in 1..f[c] \/ i = f[c] + 1
      BY <3>3, <3>4
    <3> QED BY <3>1, <3>2, <3>3, <3>5
  <2>2. x \notin HeldBy(f)
    BY DEF HeldBy
  <2> QED BY <2>1, <2>2
<1> HIDE DEF g, x
<1>2. /\ IsFiniteSet(HeldBy(f) \cup {x})
      /\ Cardinality(HeldBy(f) \cup {x}) = Cardinality(HeldBy(f)) + 1
  BY <1>1, FS_AddElement
<1> QED BY <1>1, <1>2 DEF g

LEMMA HeldFewer ==
    ASSUME NEW f \in [Threads -> Nat], NEW c \in Threads, IsFiniteSet(HeldBy(f)), f[c] > 0
    PROVE  LET g == [f EXCEPT ![c] = @ - 1]
           IN /\ IsFiniteSet(HeldBy(g)) /\ Cardinality(HeldBy(f)) > 0
              /\ Cardinality(HeldBy(g)) = Cardinality(HeldBy(f)) - 1
<1> DEFINE g == [f EXCEPT ![c] = @ - 1]
           x == <<c, f[c]>>
<1>1. HeldBy(g) = HeldBy(f) \ {x} /\ x \in HeldBy(f)
  <2>1. ASSUME NEW p
        PROVE  p \in HeldBy(g) <=> p \in HeldBy(f) /\ p # x
    <3>1. p \in HeldBy(f) <=> \E t \in Threads : \E i \in 1..f[t] : p = <<t, i>>
      BY DEF HeldBy
    <3>2. p \in HeldBy(g) <=> \E t \in Threads : \E i \in 1..g[t] : p = <<t, i>>
      BY DEF HeldBy
    <3>3. g[c] = f[c] - 1 /\ \A t \in Threads : t # c => g[t] = f[t]
      OBVIOUS
    <3>4. \A t \in Threads : f[t] \in Nat /\ g[t] \in Int
      OBVIOUS
    <3> HIDE DEF g
    <3>5. \A i : i \in 1..g[c] <=> i \in 1..f[c] /\ i # f[c]
      BY <3>3, <3>4
    <3> QED BY <3>1, <3>2, <3>3, <3>5
  <2>2. x \in HeldBy(f)
    <3>1. f[c] \in 1..f[c]
      OBVIOUS
    <3> QED BY <3>1 DEF HeldBy
  <2> QED BY <2>1, <2>2
<1> HIDE DEF g, x
<1>2. Cardinality(HeldBy(f)) \in Nat /\ HeldBy(f) # {}
  BY <1>1, FS_CardinalityType
<1>3. Cardinality(HeldBy(f)) > 0
  BY <1>2, FS_EmptySet
<1> QED BY <1>1, <1>3, FS_RemoveElement DEF g

LEMMA HeldNone ==
    ASSUME NEW f, \A t \in Threads : f[t] = 0
    PROVE  IsFiniteSet(HeldBy(f)) /\ Cardinality(HeldBy(f)) = 0
<1>1. HeldBy(f) = {}
  BY DEF HeldBy
<1> QED BY <1>1, FS_EmptySet

Conserved(s) ==
    /\ IsFiniteSet(Granted(s)) /\ IsFiniteSet(HeldBy(tokens[s]))
    /\ supply[s] = value[s] + Cardinality(Granted(s)) + Cardinality(HeldBy(tokens[s]))
    /\ supply[s] <= MaxSupply

CountedOK == /\ value \in [Semaphores -> Nat] /\ supply \in [Semaphores -> Nat]
             /\ tokens \in [Semaphores -> [Threads -> Nat]]

TokensOK == CountedOK /\ \A s \in Semaphores : Conserved(s)

LEMMA GrantedIs ==
    ASSUME NEW s, NEW w, w = <<"taken", s>>
    PROVE  Granted(s) = Receivers(w) /\ Granted(s)' = Receivers(w)' /\ w[2] = s
           /\ (s \in Semaphores => w \in Awaited)
BY DEF Granted, Taking, Awaited, Receivers, Awaits

LEMMA GrantedKept ==
    ASSUME NEW s \in Semaphores, NEW S, s \notin S, GrantStep(S)
    PROVE  Granted(s)' = Granted(s)
<1> DEFINE w == <<"taken", s>>
<1> HIDE DEF w
<1>1. w \in Awaited /\ w[2] = s /\ Granted(s) = Receivers(w) /\ Granted(s)' = Receivers(w)'
  BY GrantedIs DEF w
<1> QED BY <1>1 DEF GrantStep

\* s keeps its value and its tokens, ...
Unspent(s) == value'[s] = value[s] /\ tokens'[s] = tokens[s] /\ supply'[s] = supply[s]

LEMMA ConservedKept ==
    ASSUME NEW s, Conserved(s), Unspent(s), Granted(s)' = Granted(s)
    PROVE  Conserved(s)'
BY DEF Conserved, Unspent

LEMMA NoneSpent ==
    ASSUME TokensOK, NEW S, S \cap Semaphores = {}, GrantStep(S), UNCHANGED svars
    PROVE  TokensOK'
<1>1. ASSUME NEW s \in Semaphores PROVE Conserved(s)'
  <2>1. s \notin S /\ Conserved(s) /\ Unspent(s)
    BY DEF TokensOK, svars, Unspent
  <2> QED BY <2>1, GrantedKept, ConservedKept
<1> QED BY <1>1 DEF TokensOK, CountedOK, svars

\* ... and all others do.
LEMMA OneSpent ==
    ASSUME TokensOK, NEW s \in Semaphores, GrantStep({s}), CountedOK', Conserved(s)',
           \A r \in Semaphores \ {s} : Unspent(r)
    PROVE  TokensOK'
<1>1. ASSUME NEW r \in Semaphores, r # s PROVE Conserved(r)'
  <2>1. r \notin {s} /\ Conserved(r) /\ Unspent(r)
    BY <1>1 DEF TokensOK
  <2> QED BY <2>1, GrantedKept, ConservedKept
<1> QED BY <1>1 DEF TokensOK

LEMMA TakeSpends ==
    ASSUME KInv, TokensOK, api \in Apis, NEW c \in Threads, NEW s \in Semaphores, Take(c, s)
    PROVE  TokensOK'
<1>1. GrantStep({}) /\ GrantStep({s})
  <2>1. KStep({}) /\ {} \subseteq {s}
    BY SemaphoreStillStep
  <2> QED BY <2>1, KStepMore DEF KStep
<1>2. /\ value[s] > 0 /\ value' = [value EXCEPT ![s] = @ - 1] /\ supply' = supply
      /\ tokens' = [tokens EXCEPT ![s][c] = @ + 1] /\ CountedOK
  BY DEF Take, TokensOK
<1>3. CountedOK' /\ \A r \in Semaphores \ {s} : Unspent(r)
  BY <1>2 DEF CountedOK, Unspent
<1>4. Conserved(s)'
  <2>1. Granted(s)' = Granted(s) /\ Conserved(s)
    BY <1>1, GrantedKept DEF TokensOK
  <2>2. tokens'[s] = [tokens[s] EXCEPT ![c] = @ + 1] /\ tokens[s] \in [Threads -> Nat]
    BY <1>2 DEF CountedOK
  <2>3. IsFiniteSet(HeldBy(tokens'[s]))
        /\ Cardinality(HeldBy(tokens'[s])) = Cardinality(HeldBy(tokens[s])) + 1
    BY <2>1, <2>2, HeldMore DEF Conserved
  <2>4. Cardinality(Granted(s)) \in Nat /\ Cardinality(HeldBy(tokens[s])) \in Nat
    BY <2>1, FS_CardinalityType DEF Conserved
  <2>5. value'[s] = value[s] - 1 /\ value[s] \in Nat /\ supply'[s] = supply[s]
    BY <1>2 DEF CountedOK
  <2> QED BY <2>1, <2>3, <2>4, <2>5 DEF Conserved
<1> QED BY <1>1, <1>3, <1>4, OneSpent

\* What FirstResumed does to the value and to who is given a token.
LEMMA FirstIsGranted ==
    ASSUME KInv, TokensOK, NoWrap, NEW s \in Semaphores, Released(s),
           UNCHANGED current_priority,
           UNCHANGED error, value[s] < MaxSupply,
           NEW P \in SUBSET Threads, \A t \in Threads \ P : pc'[t] = pc[t],
           \A t \in P : stat[t] = "READY" /\ \A w \in Awaited : ~Awaits(t, w) /\ ~Awaits(t, w)'
    PROVE  /\ IsFiniteSet(Granted(s)') /\ value' \in [Semaphores -> Nat]
           /\ \A r \in Semaphores \ {s} : value'[r] = value[r]
           /\ value'[s] + Cardinality(Granted(s)') = value[s] + Cardinality(Granted(s)) + 1
<1>1. First(s) \in SUBSET Threads /\ Less(suspend_thread', suspend_thread, First(s))
  BY SemaphoreLists, FirstIsResumed DEF Released, Resumes
<1>2. Granted(s)' = Granted(s) \cup First(s) /\ Granted(s) \cap First(s) = {}
  <2> DEFINE w == <<"taken", s>>
  <2>1. w \in Awaited /\ w[2] = s /\ Granted(s) = Receivers(w) /\ Granted(s)' = Receivers(w)'
    BY GrantedIs
  <2> HIDE DEF w
  <2>2. \A t \in P : stat[t] = "READY" /\ ~Awaits(t, w) /\ ~Awaits(t, w)'
    BY <2>1
  <2> QED BY <1>1, <2>1, <2>2, FirstReceives
<1>3. /\ IsFiniteSet(Granted(s)) /\ Cardinality(Granted(s)) \in Nat
      /\ value \in [Semaphores -> Nat]
  BY FS_CardinalityType DEF TokensOK, Conserved, CountedOK
<1>4. CASE suspend_thread[s] # <<>>
  <2> DEFINE h == Head(suspend_thread[s])
  <2>1. First(s) = {h} /\ value' = value
    BY <1>4 DEF First, Released
  <2> HIDE DEF h
  <2>2. Granted(s)' = Granted(s) \cup {h} /\ h \notin Granted(s)
    BY <1>2, <2>1
  <2>3. IsFiniteSet(Granted(s)') /\ Cardinality(Granted(s)') = Cardinality(Granted(s)) + 1
    BY <1>3, <2>2, FS_AddElement
  <2> QED BY <1>3, <2>1, <2>3
<1>5. CASE suspend_thread[s] = <<>>
  <2>1. First(s) = {} /\ value' = [value EXCEPT ![s] = (@ + 1) % ValueMod]
    BY <1>5 DEF First, Released
  <2>2. (value[s] + 1) % ValueMod = value[s] + 1
    BY <1>3, SemaphoreAssumption DEF NoWrap
  <2>3. Granted(s)' = Granted(s)
    BY <1>2, <2>1
  <2> QED BY <1>3, <2>1, <2>2, <2>3
<1> QED BY <1>4, <1>5

LEMMA ReleaseSpends ==
    ASSUME KInv, TokensOK, NoWrap, api \in Apis, NEW c \in Threads, NEW s \in Semaphores,
           Release(c, s)
    PROVE  TokensOK'
<1>1. /\ Call(c, "release") /\ Goto(c, AfterResume(c, s)) /\ Released(s)
      /\ tokens[s][c] > 0 /\ tokens' = [tokens EXCEPT ![s][c] = @ - 1]
      /\ UNCHANGED <<current_priority, error, supply>>
  BY DEF Release
<1>2. AtWork(c)
  BY <1>1, Calls
<1>3. Moves(c) /\ Goes(c)
  BY <1>1, <1>2, AfterResumeIs, GotoMoves, InCallNext
<1>4. /\ Conserved(s) /\ tokens[s] \in [Threads -> Nat] /\ value[s] \in Nat
      /\ supply[s] \in Nat
      /\ tokens'[s] = [tokens[s] EXCEPT ![c] = @ - 1]
      /\ Cardinality(Granted(s)) \in Nat /\ Cardinality(HeldBy(tokens[s])) \in Nat
  BY <1>1, FS_CardinalityType DEF TokensOK, CountedOK, Conserved
<1>5. /\ IsFiniteSet(HeldBy(tokens'[s])) /\ Cardinality(HeldBy(tokens[s])) > 0
      /\ Cardinality(HeldBy(tokens'[s])) = Cardinality(HeldBy(tokens[s])) - 1
  BY <1>1, <1>4, HeldFewer DEF Conserved
<1>6. value[s] < MaxSupply
  BY <1>4, <1>5, SemaphoreAssumption DEF Conserved
<1>7. /\ IsFiniteSet(Granted(s)') /\ value' \in [Semaphores -> Nat]
      /\ \A r \in Semaphores \ {s} : value'[r] = value[r]
      /\ value'[s] + Cardinality(Granted(s)') = value[s] + Cardinality(Granted(s)) + 1
  <2> DEFINE P == {c}
  <2>1. P \in SUBSET Threads /\ \A t \in Threads \ P : pc'[t] = pc[t]
    BY <1>3 DEF Moves
  <2>2. \A t \in P : stat[t] = "READY" /\ \A w \in Awaited : ~Awaits(t, w) /\ ~Awaits(t, w)'
    BY <1>2, <1>3 DEF AtWork, Goes
  <2> HIDE DEF P
  <2> QED BY <1>1, <1>6, <2>1, <2>2, FirstIsGranted
<1>8. CountedOK' /\ \A r \in Semaphores \ {s} : Unspent(r)
  <2>1. tokens \in [Semaphores -> [Threads -> Nat]] /\ supply \in [Semaphores -> Nat]
    BY DEF TokensOK, CountedOK
  <2>2. tokens[s][c] - 1 \in Nat
    BY <1>1, <1>4
  <2> QED BY <1>1, <1>7, <2>1, <2>2 DEF CountedOK, Unspent
<1>9. Conserved(s)'
  <2>1. Cardinality(Granted(s)') \in Nat /\ value'[s] \in Nat
    BY <1>7, FS_CardinalityType
  <2>2. supply'[s] = supply[s]
    BY <1>1
  <2> QED BY <1>4, <1>5, <1>7, <2>1, <2>2 DEF Conserved
<1>10. GrantStep({s})
  BY ReleaseStep DEF KStep
<1> QED BY <1>8, <1>9, <1>10, OneSpent

LEMMA IsrReleaseSpends ==
    ASSUME KInv, TokensOK, NoWrap, NEW s \in Semaphores, IsrRelease(s)
    PROVE  TokensOK'
<1>1. /\ supply[s] < MaxSupply /\ supply' = [supply EXCEPT ![s] = @ + 1] /\ Released(s)
      /\ UNCHANGED <<current_priority, error, pc, tokens>>
  BY DEF IsrRelease
<1>4. /\ Conserved(s) /\ tokens[s] \in [Threads -> Nat] /\ value[s] \in Nat
      /\ supply[s] \in Nat
      /\ Cardinality(Granted(s)) \in Nat /\ Cardinality(HeldBy(tokens[s])) \in Nat
  BY FS_CardinalityType DEF TokensOK, CountedOK, Conserved
<1>6. value[s] < MaxSupply
  BY <1>1, <1>4, SemaphoreAssumption DEF Conserved
<1>7. /\ IsFiniteSet(Granted(s)') /\ value' \in [Semaphores -> Nat]
      /\ \A r \in Semaphores \ {s} : value'[r] = value[r]
      /\ value'[s] + Cardinality(Granted(s)') = value[s] + Cardinality(Granted(s)) + 1
  <2> DEFINE P == {}
  <2>1. P \in SUBSET Threads /\ \A t \in Threads \ P : pc'[t] = pc[t]
    BY <1>1
  <2>2. \A t \in P : stat[t] = "READY" /\ \A w \in Awaited : ~Awaits(t, w) /\ ~Awaits(t, w)'
    OBVIOUS
  <2> HIDE DEF P
  <2> QED BY <1>1, <1>6, <2>1, <2>2, FirstIsGranted
<1>8. CountedOK' /\ \A r \in Semaphores \ {s} : Unspent(r)
  <2>1. CountedOK /\ supply[s] + 1 \in Nat
    BY <1>4 DEF TokensOK
  <2>2. supply' \in [Semaphores -> Nat] /\ \A r \in Semaphores \ {s} : supply'[r] = supply[r]
    BY <1>1, <2>1 DEF CountedOK
  <2> QED BY <1>1, <1>7, <2>1, <2>2 DEF CountedOK, Unspent
<1>9. Conserved(s)'
  <2>1. Cardinality(Granted(s)') \in Nat /\ value'[s] \in Nat
    BY <1>7, FS_CardinalityType
  <2>2. supply'[s] = supply[s] + 1 /\ supply'[s] <= MaxSupply /\ tokens'[s] = tokens[s]
    BY <1>1, <1>4, SemaphoreAssumption DEF TokensOK, CountedOK
  <2> QED BY <1>4, <1>7, <2>1, <2>2 DEF Conserved
<1>10. GrantStep({s})
  BY IsrReleaseStep DEF KStep
<1> QED BY <1>8, <1>9, <1>10, OneSpent

LEMMA ReturnSpends ==
    ASSUME KInv, TokensOK, NEW c \in Threads, TakeReturn(c)
    PROVE  TokensOK'
<1>1. /\ At(c, "taken") /\ Return(c) /\ UNCHANGED <<value, supply>>
      /\ UNCHANGED <<tcb, lists, rt_current_thread, rt_scheduler_lock_nest, isr>>
  BY DEF TakeReturn
<1>2. Target(c) \in Semaphores /\ KStep({Target(c)})
  BY TakeReturnStep
<1>3. PICK s \in Semaphores : s = Target(c) /\ KStep({s})
  BY <1>2
<1>4. PICK w : w = Head(pc[c])
  OBVIOUS
<1>5. /\ w \in Awaited /\ w = <<"taken", s>>
      /\ (c \in Receivers(w) <=> error[c] = "EOK")
      /\ Receivers(w)' = Receivers(w) \ {c}
  BY <1>1, <1>3, <1>4, ReceiverReturns
<1>6. (c \in Granted(s) <=> error[c] = "EOK") /\ Granted(s)' = Granted(s) \ {c}
  BY <1>5, GrantedIs
<1>7. /\ Conserved(s) /\ tokens[s] \in [Threads -> Nat] /\ value[s] \in Nat
      /\ supply[s] \in Nat
      /\ Cardinality(Granted(s)) \in Nat /\ Cardinality(HeldBy(tokens[s])) \in Nat
      /\ CountedOK /\ value'[s] = value[s] /\ supply'[s] = supply[s]
  BY <1>1, FS_CardinalityType DEF TokensOK, CountedOK, Conserved
<1>8. CASE error[c] = "EOK"
  <2>1. tokens' = [tokens EXCEPT ![s][c] = @ + 1]
    BY <1>3, <1>8 DEF TakeReturn
  <2>2. CountedOK' /\ \A r \in Semaphores \ {s} : Unspent(r)
    BY <1>1, <1>7, <2>1 DEF CountedOK, Unspent
  <2>3. tokens'[s] = [tokens[s] EXCEPT ![c] = @ + 1]
    BY <1>7, <2>1 DEF CountedOK
  <2>4. /\ IsFiniteSet(HeldBy(tokens'[s]))
        /\ Cardinality(HeldBy(tokens'[s])) = Cardinality(HeldBy(tokens[s])) + 1
    BY <1>7, <2>3, HeldMore DEF Conserved
  <2>5. IsFiniteSet(Granted(s)') /\ Cardinality(Granted(s)') = Cardinality(Granted(s)) - 1
    BY <1>6, <1>7, <1>8, FS_RemoveElement DEF Conserved
  <2>6. Conserved(s)'
    BY <1>7, <2>4, <2>5 DEF Conserved
  <2> QED BY <1>3, <2>2, <2>6, OneSpent DEF KStep
<1>9. CASE error[c] # "EOK"
  <2>1. tokens' = tokens
    BY <1>9 DEF TakeReturn
  <2>2. CountedOK' /\ \A r \in Semaphores : Unspent(r)
    BY <1>1, <1>7, <2>1 DEF CountedOK, Unspent
  <2>3. Granted(s)' = Granted(s)
    BY <1>6, <1>9
  <2>4. Conserved(s)'
    BY <1>7, <2>2, <2>3, ConservedKept
  <2> QED BY <1>3, <2>2, <2>4, OneSpent DEF KStep
<1> QED BY <1>8, <1>9

LEMMA ResetSpends ==
    ASSUME KInv, TokensOK, api \in Apis, NEW c \in Threads, NEW s \in Semaphores,
           NEW v \in Nat,
           SemReset(c, s, v)
    PROVE  TokensOK'
<1>1. GrantStep({}) /\ GrantStep({s})
  <2>1. KStep({}) /\ {} \subseteq {s}
    BY SemaphoreStillStep
  <2> QED BY <2>1, KStepMore DEF KStep
<1>2. /\ supply[s] - value[s] + v <= MaxSupply /\ value' = [value EXCEPT ![s] = v]
      /\ supply' = [supply EXCEPT ![s] = @ - value[s] + v] /\ tokens' = tokens
  BY DEF SemReset
<1>3. Granted(s)' = Granted(s) /\ Conserved(s) /\ CountedOK
  BY <1>1, GrantedKept DEF TokensOK
<1>4. /\ Cardinality(Granted(s)) \in Nat /\ Cardinality(HeldBy(tokens[s])) \in Nat
      /\ value[s] \in Nat /\ supply[s] \in Nat /\ MaxSupply \in Nat
      /\ value'[s] = v /\ supply'[s] = supply[s] - value[s] + v
  BY <1>2, <1>3, FS_CardinalityType, SemaphoreAssumption DEF Conserved, CountedOK
<1>5. supply[s] - value[s] + v \in Nat
  BY <1>3, <1>4 DEF Conserved
<1>6. CountedOK' /\ \A r \in Semaphores \ {s} : Unspent(r)
  BY <1>2, <1>3, <1>5 DEF CountedOK, Unspent
<1>7. Conserved(s)'
  BY <1>2, <1>3, <1>4 DEF Conserved
<1> QED BY <1>1, <1>6, <1>7, OneSpent

LEMMA SetUpSpends ==
    ASSUME KInv, TokensOK, NoWrap, api \in Apis, NEW c \in Threads, NEW s \in Semaphores,
           MakeObject(c, s), SemSetUp(s, InitValue[s])
    PROVE  TokensOK'
<1>1. s \in Objects /\ ListsOf[s] = <<s>>
  BY SemaphoreLists, KindsAssumption
<1>2. Range(ListsOf[s]) = {s}
  BY <1>1 DEF Range
<1>3. Deserted(s) /\ UNCHANGED kvars
  BY DEF MakeObject
<1> DEFINE w == <<"taken", s>>
<1>5. \A t \in Threads : ~Awaits(t, w)
  <2> SUFFICES ASSUME NEW t \in Threads, NEW i \in DOMAIN pc[t], pc[t][i] = w PROVE FALSE
    BY DEF Awaits
  <2>1. pc[t][i][1] = "taken" /\ pc[t][i][2] = s
    OBVIOUS
  <2> QED BY <1>2, <1>3, <2>1 DEF Deserted
<1>6. Granted(s)' = {}
  <2>1. UNCHANGED <<pc, error, suspend_thread>>
    BY <1>3 DEF kvars, tcb, lists
  <2> QED BY <1>5, <2>1 DEF Granted, Taking, Awaits
<1>7. GrantStep({s})
  <2>1. KStep({}) /\ {} \subseteq {s}
    BY <1>3, StillStep
  <2> QED BY <2>1, KStepMore DEF KStep
<1>8. CountedOK /\ InitValue[s] \in Nat /\ InitValue[s] <= MaxSupply
  BY SemaphoreAssumption DEF NoWrap, TokensOK
<1>9. CountedOK' /\ \A r \in Semaphores \ {s} : Unspent(r)
  BY <1>8 DEF SemSetUp, CountedOK, Unspent
<1>10. /\ value'[s] = InitValue[s] /\ supply'[s] = InitValue[s]
       /\ \A t \in Threads : tokens'[s][t] = 0
  BY <1>8 DEF SemSetUp, CountedOK
<1>11. Conserved(s)'
  BY <1>6, <1>8, <1>10, HeldNone, FS_EmptySet DEF Conserved
<1> QED BY <1>7, <1>9, <1>11, OneSpent

LEMMA TokensStep ==
    ASSUME KInv, TokensOK, NoWrap, api \in Apis, SemNext
    PROVE  TokensOK'
<1>1. ASSUME NEW s \in Semaphores, IsrRelease(s) PROVE TokensOK'
  BY <1>1, IsrReleaseSpends
<1>2. ASSUME NEW c \in Threads, TakeReturn(c) PROVE TokensOK'
  BY <1>2, ReturnSpends
<1>3. ASSUME NEW c \in Threads, NEW s \in Semaphores, Take(c, s) \/ Release(c, s)
      PROVE  TokensOK'
  BY <1>3, TakeSpends, ReleaseSpends
<1>4. ASSUME NEW c \in Threads, NEW s \in Semaphores, NEW v \in 0..1, SemReset(c, s, v)
      PROVE  TokensOK'
  BY <1>4, ResetSpends
<1>5. ASSUME NEW c \in Threads, NEW s \in Semaphores,
             SemInitialise(c, s, InitValue[s]) \/ SemCreate(c, s, InitValue[s])
      PROVE  TokensOK'
  BY <1>5, SetUpSpends DEF SemInitialise, SemCreate, InitObject, CreateObject
<1>6. ASSUME NEW c \in Threads, NEW s \in Semaphores, SemDetach(c, s) \/ SemDelete(c, s)
      PROVE  TokensOK'
  <2>1. KStep({}) /\ UNCHANGED svars /\ {} \cap Semaphores = {}
    BY <1>6, SemaphoreStillStep DEF SemDetach, SemDelete
  <2> QED BY <2>1, NoneSpent DEF KStep
<1>7. ASSUME NEW c \in Threads, NEW s \in Semaphores, NEW timed, TakeWait(c, s, timed)
      PROVE  TokensOK'
  <2>1. GrantStep({}) /\ UNCHANGED svars /\ {} \cap Semaphores = {}
    BY <1>7, TakeWaitStep DEF TakeWait
  <2> QED BY <2>1, NoneSpent
<1> QED BY <1>1, <1>2, <1>3, <1>4, <1>5, <1>6, <1>7 DEF SemNext, SemStep

\* The steps on the other objects.
LEMMA TokensKept ==
    ASSUME SettledInv, TokensOK, NoWrap, [AllNext]_vars
    PROVE  TokensOK'
<1>1. KInv /\ MutexesOK /\ api \in Apis /\ Settled
  BY DEF SettledInv
<1>2. /\ {} \cap Semaphores = {} /\ Mutexes \cap Semaphores = {}
      /\ Elsewhere \cap Semaphores = {}
  BY KindsAssumption, ElsewhereIs
<1>3. ASSUME KStep({}) \/ KStep(Mutexes) \/ KStep(Elsewhere), UNCHANGED svars
      PROVE  TokensOK'
  BY <1>2, <1>3, NoneSpent DEF KStep
<1>4. CASE UNCHANGED vars
  BY <1>1, <1>3, <1>4, StillStep DEF vars
<1>5. CASE Next /\ UNCHANGED <<ipcvars, svars, mvars, evars, bvars, qvars, pvars>>
  BY <1>1, <1>3, <1>5, KernelStep
<1>6. CASE /\ \E c \in Threads : IpcStep(c) \/ Woken(c)
           /\ UNCHANGED <<api, svars, mvars, evars, bvars, qvars, pvars>>
  <2>1. KStep({})
    BY <1>1, <1>6, ResumeAllTestStep, ObjectGoneStep, ResumeOneStep, WokenStep DEF IpcStep
  <2> QED BY <1>3, <1>6, <2>1
<1>7. CASE SemNext /\ UNCHANGED <<api, mvars, evars, bvars, qvars, pvars>>
  BY <1>1, <1>7, TokensStep
<1>8. CASE /\ \E c \in Threads : MutexStep(c)
           /\ UNCHANGED <<api, svars, evars, bvars, qvars, pvars>>
  BY <1>1, <1>3, <1>8, MutexesStep
<1>9. CASE EventNext /\ UNCHANGED <<api, svars, mvars, bvars, qvars, pvars>>
  BY <1>1, <1>3, <1>9, EventsStep, StepElsewhere
<1>10. CASE MailNext /\ UNCHANGED <<api, svars, mvars, evars, qvars, pvars>>
  BY <1>1, <1>3, <1>10, MailboxesStep, StepElsewhere
<1>11. CASE QueueNext /\ UNCHANGED <<api, svars, mvars, evars, bvars, pvars>>
  BY <1>1, <1>3, <1>11, QueuesStep, StepElsewhere
<1>12. CASE PoolNext /\ UNCHANGED <<api, svars, mvars, evars, bvars, qvars>>
  BY <1>1, <1>3, <1>12, PoolsStep, StepElsewhere
<1> QED BY <1>4, <1>5, <1>6, <1>7, <1>8, <1>9, <1>10, <1>11, <1>12 DEF AllNext

\* No token is lost or made up by any interleaving of takes, timeouts, releases from
\* threads and interrupts, resets and deletion, as long as no value can wrap around:
\* each is in the value, with a thread, or on its way to a thread resumed to have it.
THEOREM TokensConservedHolds == AllSpec /\ Settled /\ NoWrap => []TokensConserved
<1>1. AllInit /\ Settled /\ NoWrap => SettledInv /\ TokensOK
  <2> SUFFICES ASSUME AllInit, Settled, NoWrap PROVE SettledInv /\ TokensOK
    OBVIOUS
  <2>1. SemInit /\ Init
    BY DEF AllInit, IpcInit
  <2>2. CountedOK
    BY <2>1, SemaphoreAssumption DEF SemInit, CountedOK
  <2>4. ASSUME NEW s \in Semaphores PROVE Granted(s) = {}
    <3>1. \A t \in Threads : pc[t] = <<>>
      BY <2>1 DEF Init
    <3> QED BY <3>1 DEF Granted, Taking
  <2>5. ASSUME NEW s \in Semaphores PROVE Conserved(s)
    <3>1. \A t \in Threads : tokens[s][t] = 0
      BY <2>1 DEF SemInit
    <3>2. /\ supply[s] = InitValue[s] /\ value[s] = InitValue[s] /\ InitValue[s] <= MaxSupply
          /\ value[s] \in Nat
      BY <2>1, <2>2 DEF SemInit, NoWrap, CountedOK
    <3> QED BY <2>4, <3>1, <3>2, HeldNone, FS_EmptySet DEF Conserved
  <2> QED BY <2>2, <2>5, StartIsSettled DEF TokensOK
<1>2. SettledInv /\ TokensOK /\ NoWrap /\ [AllNext]_vars => SettledInv' /\ TokensOK'
  BY StepIsSettled, TokensKept
<1>3. TokensOK => TokensConserved
  BY DEF TokensOK, Conserved, TokensConserved, Held, HeldBy
<1>4. NoWrap => NoWrap'
  BY DEF NoWrap
<1> QED BY <1>1, <1>2, <1>3, <1>4, PTL DEF AllSpec

-----------------------------------------------------------------------------
(* The free lists of the memory pools.                                     *)

\* a numbers the n blocks of left in the order in which word links them.
Numbers(a, n, first, word, left) ==
    /\ a \in [Nat -> Blocks \cup {NoBlock}] /\ a[1] = first
    /\ \A i \in 1..n : a[i] \in left /\ a[i + 1] = word[a[i]]
    /\ \A i \in Nat : i > n => a[i] = NoBlock
    /\ \A i, j \in 1..n : a[i] = a[j] => i = j
    /\ \A b \in left : \E i \in 1..n : a[i] = b

Strung(n, first, word, left) == \E a : Numbers(a, n, first, word, left)

LEMMA LinkedTaken ==
    ASSUME NEW n \in Nat \ {0}, NEW first, NEW word, NEW left \in SUBSET Blocks,
           Strung(n, first, word, left), NEW word2,
           \A b \in Blocks : b # first => word2[b] = word[b]
    PROVE  first \in left /\ Strung(n - 1, word[first], word2, left \ {first})
<1>1. PICK a : Numbers(a, n, first, word, left)
  BY DEF Strung
<1> USE <1>1 DEF Numbers
<1> DEFINE a2 == [i \in Nat |-> a[i + 1]]
<1>2. a2 \in [Nat -> Blocks \cup {NoBlock}] /\ \A i \in Nat : a2[i] = a[i + 1]
  OBVIOUS
<1> HIDE DEF a2
<1>3. 1 \in 1..n /\ first \in left /\ a[1] = first /\ a[2] = word[first]
  OBVIOUS
<1>4. ASSUME NEW i \in 1..n-1
      PROVE  a2[i] \in left \ {first} /\ a2[i + 1] = word2[a2[i]]
  <2>1. i + 1 \in 1..n /\ i + 1 # 1 /\ i \in Nat /\ i + 1 \in Nat
    OBVIOUS
  <2>2. a2[i] = a[i + 1] /\ a2[i + 1] = a[(i + 1) + 1]
    BY <1>2, <2>1
  <2>3. a[i + 1] \in left /\ a[i + 1] # a[1] /\ a[(i + 1) + 1] = word[a[i + 1]]
    BY <1>3, <2>1
  <2> QED BY <2>2, <2>3
<1>5. \A i \in Nat : i > n - 1 => a2[i] = NoBlock
  BY <1>2
<1>6. ASSUME NEW i \in 1..n-1, NEW j \in 1..n-1, a2[i] = a2[j] PROVE i = j
  <2>1. i + 1 \in 1..n /\ j + 1 \in 1..n /\ a[i + 1] = a[j + 1]
    BY <1>2, <1>6
  <2>2. i + 1 = j + 1
    BY <2>1
  <2> QED BY <2>2
<1>7. ASSUME NEW b \in left \ {first} PROVE \E i \in 1..n-1 : a2[i] = b
  <2>1. PICK i \in 1..n : a[i] = b
    OBVIOUS
  <2>2. i # 1
    BY <1>3, <2>1
  <2>3. i - 1 \in 1..n-1 /\ i - 1 \in Nat /\ (i - 1) + 1 = i
    BY <2>2
  <2>4. a2[i - 1] = b
    BY <1>2, <2>1, <2>3
  <2> QED BY <2>3, <2>4
<1>8. a2[1] = word[first]
  BY <1>2, <1>3
<1>9. Numbers(a2, n - 1, word[first], word2, left \ {first})
  <2> DEFINE k == n - 1
             rest == left \ {first}
  <2>1. /\ \A i \in 1..k : a2[i] \in rest /\ a2[i + 1] = word2[a2[i]]
        /\ \A i \in Nat : i > k => a2[i] = NoBlock
        /\ \A i, j \in 1..k : a2[i] = a2[j] => i = j
        /\ \A b \in rest : \E i \in 1..k : a2[i] = b
    BY <1>4, <1>5, <1>6, <1>7
  <2> HIDE DEF k, rest
  <2>2. Numbers(a2, k, word[first], word2, rest)
    BY <1>2, <1>8, <2>1 DEF Numbers
  <2> QED BY <2>2 DEF k, rest
<1> HIDE <1>1 DEF Numbers
<1> QED BY <1>3, <1>9 DEF Strung

LEMMA LinkedFreed ==
    ASSUME NEW n \in Nat, NEW first, NEW word, NEW left \in SUBSET Blocks,
           Strung(n, first, word, left), NEW b \in Blocks \ left, NEW word2,
           word2[b] = first, \A x \in Blocks : x # b => word2[x] = word[x]
    PROVE  Strung(n + 1, b, word2, left \cup {b})
<1>1. PICK a : Numbers(a, n, first, word, left)
  BY DEF Strung
<1> USE <1>1 DEF Numbers
<1> DEFINE a2 == [i \in Nat |-> IF i <= 1 THEN b ELSE a[i - 1]]
<1>2. /\ a2 \in [Nat -> Blocks \cup {NoBlock}] /\ a2[1] = b
      /\ \A i \in Nat : i > 1 => a2[i] = a[i - 1]
  OBVIOUS
<1> HIDE DEF a2
<1>4. ASSUME NEW i \in 1..n+1
      PROVE  a2[i] \in left \cup {b} /\ a2[i + 1] = word2[a2[i]]
  <2>1. CASE i = 1
    <3>1. a2[2] = a[1] /\ a[1] = first
      BY <1>2
    <3> QED BY <1>2, <2>1, <3>1
  <2>2. CASE i # 1
    <3>1. i - 1 \in 1..n /\ i > 1 /\ i + 1 > 1 /\ i \in Nat /\ i + 1 \in Nat
          /\ (i + 1) - 1 = i /\ (i - 1) + 1 = i
      BY <2>2
    <3>2. a2[i] = a[i - 1] /\ a2[i + 1] = a[i]
      BY <1>2, <3>1
    <3>3. a[i - 1] \in left /\ a[i] = word[a[i - 1]]
      BY <3>1
    <3> QED BY <3>2, <3>3
  <2> QED BY <2>1, <2>2
<1>5. \A i \in Nat : i > n + 1 => a2[i] = NoBlock
  BY <1>2
<1>6. ASSUME NEW i \in 1..n+1, NEW j \in 1..n+1, a2[i] = a2[j] PROVE i = j
  <2>1. \A k \in 1..n+1 : k # 1 => k - 1 \in 1..n /\ a2[k] = a[k - 1] /\ a[k - 1] \in left
    BY <1>2
  <2>2. CASE i = 1 \/ j = 1
    BY <1>2, <1>6, <2>1, <2>2
  <2>3. CASE i # 1 /\ j # 1
    <3>1. i - 1 = j - 1
      BY <1>6, <2>1, <2>3
    <3> QED BY <3>1
  <2> QED BY <2>2, <2>3
<1>7. ASSUME NEW x \in left \cup {b} PROVE \E i \in 1..n+1 : a2[i] = x
  <2>1. CASE x = b
    BY <1>2, <2>1
  <2>2. CASE x \in left
    <3>1. PICK i \in 1..n : a[i] = x
      BY <2>2
    <3>2. i + 1 \in 1..n+1 /\ i + 1 > 1 /\ i + 1 \in Nat /\ (i + 1) - 1 = i
      OBVIOUS
    <3>3. a2[i + 1] = x
      BY <1>2, <3>1, <3>2
    <3> QED BY <3>2, <3>3
  <2> QED BY <2>1, <2>2
<1>9. Numbers(a2, n + 1, b, word2, left \cup {b})
  BY <1>2, <1>4, <1>5, <1>6, <1>7 DEF Numbers
<1> QED BY <1>9 DEF Strung

LEMMA LinkedAll == Strung(BlockCount, 1, InOrder, Blocks)
<1> DEFINE a == [i \in Nat |-> IF i \in Blocks THEN i ELSE NoBlock]
<1>1. BlockCount \in Nat \ {0} /\ NoBlock = 0 /\ Blocks = 1..BlockCount
  BY PoolAssumption DEF Blocks, NoBlock
<1>2. \A i \in Blocks : a[i] = i /\ a[i + 1] = InOrder[i]
  BY <1>1 DEF InOrder
<1>3. \A i \in Nat : i > BlockCount => a[i] = NoBlock
  BY <1>1
<1>4. a \in [Nat -> Blocks \cup {NoBlock}] /\ a[1] = 1
  BY <1>1
<1> HIDE DEF a
<1>5. Numbers(a, BlockCount, 1, InOrder, Blocks)
  BY <1>1, <1>2, <1>3, <1>4 DEF Numbers
<1> QED BY <1>5 DEF Strung

\* The list is no longer than there are blocks.
LEMMA LinkedFits ==
    ASSUME NEW a, NEW n \in Nat, NEW first, NEW word, NEW left \in SUBSET Blocks,
           Numbers(a, n, first, word, left)
    PROVE  n <= BlockCount
<1> DEFINE f == [i \in 1..n |-> a[i]]
<1>1. BlockCount \in Nat \ {0} /\ Blocks = 1..BlockCount
  BY PoolAssumption DEF Blocks
<1>2. f \in [1..n -> Blocks] /\ \A i, j \in 1..n : f[i] = f[j] => i = j
  BY DEF Numbers
<1> HIDE DEF f
<1>3. f \in Injection(1..n, Blocks)
  BY <1>2 DEF Injection, IsInjective
<1>4. IsFiniteSet(Blocks) /\ Cardinality(Blocks) = BlockCount /\ Cardinality(1..n) = n
  BY <1>1, FS_Interval
<1>5. Cardinality(1..n) <= Cardinality(Blocks)
  BY ONLY <1>3, <1>4, FS_Injection
<1> QED BY <1>4, <1>5

\* The definition of the property finds it.
LEMMA FreeBlocksAre ==
    ASSUME NEW mp, NEW a, NEW n \in Nat, n = block_free_count[mp], NEW left \in SUBSET Blocks,
           Numbers(a, n, block_list[mp], block_word[mp], left)
    PROVE  FreeBlocks(mp) = [i \in 1..n + 1 |-> a[i]]
<1> DEFINE m == BlockCount + 1
           word == block_word[mp]
           Makes(f) == f = [k \in 1..m |->
                              IF k = 1 THEN block_list[mp]
                              ELSE IF f[k - 1] \in Blocks THEN word[f[k - 1]] ELSE NoBlock]
           g == CHOOSE f : Makes(f)
           a2 == [k \in 1..m |-> a[k]]
<1>1. BlockCount \in Nat \ {0} /\ NoBlock \notin Blocks /\ n <= BlockCount
  BY PoolAssumption, LinkedFits DEF Blocks, NoBlock
<1>2. ASSUME NEW k \in 1..m
      PROVE  a[k] = IF k = 1 THEN block_list[mp]
                    ELSE IF a[k - 1] \in Blocks THEN word[a[k - 1]] ELSE NoBlock
  <2>1. CASE k = 1
    BY <2>1 DEF Numbers
  <2>2. CASE k # 1 /\ k - 1 <= n
    <3>1. k - 1 \in 1..n /\ (k - 1) + 1 = k
      BY <1>1, <2>2
    <3> QED BY <2>2, <3>1 DEF Numbers
  <2>3. CASE k # 1 /\ k - 1 > n
    <3>1. k - 1 \in Nat /\ k \in Nat /\ k > n
      BY <1>1, <2>3
    <3> QED BY <1>1, <2>3, <3>1 DEF Numbers
  <2> QED BY <1>1, <2>1, <2>2, <2>3
<1>3. Makes(a2)
  <2>1. \A k \in 1..m : a2[k] = a[k] /\ (k # 1 => a2[k - 1] = a[k - 1])
    BY <1>1
  <2> HIDE DEF word
  <2>2. \A k \in 1..m : a2[k] = IF k = 1 THEN block_list[mp]
                    ELSE IF a2[k - 1] \in Blocks THEN word[a2[k - 1]] ELSE NoBlock
    BY <1>2, <2>1 DEF word
  <2>3. a2 = [k \in 1..m |-> a2[k]]
    OBVIOUS
  <2> HIDE DEF a2, m
  <2> QED BY <2>2, <2>3
<1>4. Makes(g)
  <2> HIDE DEF Makes, a2
  <2> QED BY <1>3
<1>5. FreeBlocks(mp) = [k \in 1..n + 1 |-> g[k]]
  BY DEF FreeBlocks
<1> HIDE DEF g
<1>6. \A k \in 1..m : g[k] = IF k = 1 THEN block_list[mp]
                    ELSE IF g[k - 1] \in Blocks THEN word[g[k - 1]] ELSE NoBlock
  BY <1>4
<1>7. \A k \in 1..m : g[k] = a[k]
  <2> DEFINE Bad == {k \in 1..m : g[k] # a[k]}
  <2>1. SUFFICES ASSUME Bad # {} PROVE FALSE
    OBVIOUS
  <2>2. Bad \in SUBSET Nat
    OBVIOUS
  <2> HIDE DEF Bad
  <2>3. PICK k \in Bad : \A y \in Bad : k <= y
    BY <2>1, <2>2, HasMinimum
  <2>4. k \in 1..m /\ g[k] # a[k]
    BY <2>3 DEF Bad
  <2> HIDE DEF Makes, word
  <2>5. k # 1
    BY <1>2, <1>6, <2>4
  <2>6. k - 1 \in 1..m /\ ~(k <= k - 1)
    BY <1>1, <2>4, <2>5
  <2>7. g[k - 1] = a[k - 1]
    BY <2>3, <2>6 DEF Bad
  <2> QED BY <1>2, <1>6, <2>4, <2>5, <2>7
<1>8. \A k \in 1..n + 1 : k \in 1..m
  BY <1>1
<1> HIDE DEF Makes
<1> QED BY <1>5, <1>7, <1>8

BlocksOK(mp) ==
    /\ block_free_count[mp] \in Nat /\ held[mp] \subseteq Blocks
    /\ Strung(block_free_count[mp], block_list[mp], block_word[mp], Blocks \ held[mp])
    /\ \A b \in held[mp] : block_word[mp][b] = mp

BlocksTyped == /\ DOMAIN block_list = Pools /\ DOMAIN block_free_count = Pools
               /\ DOMAIN held = Pools /\ DOMAIN block_word = Pools
               /\ \A mp \in Pools : DOMAIN block_word[mp] = Blocks

PoolsOK == BlocksTyped /\ \A mp \in Pools : BlocksOK(mp)

\* A step on mp leaves the other pools as they are.
Aside(mp) == /\ DOMAIN block_list' = Pools /\ DOMAIN block_free_count' = Pools
             /\ DOMAIN held' = Pools /\ DOMAIN block_word' = Pools
             /\ DOMAIN block_word'[mp] = Blocks
             /\ \A np \in Pools \ {mp} :
                   /\ block_list'[np] = block_list[np] /\ held'[np] = held[np]
                   /\ block_free_count'[np] = block_free_count[np]
                   /\ block_word'[np] = block_word[np]

LEMMA PoolsOKAside ==
    ASSUME PoolsOK, NEW mp \in Pools, Aside(mp), BlocksOK(mp)'
    PROVE  PoolsOK'
<1>1. ASSUME NEW np \in Pools, np # mp PROVE BlocksOK(np)' /\ DOMAIN block_word'[np] = Blocks
  BY <1>1 DEF PoolsOK, Aside, BlocksOK, BlocksTyped
<1> QED BY <1>1 DEF PoolsOK, BlocksTyped, Aside

\* A block is handed out only when there is one.
LEMMA BlockIsTaken ==
    ASSUME PoolsOK, NEW mp \in Pools, BlockTaken(mp), block_free_count[mp] # 0
    PROVE  PoolsOK'
<1> DEFINE b == block_list[mp]
           n == block_free_count[mp]
           word == block_word[mp]
           word2 == block_word'[mp]
           left == Blocks \ held[mp]
<1>1. /\ n \in Nat \ {0} /\ held[mp] \subseteq Blocks /\ Strung(n, b, word, left)
      /\ \A x \in held[mp] : word[x] = mp
      /\ BlocksTyped
  BY DEF PoolsOK, BlocksOK
<1>2. /\ block_free_count' = [block_free_count EXCEPT ![mp] = @ - 1]
      /\ block_list' = [block_list EXCEPT ![mp] = word[b]]
      /\ block_word' = [block_word EXCEPT ![mp][b] = mp]
      /\ held' = [held EXCEPT ![mp] = @ \cup {b}]
  BY DEF BlockTaken
<1>3. /\ block_free_count'[mp] = n - 1 /\ block_list'[mp] = word[b]
      /\ word2 = [word EXCEPT ![b] = mp] /\ held'[mp] = held[mp] \cup {b}
      /\ Aside(mp)
  BY <1>1, <1>2 DEF BlocksTyped, Aside
<1>4. DOMAIN word = Blocks
  BY <1>1 DEF BlocksTyped
<1> HIDE DEF b, n, word, word2
<1>5. b \in left /\ Strung(n - 1, word[b], word2, left \ {b})
  <2>1. \A x \in Blocks : x # b => word2[x] = word[x]
    BY <1>3, <1>4
  <2>2. left \in SUBSET Blocks
    OBVIOUS
  <2> HIDE DEF left
  <2> QED BY <1>1, <2>1, <2>2, LinkedTaken
<1> DEFINE rest == left \ {b}
           left2 == Blocks \ held'[mp]
<1>6. rest = left2 /\ held'[mp] \subseteq Blocks
  BY <1>1, <1>3, <1>5
<1>7. \A x \in held'[mp] : word2[x] = mp
  BY <1>1, <1>3, <1>4, <1>6
<1>8. BlocksOK(mp)'
  <2> HIDE DEF rest, left2
  <2>1. Strung(block_free_count'[mp], block_list'[mp], word2, left2)
    BY <1>3, <1>5, <1>6 DEF rest
  <2> QED BY <1>1, <1>3, <1>6, <1>7, <2>1 DEF BlocksOK, word2, left2
<1> QED BY <1>3, <1>8, PoolsOKAside

LEMMA BlockIsFreed ==
    ASSUME PoolsOK, NEW mp \in Pools, NEW b \in held[mp], Freed(mp, b)
    PROVE  PoolsOK'
<1> DEFINE first == block_list[mp]
           n == block_free_count[mp]
           word == block_word[mp]
           word2 == block_word'[mp]
           left == Blocks \ held[mp]
<1>1. /\ n \in Nat /\ held[mp] \subseteq Blocks /\ Strung(n, first, word, left)
      /\ \A x \in held[mp] : word[x] = mp
      /\ BlocksTyped
  BY DEF PoolsOK, BlocksOK
<1>2. /\ block_free_count' = [block_free_count EXCEPT ![mp] = @ + 1]
      /\ block_list' = [block_list EXCEPT ![mp] = b]
      /\ block_word' = [block_word EXCEPT ![mp][b] = first]
      /\ held' = [held EXCEPT ![mp] = @ \ {b}]
  BY DEF Freed, FreeLinked
<1>3. /\ block_free_count'[mp] = n + 1 /\ block_list'[mp] = b
      /\ word2 = [word EXCEPT ![b] = first] /\ held'[mp] = held[mp] \ {b}
      /\ Aside(mp)
  BY <1>1, <1>2 DEF BlocksTyped, Aside
<1>4. DOMAIN word = Blocks
  BY <1>1 DEF BlocksTyped
<1> HIDE DEF first, n, word, word2
<1>5. Strung(n + 1, b, word2, left \cup {b})
  <2>1. word2[b] = first /\ \A x \in Blocks : x # b => word2[x] = word[x]
    BY <1>1, <1>3, <1>4
  <2>2. left \in SUBSET Blocks /\ b \in Blocks \ left
    BY <1>1
  <2> HIDE DEF left
  <2> QED BY <1>1, <2>1, <2>2, LinkedFreed
<1> DEFINE rest == left \cup {b}
           left2 == Blocks \ held'[mp]
<1>6. rest = left2 /\ held'[mp] \subseteq Blocks
  BY <1>1, <1>3
<1>7. \A x \in held'[mp] : word2[x] = mp
  BY <1>1, <1>3, <1>4, <1>6
<1>8. BlocksOK(mp)'
  <2> HIDE DEF rest, left2
  <2>1. Strung(block_free_count'[mp], block_list'[mp], word2, left2)
    BY <1>3, <1>5, <1>6 DEF rest
  <2> QED BY <1>1, <1>3, <1>6, <1>7, <2>1 DEF BlocksOK, word2, left2
<1> QED BY <1>3, <1>8, PoolsOKAside

LEMMA PoolIsSetUp ==
    ASSUME PoolsOK, NEW mp \in Pools, PoolSetUp(mp)
    PROVE  PoolsOK'
<1>1. DOMAIN InOrder = Blocks
  BY DEF InOrder
<1>2. /\ block_free_count'[mp] = BlockCount /\ block_list'[mp] = 1 /\ block_word'[mp] = InOrder
      /\ held'[mp] = {} /\ Aside(mp)
  BY <1>1 DEF PoolSetUp, PoolsOK, BlocksTyped, Aside
<1>3. Blocks \ {} = Blocks /\ BlockCount \in Nat
  BY PoolAssumption
<1>4. BlocksOK(mp)'
  BY <1>2, <1>3, LinkedAll DEF BlocksOK
<1> QED BY <1>2, <1>4, PoolsOKAside

LEMMA PoolsKept ==
    ASSUME PoolsOK, UNCHANGED blocks
    PROVE  PoolsOK'
BY DEF PoolsOK, BlocksOK, BlocksTyped, blocks

LEMMA PoolsOKStep ==
    ASSUME KInv, PoolsOK, PoolNext
    PROVE  PoolsOK'
<1>1. ASSUME NEW c \in Threads, PoolAlloc(c) PROVE PoolsOK'
  <2>1. Target(c) \in Pools
    BY <1>1, AtLoop, LoopObject DEF PoolAlloc, Target, Locals
  <2>2. CASE block_free_count[Target(c)] = 0
    BY <1>1, <2>2, PoolsKept DEF PoolAlloc, PoolWaits
  <2>3. PICK mp \in Pools : mp = Target(c)
    BY <2>1
  <2>4. CASE block_free_count[mp] # 0
    <3>1. BlockTaken(mp)
      BY <1>1, <2>3, <2>4 DEF PoolAlloc
    <3> QED BY <2>4, <3>1, BlockIsTaken
  <2> QED BY <2>2, <2>3, <2>4
<1>2. ASSUME NEW mp \in Pools, IsrPoolAlloc(mp) PROVE PoolsOK'
  <2>1. BlockTaken(mp) /\ block_free_count[mp] # 0
    BY <1>2 DEF IsrPoolAlloc, PoolsOK, BlocksOK
  <2> QED BY <2>1, BlockIsTaken
<1>3. ASSUME NEW c \in Threads, NEW mp \in Pools, NEW b,
             PoolFree(c, mp, b) \/ IsrPoolFree(mp, b)
      PROVE  PoolsOK'
  BY <1>3, BlockIsFreed DEF PoolFree, IsrPoolFree
<1>4. ASSUME NEW c, NEW mp \in Pools, PoolInitialise(c, mp) \/ PoolCreate(c, mp) PROVE PoolsOK'
  BY <1>4, PoolIsSetUp DEF PoolInitialise, PoolCreate
<1>5. ASSUME NEW c, NEW mp \in Pools, NEW wait,
             \/ PoolDetach(c, mp) \/ PoolDelete(c, mp) \/ PoolCall(c, mp, wait)
             \/ PoolResumeOne(c)
      PROVE  PoolsOK'
  BY <1>5, PoolsKept DEF PoolDetach, PoolDelete, PoolCall, PoolResumeOne, pvars
<1>6. ASSUME NEW c, PoolResumeOne(c) PROVE PoolsOK'
  BY <1>6, PoolsKept DEF PoolResumeOne
<1>7. Idle \in Threads
  BY KernelAssumption
<1> QED BY <1>1, <1>2, <1>3, <1>4, <1>5, <1>6, <1>7 DEF PoolNext, PoolStep

\* What is found in the free list.
LEMMA PoolsAreConserved ==
    ASSUME PoolsOK
    PROVE  BlocksAreConserved
<1> SUFFICES ASSUME NEW mp \in Pools
             PROVE  LET unused == Front(FreeBlocks(mp)) IN
                    /\ ToSet(unused) = Blocks \ held[mp] /\ IsInjective(unused)
                    /\ Last(FreeBlocks(mp)) = NoBlock
                    /\ \A b \in held[mp] : block_word[mp][b] = mp
  BY DEF BlocksAreConserved
<1> DEFINE n == block_free_count[mp]
           left == Blocks \ held[mp]
<1>1. /\ n \in Nat /\ Strung(n, block_list[mp], block_word[mp], left)
      /\ \A b \in held[mp] : block_word[mp][b] = mp
  BY DEF PoolsOK, BlocksOK
<1>2. PICK a : Numbers(a, n, block_list[mp], block_word[mp], left)
  BY <1>1 DEF Strung
<1>3. FreeBlocks(mp) = [i \in 1..n + 1 |-> a[i]]
  <2>1. left \in SUBSET Blocks
    OBVIOUS
  <2> HIDE DEF left
  <2> QED BY <1>1, <1>2, <2>1, FreeBlocksAre
<1> HIDE DEF n, left
<1>4. /\ \A i \in 1..n : a[i] \in left
      /\ a[n + 1] = NoBlock /\ a \in [Nat -> Blocks \cup {NoBlock}]
      /\ \A i, j \in 1..n : a[i] = a[j] => i = j
      /\ \A b \in left : \E i \in 1..n : a[i] = b
  BY <1>1, <1>2 DEF Numbers
<1> DEFINE s == FreeBlocks(mp)
           r == Front(s)
           X == Blocks \cup {NoBlock}
<1>5. /\ s \in Seq(X) /\ Len(s) = n + 1 /\ \A i \in 1..n + 1 : s[i] = a[i]
  <2>1. n + 1 \in Nat /\ \A i \in 1..n + 1 : a[i] \in X
    BY <1>1, <1>4
  <2> HIDE DEF X
  <2> QED BY <1>3, <2>1
<1> HIDE DEF s, X
<1>6. /\ r \in Seq(X) /\ Len(r) = n /\ \A i \in 1..n : r[i] = a[i]
  <2>1. (n + 1) - 1 = n /\ n \in Int /\ 1 \in Int
    BY <1>1
  <2>2. r = SubSeq(s, 1, n)
    BY <1>5, <2>1 DEF Front
  <2>3. \A i \in 1..n : s[i] \in X
    BY <1>5, <1>1, ElementOfSeq
  <2>4. /\ SubSeq(s, 1, n) \in Seq(X)
        /\ Len(SubSeq(s, 1, n)) = IF 1 <= n THEN n - 1 + 1 ELSE 0
        /\ \A i \in 1..n - 1 + 1 : SubSeq(s, 1, n)[i] = s[1 + i - 1]
    BY <2>1, <2>3, SubSeqProperties
  <2>5. Len(r) = n
    BY <1>1, <2>2, <2>4
  <2>6. ASSUME NEW i \in 1..n PROVE r[i] = a[i]
    <3>1. i \in 1..n - 1 + 1 /\ 1 + i - 1 = i /\ i \in 1..n + 1
      BY <1>1
    <3> QED BY <1>5, <2>2, <2>4, <3>1
  <2> QED BY <2>2, <2>4, <2>5, <2>6
<1>7. DOMAIN r = 1..n
  BY <1>6, LenProperties
<1> HIDE DEF r
<1>8. ToSet(r) = left
  BY <1>4, <1>6, <1>7 DEF ToSet
<1>9. IsInjective(r)
  BY <1>4, <1>6, <1>7 DEF IsInjective
<1>10. Last(s) = NoBlock
  <2>1. n + 1 \in 1..n + 1
    BY <1>1
  <2> QED BY <1>4, <1>5, <2>1 DEF Last
<1> QED BY <1>1, <1>8, <1>9, <1>10 DEF r, s, left

LEMMA PoolsAtStart ==
    ASSUME AllInit
    PROVE  PoolsOK
<1>1. PoolInit
  BY DEF AllInit
<1>2. /\ DOMAIN InOrder = Blocks /\ Blocks \ {} = Blocks
      /\ BlockCount \in Nat \ {0} /\ 1 \in Blocks
  BY PoolAssumption DEF InOrder, Blocks
<1>3. ASSUME NEW mp \in Pools PROVE BlocksOK(mp)
  <2>1. /\ block_free_count[mp] = BlockCount /\ block_list[mp] = 1
        /\ block_word[mp] = InOrder /\ held[mp] = {}
    BY <1>1 DEF PoolInit
  <2> QED BY <1>2, <2>1, LinkedAll DEF BlocksOK
<1>4. BlocksTyped
  BY <1>1, <1>2 DEF PoolInit, BlocksTyped
<1> QED BY <1>3, <1>4 DEF PoolsOK

LEMMA PoolsStillOK ==
    ASSUME SettledInv, PoolsOK, [AllNext]_vars
    PROVE  PoolsOK'
<1>1. CASE PoolNext
  BY <1>1, PoolsOKStep DEF SettledInv
<1>2. CASE UNCHANGED pvars
  BY <1>2, PoolsKept DEF pvars
<1>3. PoolNext \/ UNCHANGED pvars
  BY DEF AllNext, vars
<1> QED BY <1>1, <1>2, <1>3

\* Each block of a pool is in the free list once or with one user and points to its
\* pool, and the count is the length of the list: waits, timeouts, frees from
\* handlers and the deletion of the pool neither lose a block nor hand one out twice.
THEOREM BlocksAreConservedHolds == AllSpec /\ Settled => []BlocksAreConserved
<1>1. AllInit /\ Settled => SettledInv /\ PoolsOK
  BY StartIsSettled, PoolsAtStart
<1>2. SettledInv /\ PoolsOK /\ [AllNext]_vars => SettledInv' /\ PoolsOK'
  BY StepIsSettled, PoolsStillOK
<1>3. PoolsOK => BlocksAreConserved
  BY PoolsAreConserved
<1> QED BY <1>1, <1>2, <1>3, PTL DEF AllSpec

-----------------------------------------------------------------------------
(* Who waits for what is there.                                            *)

\* Only the steps of the loops themselves are turns of them.
Apart(c) == Running(c) /\ (pc[c] = <<>> \/ Head(pc[c])[1] \notin LoopLabels)

NotLooping == UNCHANGED pc \/ \E c \in Threads : Apart(c)

LEMMA LooksIs ==
    ASSUME NEW t, NEW o, NEW label, LooksNow(t, o, label)
    PROVE  /\ ~(pc' = pc) /\ pc[t] # <<>> /\ Head(pc[t])[1] = label /\ Target(t) = o
           /\ \A c : Running(c) => c = t
<1>1. PICK e \in Loops : pc[t] = <<e>> /\ e[1] = label /\ e[2] = o
  BY DEF LooksNow
<1>2. Head(pc[t]) = e /\ pc[t] # <<>>
  BY <1>1
<1> QED BY <1>1, <1>2 DEF LooksNow, Target, Running

LEMMA NobodyLooks ==
    ASSUME NotLooping, NEW t, NEW o, NEW label \in LoopLabels
    PROVE  ~LooksNow(t, o, label)
BY LooksIs DEF NotLooping, Apart

LEMMA LoopLooks ==
    ASSUME NEW c, NEW l, At(c, l), NEW t, NEW o, NEW label, LooksNow(t, o, label)
    PROVE  t = c /\ label = l /\ o = Target(c)
BY LooksIs DEF At

LEMMA CallLooks ==
    ASSUME NEW c, NEW call, Call(c, call)
    PROVE  Apart(c)
BY DEF Call, Apart

LEMMA AtLooks ==
    ASSUME NEW c, NEW label, At(c, label), label \notin LoopLabels
    PROVE  Apart(c)
BY DEF At, Apart

LEMMA KernelLooks ==
    ASSUME Next
    PROVE  NotLooping
<1> USE CallLooks, AtLooks DEF LoopLabels
<1>1. ASSUME NEW c \in Threads, ThreadStep(c) PROVE Apart(c)
  BY <1>1 DEF ThreadStep, Sched, ResumeCheck, ResumeUnlink, ResumeInsert, SuspendCheck,
              SuspendRemove, SleepReturn, DeleteRemove, DeleteTimer, DeleteClose,
              DeleteDefunct
<1>2. ASSUME NEW c \in Threads, Yield(c) \/ Sleep(c) \/ Exit(c) \/ ScheduleCall(c)
                                \/ EnterCritical(c) \/ ExitCritical(c)
      PROVE  Apart(c)
  BY <1>2 DEF Yield, Sleep, Exit, ScheduleCall, EnterCritical, ExitCritical
<1>3. ASSUME NEW c \in Threads, NEW t, NEW p,
             \/ Create(c, t) \/ Startup(c, t) \/ Delete(c, t) \/ ResumeCall(c, t)
             \/ ChangePriority(c, t, p) \/ SuspendCall(c, t)
      PROVE  Apart(c)
  BY <1>3 DEF Create, Startup, Delete, ResumeCall, ChangePriority, SuspendCall
<1>4. ASSUME IdleStep PROVE Apart(Idle) /\ Idle \in Threads
  BY <1>4, KernelAssumption DEF IdleStep, Reap, Free, Apart
<1>5. ASSUME TickStep PROVE UNCHANGED pc
  BY <1>5 DEF TickStep, TickEnter, ThreadTimeout, TickExit
<1>6. ASSUME NEW c \in Threads, ThreadCall(c) PROVE Apart(c)
  BY <1>2, <1>3, <1>6 DEF ThreadCall
<1> QED BY <1>1, <1>4, <1>5, <1>6 DEF Next, NotLooping

LEMMA CommonLooks ==
    ASSUME NEW c \in Threads, IpcStep(c) \/ Woken(c) \/ ResumeOne(c)
    PROVE  Apart(c)
BY AtLooks DEF IpcStep, ResumeAllTest, ObjectGone, ResumeOne, Woken, LoopLabels

LEMMA ObjectLooks ==
    ASSUME NEW c, NEW o, \/ InitObject(c, o) \/ CreateObject(c, o) \/ ResetObject(c, o)
                         \/ DetachObject(c, o) \/ DeleteObject(c, o)
    PROVE  Apart(c)
BY CallLooks DEF InitObject, CreateObject, MakeObject, ResetObject, DetachObject,
                 DeleteObject, EndObject

LEMMA SemaphoreLooks ==
    ASSUME SemNext
    PROVE  NotLooping
<1> USE CallLooks, AtLooks, ObjectLooks DEF LoopLabels
<1>1. ASSUME NEW c \in Threads, SemStep(c) PROVE Apart(c)
  BY <1>1 DEF SemStep, TakeReturn, SemInitialise, SemCreate, SemDetach, SemDelete, Take,
              Release, TakeWait, SemReset
<1>2. ASSUME NEW s, IsrRelease(s) PROVE UNCHANGED pc
  BY <1>2 DEF IsrRelease
<1> QED BY <1>1, <1>2 DEF SemNext, NotLooping

LEMMA EventLooks ==
    ASSUME EventNext
    PROVE  NotLooping
<1> USE CallLooks, AtLooks, ObjectLooks DEF LoopLabels
<1>1. ASSUME NEW c \in Threads, EventStep(c) PROVE Apart(c)
  BY <1>1 DEF EventStep, EventReturn, EventReset, EventInitialise, EventCreate, EventDetach,
              EventDelete, EventSend, EventRecv, EventTry, EventWait
<1>2. ASSUME NEW e, NEW bits, IsrEventSend(e, bits) PROVE UNCHANGED pc
  BY <1>2 DEF IsrEventSend
<1> QED BY <1>1, <1>2 DEF EventNext, NotLooping

LEMMA MailboxLooks ==
    ASSUME MailNext, ~\E c \in Threads : MailSend(c) \/ MailRecv(c)
    PROVE  NotLooping
<1>1. ASSUME NEW c \in Threads, MailStep(c) PROVE Apart(c)
  BY <1>1, CallLooks, ObjectLooks
     DEF MailStep, MailReset, MailInitialise, MailCreate, MailDetach, MailDelete, MailCall
<1>2. ASSUME NEW mb, NEW mail, IsrMailSend(mb, mail) PROVE UNCHANGED pc
  BY <1>2 DEF IsrMailSend
<1> QED BY <1>1, <1>2 DEF MailNext, NotLooping

LEMMA QueueLooks ==
    ASSUME QueueNext, ~\E c \in Threads : MsgRecv(c)
    PROVE  NotLooping
<1>1. ASSUME NEW c \in Threads, QueueStep(c) PROVE Apart(c)
  BY <1>1, CallLooks, AtLooks, ObjectLooks
     DEF QueueStep, MsgReset, QueueInitialise, QueueCreate, QueueDetach, QueueDelete,
         MsgTake, MsgRecvCall, MsgFill, MsgLink, MsgFree, LoopLabels
<1>2. ASSUME NEW q, NEW how, NEW text, IsrMsgSend(q, how, text) PROVE UNCHANGED pc
  BY <1>2 DEF IsrMsgSend
<1> QED BY <1>1, <1>2 DEF QueueNext, NotLooping

LEMMA PoolLooks ==
    ASSUME PoolNext, ~\E c \in Threads : PoolAlloc(c)
    PROVE  NotLooping
<1>1. ASSUME NEW c \in Threads, PoolStep(c) PROVE Apart(c)
  BY <1>1, CallLooks, ObjectLooks, CommonLooks
     DEF PoolStep, PoolInitialise, PoolCreate, PoolDetach, PoolDelete, PoolCall, PoolFree,
         PoolResumeOne
<1>2. ASSUME NEW mp, NEW b, IsrPoolAlloc(mp) \/ IsrPoolFree(mp, b) PROVE UNCHANGED pc
  BY <1>2 DEF IsrPoolAlloc, IsrPoolFree
<1> QED BY <1>1, <1>2 DEF PoolNext, NotLooping

LEMMA MutexLooks ==
    ASSUME NEW c \in Threads, MutexStep(c)
    PROVE  NotLooping
<1>1. Apart(c)
  BY CallLooks, AtLooks, ObjectLooks
     DEF MutexStep, MutexReturn, MutexInitialise, MutexCreate, MutexDetach, MutexDelete,
         MutexTake, MutexAgain, MutexTry, MutexRefused, MutexLessOne, MutexRelease, MutexWait,
         LoopLabels
<1> QED BY <1>1 DEF NotLooping

-----------------------------------------------------------------------------
\* When threads wait on l, n of what they wait for is there and at least as many
\* threads are to look again.
Covered(l, n, o, label) ==
    suspend_thread[l] # <<>> => n <= Cardinality(ToLookAgain(o, label))

LEMMA LookersFinite ==
    ASSUME NEW o, NEW label
    PROVE  /\ IsFiniteSet(ToLookAgain(o, label)) /\ IsFiniteSet(ToLookAgain(o, label)')
           /\ Cardinality(ToLookAgain(o, label)) \in Nat
           /\ Cardinality(ToLookAgain(o, label)') \in Nat
<1>1. ToLookAgain(o, label) \subseteq Threads /\ ToLookAgain(o, label)' \subseteq Threads
  BY DEF ToLookAgain
<1> QED BY <1>1, KernelAssumption, FS_Subset, FS_CardinalityType

\* Nobody looks at what is there, and not more of it is there, ...
LEMMA CoveredStill ==
    ASSUME LookStep, NEW o \in Buffers, NEW label \in LoopLabels,
           \A t : ~LooksNow(t, o, label), NEW l,
           suspend_thread[l] = <<>> => suspend_thread'[l] = <<>>,
           NEW n \in Int, NEW n2 \in Int, n2 <= n, Covered(l, n, o, label)
    PROVE  suspend_thread'[l] # <<>> => n2 <= Cardinality(ToLookAgain(o, label)')
<1> DEFINE T == ToLookAgain(o, label)
           T2 == ToLookAgain(o, label)'
<1>1. T \subseteq T2
  BY DEF LookStep
<1>2. IsFiniteSet(T2) /\ Cardinality(T) \in Nat /\ Cardinality(T2) \in Nat
  BY LookersFinite
<1>3. suspend_thread[l] # <<>> => n <= Cardinality(T)
  BY DEF Covered
<1> HIDE DEF T, T2
<1>4. Cardinality(T) <= Cardinality(T2)
  BY <1>1, <1>2, FS_Subset
<1> QED BY <1>2, <1>3, <1>4 DEF T2

\* ... one thread looks, and takes one, ...
LEMMA CoveredTake ==
    ASSUME LookStep, NEW o \in Buffers, NEW label \in LoopLabels, NEW l,
           suspend_thread[l] = <<>> => suspend_thread'[l] = <<>>,
           NEW n \in Int, NEW n2 \in Int, n2 <= n - 1, Covered(l, n, o, label)
    PROVE  suspend_thread'[l] # <<>> => n2 <= Cardinality(ToLookAgain(o, label)')
<1> DEFINE T == ToLookAgain(o, label)
           T2 == ToLookAgain(o, label)'
           c == rt_current_thread
           T3 == T2 \cup {c}
<1>1. T \subseteq T3
  BY DEF LookStep, LooksNow
<1>2. IsFiniteSet(T2) /\ Cardinality(T) \in Nat /\ Cardinality(T2) \in Nat
  BY LookersFinite
<1>3. suspend_thread[l] # <<>> => n <= Cardinality(T)
  BY DEF Covered
<1> HIDE DEF T, T2, c
<1>4. IsFiniteSet(T3) /\ Cardinality(T3) <= Cardinality(T2) + 1
  <2>1. IsFiniteSet(T3) /\ Cardinality(T3) = IF c \in T2 THEN Cardinality(T2)
                                             ELSE Cardinality(T2) + 1
    BY <1>2, FS_AddElement
  <2> QED BY <1>2, <2>1
<1>5. Cardinality(T) <= Cardinality(T3) /\ Cardinality(T3) \in Nat
  BY <1>1, <1>4, FS_Subset, FS_CardinalityType
<1> QED BY <1>2, <1>3, <1>4, <1>5 DEF T2

\* ... or one more is there, for which the first of the list is resumed.
LEMMA CoveredMore ==
    ASSUME LookStep, NEW o \in Buffers, NEW label \in LoopLabels,
           \A t : ~LooksNow(t, o, label), NEW l,
           suspend_thread[l] = <<>> => suspend_thread'[l] = <<>>,
           suspend_thread[l] # <<>> =>
              \E t : t \in ToLookAgain(o, label)' /\ t \notin ToLookAgain(o, label),
           NEW n \in Int, NEW n2 \in Int, n2 <= n + 1, Covered(l, n, o, label)
    PROVE  suspend_thread'[l] # <<>> => n2 <= Cardinality(ToLookAgain(o, label)')
<1> SUFFICES ASSUME suspend_thread'[l] # <<>>
             PROVE  n2 <= Cardinality(ToLookAgain(o, label)')
  OBVIOUS
<1> DEFINE T == ToLookAgain(o, label)
           T2 == ToLookAgain(o, label)'
<1>1. T \subseteq T2
  BY DEF LookStep
<1>2. /\ IsFiniteSet(T) /\ IsFiniteSet(T2) /\ Cardinality(T) \in Nat
      /\ Cardinality(T2) \in Nat
  BY LookersFinite
<1>3. n <= Cardinality(T)
  BY DEF Covered
<1>4. PICK t : t \in T2 /\ t \notin T
  OBVIOUS
<1> HIDE DEF T, T2
<1> DEFINE T3 == T \cup {t}
<1>5. IsFiniteSet(T3) /\ Cardinality(T3) = Cardinality(T) + 1 /\ T3 \subseteq T2
  BY <1>1, <1>2, <1>4, FS_AddElement
<1> HIDE DEF T3
<1>6. Cardinality(T3) <= Cardinality(T2)
  BY <1>2, <1>5, FS_Subset
<1> QED BY <1>2, <1>3, <1>5, <1>6 DEF T2

\* The threads of l wait in the loop on o with the given label.
Feeds(l, o, label) ==
    /\ l \in Lists /\ l \in Range(ListsOf[o]) /\ o \in Buffers /\ label \in LoopLabels
    /\ \A t \in Threads : \A w \in Waits(t) : WaitsOn(w, l) =>
          w[1] = "woken" /\ w[2] \in Loops /\ w[2][1] = label /\ w[2][2] = o

LEMMA WaitsFor ==
    ASSUME NEW t, NEW w \in Waits(t), NEW l, WaitsOn(w, l)
    PROVE  \/ l \in Semaphores \cup Mutexes \cup Events
           \/ w[1] = "woken" /\ w[2] \in Loops /\ Looks(w[2], l)
<1>1. CASE w[1] \in {"taken", "locked", "received"}
  <2>1. w[2] = l
    BY <1>1 DEF WaitsOn
  <2> QED BY <1>1, <2>1 DEF Waits
<1>2. CASE w[1] = "woken"
  <2>1. w \in {"woken"} \X Loops
    BY <1>2 DEF Waits
  <2> QED BY <1>2, <2>1 DEF WaitsOn
<1> QED BY <1>1, <1>2 DEF WaitsOn

LEMMA MailboxFeeds ==
    ASSUME NEW mb \in Mailboxes
    PROVE  Feeds(mb, mb, "mailrecv") /\ Feeds(SenderList[mb], mb, "mailsend")
<1>1. /\ mb \in Objects /\ mb \in Lists /\ SenderList[mb] \in Lists
      /\ SenderList[mb] \notin Objects
  BY MailboxLists
<1>2. mb \in Range(ListsOf[mb]) /\ SenderList[mb] \in Range(ListsOf[mb])
  <2>1. ListsOf[mb] = <<mb, SenderList[mb]>>
    BY MailboxAssumption
  <2>2. DOMAIN ListsOf[mb] = 1..2 /\ ListsOf[mb][1] = mb /\ ListsOf[mb][2] = SenderList[mb]
    BY <2>1
  <2>3. 1 \in 1..2 /\ 2 \in 1..2
    OBVIOUS
  <2> QED BY <2>2, <2>3 DEF Range
<1>3. ASSUME NEW t \in Threads, NEW w \in Waits(t), WaitsOn(w, mb)
      PROVE  w[1] = "woken" /\ w[2] \in Loops /\ w[2][1] = "mailrecv" /\ w[2][2] = mb
  <2>1. w[1] = "woken" /\ w[2] \in Loops /\ Looks(w[2], mb)
    BY <1>3, WaitsFor, KindsAssumption
  <2>2. PICK e \in Loops : e = w[2]
    BY <2>1
  <2>3. e[1] = "mailsend" => e[2] \in Mailboxes /\ SenderList[e[2]] \notin Objects
    BY LoopObject, MailboxLists
  <2>4. e[1] \in {"msgrecv", "mpalloc"} => e[2] # mb
    BY LoopObject, KindsAssumption
  <2> QED BY <1>1, <2>1, <2>2, <2>3, <2>4 DEF Looks
<1>4. ASSUME NEW t \in Threads, NEW w \in Waits(t), WaitsOn(w, SenderList[mb])
      PROVE  w[1] = "woken" /\ w[2] \in Loops /\ w[2][1] = "mailsend" /\ w[2][2] = mb
  <2>1. w[1] = "woken" /\ w[2] \in Loops /\ Looks(w[2], SenderList[mb])
    BY <1>1, <1>4, WaitsFor, SemaphoreAssumption, MutexAssumption, EventAssumption
  <2>2. PICK e \in Loops : e = w[2]
    BY <2>1
  <2>3. e[2] \in Objects
    BY LoopLists
  <2>4. e[1] = "mailsend" /\ SenderList[e[2]] = SenderList[mb]
    BY <1>1, <2>1, <2>2, <2>3 DEF Looks
  <2>5. e[2] \in Mailboxes
    BY <2>4, LoopObject
  <2>6. PICK nb \in Mailboxes : nb = e[2]
    BY <2>5
  <2>7. SenderList[nb] \in Range(ListsOf[nb])
    <3>1. ListsOf[nb] = <<nb, SenderList[nb]>>
      BY MailboxAssumption
    <3>2. DOMAIN ListsOf[nb] = 1..2 /\ ListsOf[nb][2] = SenderList[nb] /\ 2 \in 1..2
      BY <3>1
    <3> QED BY <3>2 DEF Range
  <2>8. nb \in Objects
    BY <2>3, <2>6
  <2>9. Range(ListsOf[nb]) \cap Range(ListsOf[mb]) # {}
    BY <1>2, <2>4, <2>6, <2>7
  <2>10. nb = mb
    BY <1>1, <2>8, <2>9, IpcAssumption
  <2> QED BY <2>1, <2>2, <2>4, <2>6, <2>10
<1> QED BY <1>1, <1>2, <1>3, <1>4 DEF Feeds, Buffers, LoopLabels

LEMMA OneListed ==
    ASSUME NEW o \in Queues \cup Pools
    PROVE  o \in Lists /\ o \in Range(ListsOf[o]) /\ Range(ListsOf[o]) = {o}
           /\ o \notin Semaphores \cup Mutexes \cup Events \cup Mailboxes
<1>1. /\ o \in Objects \ Mailboxes /\ o \in Lists
      /\ o \notin Semaphores \cup Mutexes \cup Events
  BY QueueLists, PoolLists, KindsAssumption
<1>2. ListsOf[o] = <<o>>
  BY <1>1, KindsAssumption
<1>3. DOMAIN ListsOf[o] = {1} /\ ListsOf[o][1] = o
  BY <1>2
<1> QED BY <1>1, <1>3 DEF Range

LEMMA OtherFeeds ==
    ASSUME NEW o \in Queues \cup Pools, NEW label \in {"msgrecv", "mpalloc"},
           o \in Queues <=> label = "msgrecv"
    PROVE  Feeds(o, o, label)
<1>1. /\ o \in Lists /\ o \in Range(ListsOf[o]) /\ o \in Objects
      /\ o \notin Semaphores \cup Mutexes \cup Events \cup Mailboxes
  BY OneListed, QueueLists, PoolLists
<1>2. ASSUME NEW t \in Threads, NEW w \in Waits(t), WaitsOn(w, o)
      PROVE  w[1] = "woken" /\ w[2] \in Loops /\ w[2][1] = label /\ w[2][2] = o
  <2>1. w[1] = "woken" /\ w[2] \in Loops /\ Looks(w[2], o)
    BY <1>1, <1>2, WaitsFor
  <2>2. PICK e \in Loops : e = w[2]
    BY <2>1
  <2>3. e[1] = "mailsend" => e[2] \in Mailboxes /\ SenderList[e[2]] \notin Objects
    BY LoopObject, MailboxLists
  <2>4. /\ e[1] = "mailrecv" => e[2] \in Mailboxes
        /\ e[1] = "msgrecv" => e[2] \in Queues
        /\ e[1] = "mpalloc" => e[2] \in Pools
    BY LoopObject
  <2>5. e[2] = o /\ e[1] \in {"msgrecv", "mpalloc"}
    BY <1>1, <2>1, <2>2, <2>3, <2>4 DEF Looks
  <2> QED BY <2>1, <2>2, <2>4, <2>5, KindsAssumption
<1> QED BY <1>1, <1>2 DEF Feeds, Buffers, LoopLabels

\* The first of the list, resumed, is then one to look again.
LEMMA HeadLooks ==
    ASSUME KInv, NEW l, NEW o, NEW label, Feeds(l, o, label), suspend_thread[l] # <<>>,
           Less(suspend_thread', suspend_thread, First(l)),
           \A t \in First(l) : error'[t] = "EOK" /\ pc'[t] = pc[t]
    PROVE  \E t : t \in ToLookAgain(o, label)' /\ t \notin ToLookAgain(o, label)
<1> DEFINE h == Head(suspend_thread[l])
<1>1. l \in Lists /\ o \in Buffers /\ label \in LoopLabels /\ l \in Range(ListsOf[o])
  BY DEF Feeds
<1>2. h \in First(l) /\ h \in Threads /\ h \in Range(suspend_thread[l])
  BY <1>1, LessByHead DEF KInv, First
<1> HIDE DEF h
<1>3. PICK w \in Waits(h) : InWait(h, w) /\ WaitsOn(w, l)
  BY <1>1, <1>2 DEF KInv, WaitersAreCalling
<1>4. w[1] = "woken" /\ w[2] \in Loops /\ w[2][1] = label /\ w[2][2] = o
  BY <1>2, <1>3 DEF Feeds
<1>5. Range(ListsOf[o]) \subseteq Lists
  BY <1>4, LoopLists
<1>6. h \notin ToLookAgain(o, label)
  <2> SUFFICES ASSUME h \in ToLookAgain(o, label) PROVE FALSE
    OBVIOUS
  <2>1. PICK e \in Loops :
              e[1] = label /\ e[2] = o /\ (pc[h] = <<e>> \/ ComesBack(h, e))
    BY <1>1, LookerIs
  <2>2. CASE pc[h] = <<e>>
    <3>1. e = w \/ e = Again(h)
      BY <1>3, <2>2 DEF InWait
    <3> QED BY <1>1, <1>4, <2>1, <3>1, Tags DEF LoopLabels
  <2>3. CASE ComesBack(h, e)
    BY <1>1, <1>2, <2>1, <2>3 DEF ComesBack
  <2> QED BY <2>1, <2>2, <2>3
<1>7. PICK i \in DOMAIN pc[h] : pc[h][i] = w
  BY <1>3 DEF InWait
<1>8. h \in ToLookAgain(o, label)'
  <2>1. \A k \in Range(ListsOf[o]) : h \notin Range(suspend_thread'[k])
    BY <1>2, <1>5 DEF Less
  <2>2. i \in DOMAIN pc'[h] /\ pc'[h][i] = w /\ error'[h] = "EOK"
    BY <1>2, <1>7
  <2> QED BY <1>2, <1>4, <2>1, <2>2 DEF ToLookAgain
<1> QED BY <1>6, <1>8

\* A step that begins no wait on the lists of S and is no turn of a loop with a
\* label of L.
Spares(S, L) == /\ KStep(Lists \ S)
                /\ \A label \in L : \A t, o : ~LooksNow(t, o, label)

LEMMA SparesAre ==
    ASSUME NEW T, KStep(T), NEW L,
           \A label \in L : \A t, o : ~LooksNow(t, o, label),
           NEW S, S \subseteq Lists, S \cap T = {}, T \subseteq Lists
    PROVE  Spares(S, L)
BY KStepMore DEF Spares

\* A step that is none of a kind of objects spares the waiters of that kind.
LEMMA OthersSpare ==
    ASSUME SettledInv, [AllNext]_vars
    PROVE  /\ SemNext \/ (UNCHANGED svars /\ Spares(Semaphores, {}))
           /\ EventNext \/ (UNCHANGED evars /\ Spares(Events, {}))
           /\ MailNext \/ (UNCHANGED bvars /\ Spares(MailLists, {"mailsend", "mailrecv"}))
           /\ QueueNext \/ (UNCHANGED qvars /\ Spares(Queues, {"msgrecv"}))
           /\ PoolNext \/ (UNCHANGED pvars /\ Spares(Pools, {"mpalloc"}))
<1>1. KInv /\ api \in Apis
  BY DEF SettledInv
<1>2. /\ Semaphores \subseteq Lists /\ Events \subseteq Lists /\ MailLists \subseteq Lists
      /\ Queues \subseteq Lists /\ Pools \subseteq Lists /\ Mutexes \subseteq Lists
  BY ElsewhereIs, SemaphoreAssumption, MutexAssumption, IpcAssumption DEF Elsewhere
<1>3. /\ Mutexes \cap (Semaphores \cup Events \cup MailLists \cup Queues \cup Pools) = {}
      /\ Semaphores \cap (Events \cup MailLists \cup Queues \cup Pools) = {}
      /\ Events \cap (Queues \cup Pools) = {} /\ Queues \cap Pools = {}
  BY ElsewhereIs, KindsAssumption DEF Elsewhere
<1>4. MailLists \cap (Events \cup Queues \cup Pools) = {}
  BY KindsAssumption, EventLists, QueueLists, PoolLists, MailboxLists DEF MailLists
<1>5. ASSUME NEW T \in {{}, Mutexes, Semaphores, Events, MailLists, Queues, Pools}, KStep(T),
             NEW M, \A t, o : \A label \in LoopLabels \ M : ~LooksNow(t, o, label)
      PROVE  \A S \in {Semaphores, Events, MailLists, Queues, Pools} :
                \A L \in SUBSET LoopLabels :
                   S \cap T = {} /\ L \cap M = {} => Spares(S, L)
  <2> TAKE S \in {Semaphores, Events, MailLists, Queues, Pools}
  <2> TAKE L \in SUBSET LoopLabels
  <2> HAVE S \cap T = {} /\ L \cap M = {}
  <2>1. S \subseteq Lists /\ T \subseteq Lists
    BY <1>2
  <2>2. \A label \in L : \A t, o : ~LooksNow(t, o, label)
    BY <1>5
  <2> QED BY <1>5, <2>1, <2>2, SparesAre
<1>6. /\ {"mailsend", "mailrecv"} \in SUBSET LoopLabels /\ {"msgrecv"} \in SUBSET LoopLabels
      /\ {"mpalloc"} \in SUBSET LoopLabels /\ {} \in SUBSET LoopLabels
  BY DEF LoopLabels
<1>7. ASSUME KStep({}) \/ KStep(Mutexes), NotLooping,
             UNCHANGED <<svars, evars, bvars, qvars, pvars>>
      PROVE  /\ UNCHANGED svars /\ Spares(Semaphores, {})
             /\ UNCHANGED evars /\ Spares(Events, {})
             /\ UNCHANGED bvars /\ Spares(MailLists, {"mailsend", "mailrecv"})
             /\ UNCHANGED qvars /\ Spares(Queues, {"msgrecv"})
             /\ UNCHANGED pvars /\ Spares(Pools, {"mpalloc"})
  <2>1. PICK T \in {{}, Mutexes} : KStep(T)
    BY <1>7
  <2>2. \A t, o : \A label \in LoopLabels \ {} : ~LooksNow(t, o, label)
    BY <1>7, NobodyLooks
  <2> QED BY <1>3, <1>5, <1>6, <1>7, <2>1, <2>2
<1>8. CASE UNCHANGED vars
  <2>1. KStep({}) /\ NotLooping
    BY <1>1, <1>8, StillStep DEF vars, NotLooping, kvars
  <2> QED BY <1>7, <1>8, <2>1 DEF vars
<1>9. CASE Next /\ UNCHANGED <<ipcvars, svars, mvars, evars, bvars, qvars, pvars>>
  <2>1. KStep({}) /\ NotLooping
    BY <1>1, <1>9, KernelStep, KernelLooks DEF SettledInv
  <2> QED BY <1>7, <1>9, <2>1
<1>10. CASE /\ \E c \in Threads : IpcStep(c) \/ Woken(c)
            /\ UNCHANGED <<api, svars, mvars, evars, bvars, qvars, pvars>>
  <2>1. KStep({})
    BY <1>1, <1>10, ResumeAllTestStep, ObjectGoneStep, ResumeOneStep, WokenStep DEF IpcStep
  <2>2. NotLooping
    BY <1>10, CommonLooks DEF NotLooping
  <2> QED BY <1>7, <1>10, <2>1, <2>2
<1>11. CASE SemNext /\ UNCHANGED <<api, mvars, evars, bvars, qvars, pvars>>
  <2>1. KStep(Semaphores) /\ NotLooping
    BY <1>1, <1>11, SemaphoreStep, SemaphoreLooks
  <2>2. \A t, o : \A label \in LoopLabels \ {} : ~LooksNow(t, o, label)
    BY <2>1, NobodyLooks
  <2>3. \A S \in {Semaphores, Events, MailLists, Queues, Pools} :
           \A L \in SUBSET LoopLabels :
              S \cap Semaphores = {} /\ L \cap {} = {} => Spares(S, L)
    <3> DEFINE T == Semaphores
               M == {}
    <3>1. /\ T \in {{}, Mutexes, Semaphores, Events, MailLists, Queues, Pools} /\ KStep(T)
          /\ \A t, o : \A label \in LoopLabels \ M : ~LooksNow(t, o, label)
      BY <2>1, <2>2
    <3> HIDE DEF T, M
    <3>2. \A S \in {Semaphores, Events, MailLists, Queues, Pools} :
             \A L \in SUBSET LoopLabels :
                S \cap T = {} /\ L \cap M = {} => Spares(S, L)
      BY ONLY <1>5, <3>1
    <3> QED BY <3>2 DEF T, M
  <2>4. /\ Events \cap Semaphores = {}
        /\ MailLists \cap Semaphores = {}
        /\ Queues \cap Semaphores = {}
        /\ Pools \cap Semaphores = {}
    BY <1>3, <1>4
  <2>5. /\ {} \cap {} = {}
        /\ {"mailsend", "mailrecv"} \cap {} = {}
        /\ {"msgrecv"} \cap {} = {}
        /\ {"mpalloc"} \cap {} = {}
    OBVIOUS
  <2>6. /\ Spares(Events, {})
        /\ Spares(MailLists, {"mailsend", "mailrecv"})
        /\ Spares(Queues, {"msgrecv"})
        /\ Spares(Pools, {"mpalloc"})
    BY ONLY <1>6, <2>3, <2>4, <2>5
  <2> QED BY <1>11, <2>6
<1>12. CASE /\ \E c \in Threads : MutexStep(c)
            /\ UNCHANGED <<api, svars, evars, bvars, qvars, pvars>>
  <2>1. KStep(Mutexes) /\ NotLooping
    BY <1>1, <1>12, MutexesStep, MutexLooks DEF SettledInv
  <2> QED BY <1>7, <1>12, <2>1
<1>13. CASE EventNext /\ UNCHANGED <<api, svars, mvars, bvars, qvars, pvars>>
  <2>1. KStep(Events) /\ NotLooping
    BY <1>1, <1>13, EventsStep, EventLooks
  <2>2. \A t, o : \A label \in LoopLabels \ {} : ~LooksNow(t, o, label)
    BY <2>1, NobodyLooks
  <2>3. \A S \in {Semaphores, Events, MailLists, Queues, Pools} :
           \A L \in SUBSET LoopLabels :
              S \cap Events = {} /\ L \cap {} = {} => Spares(S, L)
    <3> DEFINE T == Events
               M == {}
    <3>1. /\ T \in {{}, Mutexes, Semaphores, Events, MailLists, Queues, Pools} /\ KStep(T)
          /\ \A t, o : \A label \in LoopLabels \ M : ~LooksNow(t, o, label)
      BY <2>1, <2>2
    <3> HIDE DEF T, M
    <3>2. \A S \in {Semaphores, Events, MailLists, Queues, Pools} :
             \A L \in SUBSET LoopLabels :
                S \cap T = {} /\ L \cap M = {} => Spares(S, L)
      BY ONLY <1>5, <3>1
    <3> QED BY <3>2 DEF T, M
  <2>4. /\ Semaphores \cap Events = {}
        /\ MailLists \cap Events = {}
        /\ Queues \cap Events = {}
        /\ Pools \cap Events = {}
    BY <1>3, <1>4
  <2>5. /\ {} \cap {} = {}
        /\ {"mailsend", "mailrecv"} \cap {} = {}
        /\ {"msgrecv"} \cap {} = {}
        /\ {"mpalloc"} \cap {} = {}
    OBVIOUS
  <2>6. /\ Spares(Semaphores, {})
        /\ Spares(MailLists, {"mailsend", "mailrecv"})
        /\ Spares(Queues, {"msgrecv"})
        /\ Spares(Pools, {"mpalloc"})
    BY ONLY <1>6, <2>3, <2>4, <2>5
  <2> QED BY <1>13, <2>6
<1>14. CASE MailNext /\ UNCHANGED <<api, svars, mvars, evars, qvars, pvars>>
  <2>1. KStep(MailLists)
    BY <1>1, <1>14, MailboxesStep
  <2>2. \A t, o : \A label \in LoopLabels \ {"mailsend", "mailrecv"} : ~LooksNow(t, o, label)
    <3>1. CASE \E c \in Threads : MailSend(c) \/ MailRecv(c)
      BY <3>1, LoopLooks DEF MailSend, MailRecv
    <3>2. CASE ~\E c \in Threads : MailSend(c) \/ MailRecv(c)
      BY <1>14, <3>2, MailboxLooks, NobodyLooks
    <3> QED BY <3>1, <3>2
  <2>3. \A S \in {Semaphores, Events, MailLists, Queues, Pools} :
           \A L \in SUBSET LoopLabels :
              S \cap MailLists = {} /\ L \cap {"mailsend", "mailrecv"} = {} => Spares(S, L)
    <3> DEFINE T == MailLists
               M == {"mailsend", "mailrecv"}
    <3>1. /\ T \in {{}, Mutexes, Semaphores, Events, MailLists, Queues, Pools} /\ KStep(T)
          /\ \A t, o : \A label \in LoopLabels \ M : ~LooksNow(t, o, label)
      BY <2>1, <2>2
    <3> HIDE DEF T, M
    <3>2. \A S \in {Semaphores, Events, MailLists, Queues, Pools} :
             \A L \in SUBSET LoopLabels :
                S \cap T = {} /\ L \cap M = {} => Spares(S, L)
      BY ONLY <1>5, <3>1
    <3> QED BY <3>2 DEF T, M
  <2>4. /\ Semaphores \cap MailLists = {}
        /\ Events \cap MailLists = {}
        /\ Queues \cap MailLists = {}
        /\ Pools \cap MailLists = {}
    BY <1>3, <1>4
  <2>5. /\ {} \cap {"mailsend", "mailrecv"} = {}
        /\ {"msgrecv"} \cap {"mailsend", "mailrecv"} = {}
        /\ {"mpalloc"} \cap {"mailsend", "mailrecv"} = {}
    OBVIOUS
  <2>6. /\ Spares(Semaphores, {})
        /\ Spares(Events, {})
        /\ Spares(Queues, {"msgrecv"})
        /\ Spares(Pools, {"mpalloc"})
    BY ONLY <1>6, <2>3, <2>4, <2>5
  <2> QED BY <1>14, <2>6
<1>15. CASE QueueNext /\ UNCHANGED <<api, svars, mvars, evars, bvars, pvars>>
  <2>1. KStep(Queues)
    BY <1>1, <1>15, QueuesStep
  <2>2. \A t, o : \A label \in LoopLabels \ {"msgrecv"} : ~LooksNow(t, o, label)
    <3>1. CASE \E c \in Threads : MsgRecv(c)
      BY <3>1, LoopLooks DEF MsgRecv
    <3>2. CASE ~\E c \in Threads : MsgRecv(c)
      BY <1>15, <3>2, QueueLooks, NobodyLooks
    <3> QED BY <3>1, <3>2
  <2>3. \A S \in {Semaphores, Events, MailLists, Queues, Pools} :
           \A L \in SUBSET LoopLabels :
              S \cap Queues = {} /\ L \cap {"msgrecv"} = {} => Spares(S, L)
    <3> DEFINE T == Queues
               M == {"msgrecv"}
    <3>1. /\ T \in {{}, Mutexes, Semaphores, Events, MailLists, Queues, Pools} /\ KStep(T)
          /\ \A t, o : \A label \in LoopLabels \ M : ~LooksNow(t, o, label)
      BY <2>1, <2>2
    <3> HIDE DEF T, M
    <3>2. \A S \in {Semaphores, Events, MailLists, Queues, Pools} :
             \A L \in SUBSET LoopLabels :
                S \cap T = {} /\ L \cap M = {} => Spares(S, L)
      BY ONLY <1>5, <3>1
    <3> QED BY <3>2 DEF T, M
  <2>4. /\ Semaphores \cap Queues = {}
        /\ Events \cap Queues = {}
        /\ MailLists \cap Queues = {}
        /\ Pools \cap Queues = {}
    BY <1>3, <1>4
  <2>5. /\ {} \cap {"msgrecv"} = {}
        /\ {"mailsend", "mailrecv"} \cap {"msgrecv"} = {}
        /\ {"mpalloc"} \cap {"msgrecv"} = {}
    OBVIOUS
  <2>6. /\ Spares(Semaphores, {})
        /\ Spares(Events, {})
        /\ Spares(MailLists, {"mailsend", "mailrecv"})
        /\ Spares(Pools, {"mpalloc"})
    BY ONLY <1>6, <2>3, <2>4, <2>5
  <2> QED BY <1>15, <2>6
<1>16. CASE PoolNext /\ UNCHANGED <<api, svars, mvars, evars, bvars, qvars>>
  <2>1. KStep(Pools)
    BY <1>1, <1>16, PoolsStep
  <2>2. \A t, o : \A label \in LoopLabels \ {"mpalloc"} : ~LooksNow(t, o, label)
    <3>1. CASE \E c \in Threads : PoolAlloc(c)
      BY <3>1, LoopLooks DEF PoolAlloc
    <3>2. CASE ~\E c \in Threads : PoolAlloc(c)
      BY <1>16, <3>2, PoolLooks, NobodyLooks
    <3> QED BY <3>1, <3>2
  <2>3. \A S \in {Semaphores, Events, MailLists, Queues, Pools} :
           \A L \in SUBSET LoopLabels :
              S \cap Pools = {} /\ L \cap {"mpalloc"} = {} => Spares(S, L)
    <3> DEFINE T == Pools
               M == {"mpalloc"}
    <3>1. /\ T \in {{}, Mutexes, Semaphores, Events, MailLists, Queues, Pools} /\ KStep(T)
          /\ \A t, o : \A label \in LoopLabels \ M : ~LooksNow(t, o, label)
      BY <2>1, <2>2
    <3> HIDE DEF T, M
    <3>2. \A S \in {Semaphores, Events, MailLists, Queues, Pools} :
             \A L \in SUBSET LoopLabels :
                S \cap T = {} /\ L \cap M = {} => Spares(S, L)
      BY ONLY <1>5, <3>1
    <3> QED BY <3>2 DEF T, M
  <2>4. /\ Semaphores \cap Pools = {}
        /\ Events \cap Pools = {}
        /\ MailLists \cap Pools = {}
        /\ Queues \cap Pools = {}
    BY <1>3, <1>4
  <2>5. /\ {} \cap {"mpalloc"} = {}
        /\ {"mailsend", "mailrecv"} \cap {"mpalloc"} = {}
        /\ {"msgrecv"} \cap {"mpalloc"} = {}
    OBVIOUS
  <2>6. /\ Spares(Semaphores, {})
        /\ Spares(Events, {})
        /\ Spares(MailLists, {"mailsend", "mailrecv"})
        /\ Spares(Queues, {"msgrecv"})
    BY ONLY <1>6, <2>3, <2>4, <2>5
  <2> QED BY <1>16, <2>6
<1> QED BY <1>8, <1>9, <1>10, <1>11, <1>12, <1>13, <1>14, <1>15, <1>16 DEF AllNext

\* A thread that begins to wait is one more of the list.
LEMMA EnqueuedIs ==
    ASSUME KInv, NEW l \in Lists, NEW c \in Threads
    PROVE  Range(Enqueued(l, c)) = Range(suspend_thread[l]) \cup {c}
<1>1. suspend_thread[l] \in Seq(Threads)
  BY DEF KInv, WaitersOK
<1>2. CASE l \in Newest
  BY <1>1, <1>2, ConsRange DEF Enqueued
<1>3. CASE l \notin Newest
  <2>1. current_priority \in [Threads -> Prios]
    BY DEF KInv, Regular, TcbOK
  <2> QED BY <1>1, <1>3, <2>1, EnqueuedInIs DEF Enqueued
<1> QED BY <1>2, <1>3

LEMMA LessEmpty ==
    ASSUME NEW W, Less(suspend_thread', suspend_thread, W), NEW l \in Lists,
           suspend_thread[l] = <<>>
    PROVE  suspend_thread'[l] = <<>>
<1>1. suspend_thread'[l] \in Seq(Threads)
  BY DEF Less
<1>2. Range(suspend_thread[l]) = {}
  BY EmptySeq DEF Range
<1>3. Range(suspend_thread'[l]) = {}
  BY <1>2 DEF Less
<1>4. CASE suspend_thread'[l] # <<>>
  <2>1. 1 \in DOMAIN suspend_thread'[l]
    BY <1>1, <1>4, LenProperties, EmptySeq
  <2> QED BY <1>3, <2>1 DEF Range
<1> QED BY <1>4

\* A turn that finds nothing leaves the other lists as they are.
LEMMA LoopEmpty ==
    ASSUME KInv, NEW c, NEW l \in Lists, NEW err, LoopWaits(c, l, err),
           NEW k \in Lists, k # l
    PROVE  suspend_thread'[k] = suspend_thread[k]
<1>1. suspend_thread \in [Lists -> Seq(Threads)]
  BY DEF KInv, WaitersOK
<1>2. \/ suspend_thread' = [suspend_thread EXCEPT ![l] = Enqueued(l, c)]
      \/ suspend_thread' = suspend_thread
  BY DEF LoopWaits, Wait, WaitOn, Suspended
<1> QED BY <1>1, <1>2

LEMMA ResetEmpty ==
    ASSUME KInv, NEW c, NEW o \in Objects, ResetObject(c, o), NEW l \in Range(ListsOf[o])
    PROVE  suspend_thread'[l] = <<>>
<1>1. l \in Lists
  BY ObjectLists
<1> QED BY <1>1 DEF ResetObject

LEMMA MadeEmpty ==
    ASSUME NEW c, NEW o \in Objects, InitObject(c, o) \/ CreateObject(c, o),
           NEW l \in Range(ListsOf[o])
    PROVE  suspend_thread'[l] = <<>>
BY DEF InitObject, CreateObject, MakeObject, Deserted, kvars, lists

\* The first that waits is resumed for one more.
LEMMA CoveredResumed ==
    ASSUME KInv, NEW l, NEW o, NEW label, Feeds(l, o, label), LookStep,
           \A t : ~LooksNow(t, o, label), FirstResumed(l), UNCHANGED current_priority,
           \A t \in First(l) : error'[t] = error[t] /\ pc'[t] = pc[t],
           NEW n \in Int, NEW n2 \in Int, n2 <= n + 1, Covered(l, n, o, label)
    PROVE  suspend_thread'[l] # <<>> => n2 <= Cardinality(ToLookAgain(o, label)')
<1>1. l \in Lists /\ o \in Buffers /\ label \in LoopLabels
  BY DEF Feeds
<1>2. Less(suspend_thread', suspend_thread, First(l))
  BY <1>1, FirstIsResumed DEF Resumes
<1>3. suspend_thread[l] = <<>> => suspend_thread'[l] = <<>>
  BY <1>1, <1>2, LessEmpty
<1>4. ASSUME suspend_thread[l] # <<>>
      PROVE  \E t : t \in ToLookAgain(o, label)' /\ t \notin ToLookAgain(o, label)
  <2>1. \A t \in First(l) : t \in Range(suspend_thread[l])
    BY <1>1, <1>4, LessByHead DEF KInv, First
  <2>2. \A t \in First(l) : error'[t] = "EOK" /\ pc'[t] = pc[t]
    BY <1>1, <2>1 DEF KInv, WaitersAreCalling
  <2> QED BY <1>2, <1>4, <2>2, HeadLooks
<1> QED BY <1>1, <1>3, <1>4, CoveredMore

\* It is not the one that runs.
LEMMA FirstKeeps ==
    ASSUME KInv, NEW l \in Lists, NEW c \in Threads, stat[c] = "READY", Moves(c)
    PROVE  \A t \in First(l) : pc'[t] = pc[t]
<1>1. CASE suspend_thread[l] # <<>>
  <2>1. \A t \in First(l) : t \in Threads /\ stat[t] = "SUSPEND"
    BY <1>1, LessByHead DEF KInv, First
  <2> QED BY <2>1 DEF Moves
<1>2. CASE suspend_thread[l] = <<>>
  BY <1>2 DEF First
<1> QED BY <1>1, <1>2

-----------------------------------------------------------------------------
(* The mailboxes.                                                          *)
MailOK(mb) == /\ entry[mb] \in Int
              /\ Covered(mb, entry[mb], mb, "mailrecv")
              /\ Covered(SenderList[mb], Size - entry[mb], mb, "mailsend")

MailsOK == DOMAIN entry = Mailboxes /\ \A mb \in Mailboxes : MailOK(mb)

LEMMA MailOKNext ==
    ASSUME NEW mb \in Mailboxes, entry'[mb] \in Int,
           suspend_thread'[mb] # <<>> =>
              entry'[mb] <= Cardinality(ToLookAgain(mb, "mailrecv")'),
           suspend_thread'[SenderList[mb]] # <<>> =>
              Size - entry'[mb] <= Cardinality(ToLookAgain(mb, "mailsend")')
    PROVE  MailOK(mb)'
BY DEF MailOK, Covered

\* Other mailboxes.
LEMMA MailOKStill ==
    ASSUME LookStep, NEW mb \in Mailboxes, MailOK(mb), entry'[mb] = entry[mb],
           \A label \in {"mailsend", "mailrecv"} : \A t : ~LooksNow(t, mb, label),
           \A l \in {mb, SenderList[mb]} :
              suspend_thread[l] = <<>> => suspend_thread'[l] = <<>>
    PROVE  MailOK(mb)'
<1>1. /\ mb \in Buffers /\ "mailrecv" \in LoopLabels /\ "mailsend" \in LoopLabels
      /\ entry[mb] \in Int /\ Size - entry[mb] \in Int
      /\ Covered(mb, entry[mb], mb, "mailrecv")
      /\ Covered(SenderList[mb], Size - entry[mb], mb, "mailsend")
  BY MailboxAssumption DEF Buffers, LoopLabels, MailOK
<1>2. suspend_thread'[mb] # <<>> => entry[mb] <= Cardinality(ToLookAgain(mb, "mailrecv")')
  BY <1>1, CoveredStill
<1>3. suspend_thread'[SenderList[mb]] # <<>> =>
         Size - entry[mb] <= Cardinality(ToLookAgain(mb, "mailsend")')
  BY <1>1, CoveredStill
<1> QED BY <1>1, <1>2, <1>3, MailOKNext

LEMMA MailboxesApart ==
    ASSUME NEW mb \in Mailboxes, NEW nb \in Mailboxes, nb # mb
    PROVE  {nb, SenderList[nb]} \cap {mb, SenderList[mb]} = {}
<1>1. /\ mb \in Range(ListsOf[mb]) /\ SenderList[mb] \in Range(ListsOf[mb])
      /\ nb \in Range(ListsOf[nb]) /\ SenderList[nb] \in Range(ListsOf[nb])
  BY MailboxFeeds DEF Feeds
<1>2. mb \in Objects /\ nb \in Objects
  BY MailboxLists
<1>3. Range(ListsOf[mb]) \cap Range(ListsOf[nb]) = {}
  BY <1>2, IpcAssumption
<1> QED BY <1>1, <1>3

\* A turn that finds the mailbox mb as it is waited for.
LEMMA MailWaits ==
    ASSUME KInv, LookStep, NEW c \in Threads, NEW mb \in Mailboxes, Target(c) = mb,
           NEW label \in {"mailsend", "mailrecv"}, At(c, label), NEW l,
           l = IF label = "mailsend" THEN SenderList[mb] ELSE mb,
           IF label = "mailsend" THEN entry[mb] = Size ELSE entry[mb] = 0,
           NEW err, LoopWaits(c, l, err), UNCHANGED bvars, MailsOK
    PROVE  MailsOK'
<1>1. /\ \A nb \in Mailboxes : nb \in Lists /\ SenderList[nb] \in Lists
      /\ mb # SenderList[mb] /\ l \in {mb, SenderList[mb]} /\ entry' = entry
  BY MailboxLists DEF bvars
<1>2. \A k \in Lists \ {l} : suspend_thread'[k] = suspend_thread[k]
  BY <1>1, LoopEmpty
<1>3. \A t, o, lab : LooksNow(t, o, lab) => lab = label /\ o = mb
  BY LoopLooks
<1>4. ASSUME NEW nb \in Mailboxes, nb # mb PROVE MailOK(nb)'
  <2>1. nb # l /\ SenderList[nb] # l
    BY <1>1, <1>4, MailboxesApart
  <2>2. \A k \in {nb, SenderList[nb]} : suspend_thread[k] = <<>> => suspend_thread'[k] = <<>>
    BY <1>1, <1>2, <2>1
  <2>3. \A lab \in {"mailsend", "mailrecv"} : \A t : ~LooksNow(t, nb, lab)
    BY <1>3, <1>4
  <2> QED BY <1>1, <2>2, <2>3, MailOKStill DEF MailsOK
<1>5. /\ mb \in Buffers /\ "mailrecv" \in LoopLabels /\ "mailsend" \in LoopLabels
      /\ entry[mb] \in Int /\ Size - entry[mb] \in Int /\ Size \in Nat
      /\ Covered(mb, entry[mb], mb, "mailrecv")
      /\ Covered(SenderList[mb], Size - entry[mb], mb, "mailsend")
  BY MailboxAssumption DEF Buffers, LoopLabels, MailOK, MailsOK
<1>6. MailOK(mb)'
  <2>1. CASE label = "mailsend"
    <3>1. suspend_thread'[mb] = suspend_thread[mb] /\ \A t : ~LooksNow(t, mb, "mailrecv")
      BY <1>1, <1>2, <1>3, <2>1
    <3>2. suspend_thread'[mb] # <<>> => entry[mb] <= Cardinality(ToLookAgain(mb, "mailrecv")')
      BY <1>5, <3>1, CoveredStill
    <3>3. Size - entry'[mb] <= Cardinality(ToLookAgain(mb, "mailsend")')
      BY <1>1, <1>5, <2>1, LookersFinite
    <3> QED BY <1>1, <1>5, <3>2, <3>3, MailOKNext
  <2>2. CASE label = "mailrecv"
    <3>1. suspend_thread'[SenderList[mb]] = suspend_thread[SenderList[mb]]
          /\ \A t : ~LooksNow(t, mb, "mailsend")
      BY <1>1, <1>2, <1>3, <2>2
    <3>2. suspend_thread'[SenderList[mb]] # <<>> =>
             Size - entry[mb] <= Cardinality(ToLookAgain(mb, "mailsend")')
      BY <1>5, <3>1, CoveredStill
    <3>3. entry'[mb] <= Cardinality(ToLookAgain(mb, "mailrecv")')
      BY <1>1, <1>5, <2>2, LookersFinite
    <3> QED BY <1>1, <1>5, <3>2, <3>3, MailOKNext
  <2> QED BY <2>1, <2>2
<1> QED BY <1>1, <1>4, <1>6 DEF MailsOK

\* A mail is there, and the first receiver is resumed.
LEMMA MailIsPosted ==
    ASSUME KInv, LookStep, MailsOK, NEW mb \in Mailboxes, NEW mail, Posted(mb, mail),
           UNCHANGED <<current_priority, error>>, \A t \in First(mb) : pc'[t] = pc[t],
           \A t, o, label : LooksNow(t, o, label) => label = "mailsend" /\ o = mb
    PROVE  MailsOK'
<1>1. /\ \A nb \in Mailboxes : nb \in Lists /\ SenderList[nb] \in Lists
      /\ entry' = [entry EXCEPT ![mb] = @ + 1] /\ FirstResumed(mb)
  BY MailboxLists DEF Posted
<1>2. Less(suspend_thread', suspend_thread, First(mb))
  BY <1>1, FirstIsResumed DEF Resumes
<1>3. \A k \in Lists : suspend_thread[k] = <<>> => suspend_thread'[k] = <<>>
  BY <1>2, LessEmpty
<1>4. ASSUME NEW nb \in Mailboxes, nb # mb PROVE MailOK(nb)'
  <2>1. entry'[nb] = entry[nb] /\ MailOK(nb)
    BY <1>1, <1>4 DEF MailsOK
  <2>2. \A lab \in {"mailsend", "mailrecv"} : \A t : ~LooksNow(t, nb, lab)
    BY <1>4
  <2> QED BY <1>1, <1>3, <2>1, <2>2, MailOKStill
<1>5. /\ mb \in Buffers /\ "mailrecv" \in LoopLabels /\ "mailsend" \in LoopLabels
      /\ entry[mb] \in Int /\ Size - entry[mb] \in Int /\ Size \in Nat
      /\ Covered(mb, entry[mb], mb, "mailrecv")
      /\ Covered(SenderList[mb], Size - entry[mb], mb, "mailsend")
  BY MailboxAssumption DEF Buffers, LoopLabels, MailOK, MailsOK
<1>6. /\ entry'[mb] = entry[mb] + 1 /\ entry'[mb] \in Int /\ Size - entry'[mb] \in Int
      /\ entry'[mb] <= entry[mb] + 1 /\ Size - entry'[mb] <= (Size - entry[mb]) - 1
  BY <1>1, <1>5 DEF MailsOK
<1>7. suspend_thread'[mb] # <<>> => entry'[mb] <= Cardinality(ToLookAgain(mb, "mailrecv")')
  <2>1. Feeds(mb, mb, "mailrecv") /\ \A t : ~LooksNow(t, mb, "mailrecv")
    BY MailboxFeeds
  <2>2. \A t \in First(mb) : error'[t] = error[t] /\ pc'[t] = pc[t]
    OBVIOUS
  <2> QED BY <1>1, <1>5, <1>6, <2>1, <2>2, CoveredResumed
<1>8. suspend_thread'[SenderList[mb]] # <<>> =>
         Size - entry'[mb] <= Cardinality(ToLookAgain(mb, "mailsend")')
  BY <1>1, <1>3, <1>5, <1>6, CoveredTake
<1>9. MailOK(mb)'
  BY <1>6, <1>7, <1>8, MailOKNext
<1> QED BY <1>1, <1>4, <1>9 DEF MailsOK

\* A mail is taken, and the first sender is resumed.
LEMMA MailIsTaken ==
    ASSUME KInv, LookStep, MailsOK, NEW mb \in Mailboxes, FirstResumed(SenderList[mb]),
           entry' = [entry EXCEPT ![mb] = @ - 1], UNCHANGED <<current_priority, error>>,
           \A t \in First(SenderList[mb]) : pc'[t] = pc[t],
           \A t, o, label : LooksNow(t, o, label) => label = "mailrecv" /\ o = mb
    PROVE  MailsOK'
<1> DEFINE l == SenderList[mb]
<1>1. \A nb \in Mailboxes : nb \in Lists /\ SenderList[nb] \in Lists
  BY MailboxLists
<1>2. Less(suspend_thread', suspend_thread, First(l))
  BY <1>1, FirstIsResumed DEF Resumes
<1>3. \A k \in Lists : suspend_thread[k] = <<>> => suspend_thread'[k] = <<>>
  BY <1>2, LessEmpty
<1>4. ASSUME NEW nb \in Mailboxes, nb # mb PROVE MailOK(nb)'
  <2>1. entry'[nb] = entry[nb] /\ MailOK(nb)
    BY <1>4 DEF MailsOK
  <2>2. \A lab \in {"mailsend", "mailrecv"} : \A t : ~LooksNow(t, nb, lab)
    BY <1>4
  <2> QED BY <1>1, <1>3, <2>1, <2>2, MailOKStill
<1>5. /\ mb \in Buffers /\ "mailrecv" \in LoopLabels /\ "mailsend" \in LoopLabels
      /\ entry[mb] \in Int /\ Size - entry[mb] \in Int /\ Size \in Nat
      /\ Covered(mb, entry[mb], mb, "mailrecv")
      /\ Covered(l, Size - entry[mb], mb, "mailsend")
  BY MailboxAssumption DEF Buffers, LoopLabels, MailOK, MailsOK
<1>6. /\ entry'[mb] = entry[mb] - 1 /\ entry'[mb] \in Int /\ Size - entry'[mb] \in Int
      /\ entry'[mb] <= entry[mb] - 1 /\ Size - entry'[mb] <= (Size - entry[mb]) + 1
  BY <1>1, <1>5 DEF MailsOK
<1>7. suspend_thread'[mb] # <<>> => entry'[mb] <= Cardinality(ToLookAgain(mb, "mailrecv")')
  BY <1>1, <1>3, <1>5, <1>6, CoveredTake
<1>8. suspend_thread'[l] # <<>> =>
         Size - entry'[mb] <= Cardinality(ToLookAgain(mb, "mailsend")')
  <2>1. Feeds(l, mb, "mailsend") /\ \A t : ~LooksNow(t, mb, "mailsend")
    BY MailboxFeeds
  <2>2. \A t \in First(l) : error'[t] = error[t] /\ pc'[t] = pc[t]
    OBVIOUS
  <2> HIDE DEF l
  <2> QED BY <1>5, <1>6, <2>1, <2>2, CoveredResumed DEF l
<1>9. MailOK(mb)'
  BY <1>6, <1>7, <1>8, MailOKNext
<1> QED BY <1>4, <1>9 DEF MailsOK

LEMMA MailSendCovered ==
    ASSUME KInv, MailsOK, NEW c \in Threads, MailSend(c)
    PROVE  MailsOK'
<1>1. KStep(MailLists)
  BY MailSendStep
<1>2. /\ c \in Threads \ {Idle} /\ rt_current_thread = c /\ AtWork(c) /\ At(c, "mailsend")
      /\ pc[c] = <<Locals(c)>> /\ Locals(c) \in Loops /\ Locals(c)[1] = "mailsend"
  BY AtLoop DEF MailSend
<1>3. PICK mb \in Mailboxes : mb = Target(c)
  BY <1>2, LoopObject DEF Target, Locals
<1>4. LookStep /\ mb \in Lists /\ stat[c] = "READY"
  BY <1>1, <1>2, MailboxLists DEF KStep, AtWork
<1>5. CASE entry[mb] = Size
  <2>1. LoopWaits(c, SenderList[mb], "EOK") /\ UNCHANGED bvars
    BY <1>3, <1>5 DEF MailSend, Full
  <2>2. SenderList[mb] = IF "mailsend" = "mailsend" THEN SenderList[mb] ELSE mb
    OBVIOUS
  <2>3. IF "mailsend" = "mailsend" THEN entry[mb] = Size ELSE entry[mb] = 0
    BY <1>5
  <2> QED BY <1>2, <1>3, <1>4, <2>1, <2>2, <2>3, MailWaits
<1>6. CASE entry[mb] # Size
  <2>1. /\ Posted(mb, Locals(c)[4]) /\ Proceed(c, AfterResume(c, mb))
        /\ UNCHANGED <<current_priority, error>>
    BY <1>3, <1>6 DEF MailSend, Full
  <2>2. \A t \in First(mb) : pc'[t] = pc[t]
    BY <1>2, <1>4, <2>1, GoesOnAfterResume, FirstKeeps
  <2>3. \A t, o, label : LooksNow(t, o, label) => label = "mailsend" /\ o = mb
    BY <1>2, <1>3, LoopLooks
  <2> QED BY <1>4, <2>1, <2>2, <2>3, MailIsPosted
<1> QED BY <1>5, <1>6

LEMMA MailRecvCovered ==
    ASSUME KInv, MailsOK, NEW c \in Threads, MailRecv(c)
    PROVE  MailsOK'
<1>1. KStep(MailLists)
  BY MailRecvStep
<1>2. /\ c \in Threads \ {Idle} /\ rt_current_thread = c /\ AtWork(c) /\ At(c, "mailrecv")
      /\ pc[c] = <<Locals(c)>> /\ Locals(c) \in Loops /\ Locals(c)[1] = "mailrecv"
  BY AtLoop DEF MailRecv
<1>3. PICK mb \in Mailboxes : mb = Target(c)
  BY <1>2, LoopObject DEF Target, Locals
<1>4. LookStep /\ SenderList[mb] \in Lists /\ stat[c] = "READY"
  BY <1>1, <1>2, MailboxLists DEF KStep, AtWork
<1>5. CASE entry[mb] = 0
  <2>1. LoopWaits(c, mb, "ETIMEOUT") /\ UNCHANGED bvars
    BY <1>3, <1>5 DEF MailRecv
  <2>2. mb = IF "mailrecv" = "mailsend" THEN SenderList[mb] ELSE mb
    OBVIOUS
  <2>3. IF "mailrecv" = "mailsend" THEN entry[mb] = Size ELSE entry[mb] = 0
    BY <1>5
  <2> QED BY <1>2, <1>3, <1>4, <2>1, <2>2, <2>3, MailWaits
<1>6. CASE entry[mb] # 0
  <2>1. /\ FirstResumed(SenderList[mb]) /\ Proceed(c, AfterResume(c, SenderList[mb]))
        /\ entry' = [entry EXCEPT ![mb] = @ - 1]
        /\ UNCHANGED <<current_priority, error>>
    BY <1>3, <1>6 DEF MailRecv
  <2>2. Moves(c)
    BY <1>2, <2>1, GoesOnAfterResume
  <2>3. \A t \in First(SenderList[mb]) : pc'[t] = pc[t]
    BY <1>4, <2>2, FirstKeeps
  <2>4. \A t, o, label : LooksNow(t, o, label) => label = "mailrecv" /\ o = mb
    BY <1>2, <1>3, LoopLooks
  <2> QED BY <1>4, <2>1, <2>3, <2>4, MailIsTaken
<1> QED BY <1>5, <1>6

\* An empty mailbox nobody waits for.
LEMMA MailOKEmptied ==
    ASSUME KStep({}), NotLooping, MailsOK, NEW mb \in Mailboxes,
           entry' = [entry EXCEPT ![mb] = 0],
           \A l \in Range(ListsOf[mb]) : suspend_thread'[l] = <<>>
    PROVE  MailsOK'
<1>1. \A nb \in Mailboxes : nb \in Lists /\ SenderList[nb] \in Lists
  BY MailboxLists
<1>2. ASSUME NEW nb \in Mailboxes, nb # mb PROVE MailOK(nb)'
  <2>1. \A label \in {"mailsend", "mailrecv"} : \A t : ~LooksNow(t, nb, label)
    BY NobodyLooks DEF LoopLabels
  <2>2. LookStep /\ entry'[nb] = entry[nb] /\ MailOK(nb)
    BY <1>2 DEF KStep, MailsOK
  <2>3. \A l \in Lists : suspend_thread[l] = <<>> => suspend_thread'[l] = <<>>
    BY StaysEmpty
  <2> QED BY <1>1, <2>1, <2>2, <2>3, MailOKStill
<1>3. MailOK(mb)'
  <2>1. suspend_thread'[mb] = <<>> /\ suspend_thread'[SenderList[mb]] = <<>>
    BY MailboxFeeds DEF Feeds
  <2>2. entry'[mb] = 0
    BY DEF MailsOK
  <2> QED BY <2>1, <2>2, MailOKNext
<1> QED BY <1>2, <1>3 DEF MailsOK

LEMMA MailOKSpared ==
    ASSUME MailsOK, UNCHANGED bvars, Spares(MailLists, {"mailsend", "mailrecv"})
    PROVE  MailsOK'
<1>1. entry' = entry
  BY DEF bvars
<1>2. ASSUME NEW mb \in Mailboxes PROVE MailOK(mb)'
  <2>1. /\ mb \in Lists /\ SenderList[mb] \in Lists
        /\ mb \in MailLists /\ SenderList[mb] \in MailLists
    BY MailboxLists
  <2>2. \A l \in {mb, SenderList[mb]} : suspend_thread[l] = <<>> => suspend_thread'[l] = <<>>
    BY <2>1, StaysEmpty DEF Spares
  <2>3. LookStep /\ \A label \in {"mailsend", "mailrecv"} : \A t : ~LooksNow(t, mb, label)
    BY DEF Spares, KStep
  <2> QED BY <1>1, <2>2, <2>3, MailOKStill DEF MailsOK
<1> QED BY <1>1, <1>2 DEF MailsOK

LEMMA MailsOKStep ==
    ASSUME KInv, api \in Apis, MailsOK, MailNext
    PROVE  MailsOK'
<1>1. ASSUME NEW mb \in Mailboxes, NEW mail, IsrMailSend(mb, mail) PROVE MailsOK'
  <2>1. KStep(MailLists) /\ Posted(mb, mail) /\ UNCHANGED <<current_priority, error, pc>>
    BY <1>1, IsrMailSendStep DEF IsrMailSend
  <2>2. LookStep /\ NotLooping
    BY <2>1 DEF KStep, NotLooping
  <2>3. \A t, o, label : ~LooksNow(t, o, label)
    BY <2>1 DEF LooksNow
  <2> QED BY <2>1, <2>2, <2>3, MailIsPosted
<1>2. ASSUME NEW c \in Threads, NEW mb \in Mailboxes,
             MailInitialise(c, mb) \/ MailCreate(c, mb) \/ MailReset(c, mb)
      PROVE  MailsOK'
  <2>1. mb \in Objects
    BY MailboxLists
  <2>2. KStep({})
    BY <1>2, <2>1, MakeStep, ResetStep
       DEF MailInitialise, MailCreate, InitObject, CreateObject, MailReset
  <2>3. NotLooping
    BY <1>2, ObjectLooks DEF MailInitialise, MailCreate, MailReset, NotLooping
  <2>4. \A l \in Range(ListsOf[mb]) : suspend_thread'[l] = <<>>
    BY <1>2, <2>1, MadeEmpty, ResetEmpty DEF MailInitialise, MailCreate, MailReset
  <2>5. entry' = [entry EXCEPT ![mb] = 0]
    BY <1>2 DEF MailInitialise, MailCreate, MailReset, MailSetUp
  <2> QED BY <2>2, <2>3, <2>4, <2>5, MailOKEmptied
<1>3. ASSUME NEW c \in Threads, NEW mb \in Mailboxes, NEW wait \in {"try", "ever", "timed"},
             MailDetach(c, mb) \/ MailDelete(c, mb) \/ MailCall(c, mb, wait)
      PROVE  MailsOK'
  <2>1. mb \in Objects /\ MailLists \cap {} = {} /\ MailLists \subseteq Lists
    BY MailboxLists DEF MailLists
  <2>2. KStep({}) /\ UNCHANGED bvars
    BY <1>3, <2>1, EndStep, MailCallStep
       DEF MailDetach, MailDelete, DetachObject, DeleteObject, MailCall
  <2>3. NotLooping
    BY <1>3, ObjectLooks, CallLooks DEF MailDetach, MailDelete, MailCall, NotLooping
  <2>4. Spares(MailLists, {"mailsend", "mailrecv"})
    BY <2>1, <2>2, <2>3, SparesAre, NobodyLooks DEF LoopLabels
  <2> QED BY <2>2, <2>4, MailOKSpared
<1> QED BY <1>1, <1>2, <1>3, MailSendCovered, MailRecvCovered DEF MailNext, MailStep

LEMMA MailsKept ==
    ASSUME SettledInv, [AllNext]_vars, MailsOK
    PROVE  MailsOK'
BY OthersSpare, MailsOKStep, MailOKSpared DEF SettledInv

LEMMA MailsAtStart ==
    ASSUME AllInit
    PROVE  MailsOK
<1>1. entry = [mb \in Mailboxes |-> 0] /\ \A l \in Lists : suspend_thread[l] = <<>>
  BY DEF AllInit, MailInit, IpcInit, Init
<1> QED BY <1>1, MailboxLists DEF MailsOK, MailOK, Covered

-----------------------------------------------------------------------------
(* The message queues.                                                     *)
MsgOK(q) == msg_entry[q] \in Int /\ Covered(q, msg_entry[q], q, "msgrecv")

MsgsOK == DOMAIN msg_entry = Queues /\ \A q \in Queues : MsgOK(q)

LEMMA QueueIs ==
    ASSUME NEW q \in Queues
    PROVE  /\ q \in Lists /\ q \in Buffers /\ "msgrecv" \in LoopLabels
           /\ Feeds(q, q, "msgrecv")
BY OtherFeeds, QueueLists DEF Buffers, LoopLabels

LEMMA MsgsOKOf ==
    ASSUME DOMAIN msg_entry' = Queues, NEW q \in Queues, msg_entry'[q] \in Int,
           suspend_thread'[q] # <<>> =>
              msg_entry'[q] <= Cardinality(ToLookAgain(q, "msgrecv")'),
           \A p \in Queues \ {q} : MsgOK(p)'
    PROVE  MsgsOK'
BY DEF MsgsOK, MsgOK, Covered

\* Other queues.
LEMMA MsgsOKStill ==
    ASSUME LookStep, NEW q \in Queues, MsgOK(q), msg_entry'[q] = msg_entry[q],
           \A t : ~LooksNow(t, q, "msgrecv"),
           suspend_thread[q] = <<>> => suspend_thread'[q] = <<>>
    PROVE  MsgOK(q)'
<1>1. /\ q \in Buffers /\ "msgrecv" \in LoopLabels /\ msg_entry[q] \in Int
      /\ Covered(q, msg_entry[q], q, "msgrecv")
  BY QueueIs DEF MsgOK
<1>2. suspend_thread'[q] # <<>> => msg_entry[q] <= Cardinality(ToLookAgain(q, "msgrecv")')
  BY <1>1, CoveredStill
<1> QED BY <1>1, <1>2 DEF MsgOK, Covered

\* One more message, and the first receiver is resumed.
LEMMA MsgIsLinked ==
    ASSUME KInv, LookStep, MsgsOK, NEW q \in Queues, FirstResumed(q),
           msg_entry' = [msg_entry EXCEPT ![q] = @ + 1],
           UNCHANGED <<current_priority, error>>, \A t \in First(q) : pc'[t] = pc[t],
           \A t, o : ~LooksNow(t, o, "msgrecv")
    PROVE  MsgsOK'
<1>1. Less(suspend_thread', suspend_thread, First(q))
  BY QueueIs, FirstIsResumed DEF Resumes
<1>2. ASSUME NEW p \in Queues \ {q} PROVE MsgOK(p)'
  <2>1. msg_entry'[p] = msg_entry[p] /\ MsgOK(p)
    BY DEF MsgsOK
  <2>2. suspend_thread[p] = <<>> => suspend_thread'[p] = <<>>
    BY <1>1, QueueIs, LessEmpty
  <2> QED BY <2>1, <2>2, MsgsOKStill
<1>3. /\ msg_entry[q] \in Int /\ msg_entry'[q] = msg_entry[q] + 1 /\ msg_entry'[q] \in Int
      /\ msg_entry'[q] <= msg_entry[q] + 1 /\ Covered(q, msg_entry[q], q, "msgrecv")
  BY DEF MsgsOK, MsgOK
<1>4. Feeds(q, q, "msgrecv") /\ \A t \in First(q) : error'[t] = error[t] /\ pc'[t] = pc[t]
  BY QueueIs
<1>5. suspend_thread'[q] # <<>> => msg_entry'[q] <= Cardinality(ToLookAgain(q, "msgrecv")')
  BY <1>3, <1>4, CoveredResumed
<1> QED BY <1>2, <1>3, <1>5, MsgsOKOf DEF MsgsOK

LEMMA MsgRecvCovered ==
    ASSUME KInv, MsgsOK, NEW c \in Threads, MsgRecv(c)
    PROVE  MsgsOK'
<1>1. LookStep
  BY MsgRecvStep DEF KStep
<1>2. At(c, "msgrecv") /\ Locals(c) \in Loops /\ Locals(c)[1] = "msgrecv"
  BY AtLoop DEF MsgRecv
<1>3. PICK q \in Queues : q = Target(c)
  BY <1>2, LoopObject DEF Target, Locals
<1>4. \A t, o, label : LooksNow(t, o, label) => label = "msgrecv" /\ o = q
  BY <1>2, <1>3, LoopLooks
<1>5. msg_entry[q] \in Int /\ Covered(q, msg_entry[q], q, "msgrecv")
  BY DEF MsgsOK, MsgOK
<1>6. ASSUME NEW p \in Queues \ {q}, msg_entry'[p] = msg_entry[p],
             suspend_thread'[p] = suspend_thread[p]
      PROVE  MsgOK(p)'
  <2>1. MsgOK(p) /\ \A t : ~LooksNow(t, p, "msgrecv")
    BY <1>4 DEF MsgsOK
  <2> QED BY <1>1, <1>6, <2>1, MsgsOKStill
<1>7. CASE msg_entry[q] = 0
  <2>1. LoopWaits(c, q, "ETIMEOUT") /\ msg_entry' = msg_entry
    BY <1>3, <1>7 DEF MsgRecv, qvars
  <2>2. \A p \in Queues \ {q} : suspend_thread'[p] = suspend_thread[p]
    BY <2>1, QueueIs, LoopEmpty
  <2>3. \A p \in Queues \ {q} : MsgOK(p)'
    BY <1>6, <2>1, <2>2
  <2>4. 0 <= Cardinality(ToLookAgain(q, "msgrecv")')
    BY LookersFinite
  <2> QED BY <1>7, <2>1, <2>3, <2>4, MsgsOKOf DEF MsgsOK
<1>8. CASE msg_entry[q] # 0
  <2>1. msg_entry' = [msg_entry EXCEPT ![q] = @ - 1] /\ suspend_thread' = suspend_thread
    BY <1>3, <1>8 DEF MsgRecv, lists
  <2>2. \A p \in Queues \ {q} : MsgOK(p)'
    BY <1>6, <2>1 DEF MsgsOK
  <2>3. msg_entry'[q] = msg_entry[q] - 1 /\ msg_entry'[q] \in Int
        /\ msg_entry'[q] <= msg_entry[q] - 1 /\ DOMAIN msg_entry' = Queues
    BY <1>5, <2>1 DEF MsgsOK
  <2>4. suspend_thread'[q] # <<>> => msg_entry'[q] <= Cardinality(ToLookAgain(q, "msgrecv")')
    BY <1>1, <1>5, <2>1, <2>3, QueueIs, CoveredTake
  <2> QED BY <2>2, <2>3, <2>4, MsgsOKOf
<1> QED BY <1>7, <1>8

\* An empty queue nobody waits for.
LEMMA MsgsOKEmptied ==
    ASSUME KStep({}), NotLooping, MsgsOK, NEW q \in Queues,
           msg_entry' = [msg_entry EXCEPT ![q] = 0],
           \A l \in Range(ListsOf[q]) : suspend_thread'[l] = <<>>
    PROVE  MsgsOK'
<1>1. LookStep /\ \A t, o : ~LooksNow(t, o, "msgrecv")
  BY NobodyLooks DEF KStep, LoopLabels
<1>2. ASSUME NEW p \in Queues \ {q} PROVE MsgOK(p)'
  <2>1. suspend_thread[p] = <<>> => suspend_thread'[p] = <<>>
    BY QueueIs, StaysEmpty
  <2>2. msg_entry'[p] = msg_entry[p] /\ MsgOK(p)
    BY DEF MsgsOK
  <2> QED BY <1>1, <2>1, <2>2, MsgsOKStill
<1>3. suspend_thread'[q] = <<>> /\ msg_entry'[q] = 0
  BY QueueIs DEF Feeds, MsgsOK
<1> QED BY <1>2, <1>3, MsgsOKOf DEF MsgsOK

LEMMA MsgsOKSpared ==
    ASSUME MsgsOK, UNCHANGED msg_entry, Spares(Queues, {"msgrecv"})
    PROVE  MsgsOK'
<1>1. ASSUME NEW q \in Queues PROVE MsgOK(q)'
  <2>1. suspend_thread[q] = <<>> => suspend_thread'[q] = <<>>
    BY QueueIs, StaysEmpty DEF Spares
  <2>2. LookStep /\ \A t : ~LooksNow(t, q, "msgrecv")
    BY DEF Spares, KStep
  <2> QED BY <2>1, <2>2, MsgsOKStill DEF MsgsOK
<1> QED BY <1>1 DEF MsgsOK

LEMMA MsgsOKStep ==
    ASSUME KInv, api \in Apis, MsgsOK, QueueNext
    PROVE  MsgsOK'
<1>1. ASSUME NEW q \in Queues, NEW how, NEW text, IsrMsgSend(q, how, text) PROVE MsgsOK'
  <2>1. KStep(Queues) /\ FirstResumed(q) /\ UNCHANGED <<current_priority, error, pc>>
        /\ msg_entry' = [msg_entry EXCEPT ![q] = @ + 1]
    BY <1>1, IsrMsgSendStep DEF IsrMsgSend, Linked
  <2>2. LookStep /\ \A t, o, label : ~LooksNow(t, o, label)
    BY <2>1 DEF LooksNow, KStep
  <2> QED BY <2>1, <2>2, MsgIsLinked
<1>2. ASSUME NEW c \in Threads, MsgLink(c) PROVE MsgsOK'
  <2>1. /\ c \in Threads \ {Idle} /\ AtWork(c) /\ At(c, "link")
        /\ pc[c] = <<Locals(c)>> /\ Copying(Locals(c))
    BY <1>2, AtCopy DEF MsgLink
  <2>2. PICK q \in Queues : q = Target(c)
    BY <2>1 DEF Copying, Target, Locals
  <2>3. /\ FirstResumed(q) /\ UNCHANGED <<current_priority, error>>
        /\ msg_entry' = [msg_entry EXCEPT ![q] = @ + 1] /\ Proceed(c, AfterResume(c, q))
    BY <1>2, <2>2 DEF MsgLink, Linked
  <2>4. LookStep /\ stat[c] = "READY"
    BY <1>2, <2>1, MsgLinkStep DEF KStep, AtWork
  <2>5. \A t \in First(q) : pc'[t] = pc[t]
    BY <2>1, <2>3, <2>4, GoesOnAfterResume, FirstKeeps, QueueIs
  <2>6. NotLooping
    BY <2>1, AtLooks DEF NotLooping, LoopLabels
  <2>7. \A t, o : ~LooksNow(t, o, "msgrecv")
    BY <2>6, NobodyLooks DEF LoopLabels
  <2> QED BY <2>3, <2>4, <2>5, <2>7, MsgIsLinked
<1>3. ASSUME NEW c \in Threads, NEW q \in Queues,
             QueueInitialise(c, q) \/ QueueCreate(c, q) \/ MsgReset(c, q)
      PROVE  MsgsOK'
  <2>1. q \in Objects
    BY QueueLists
  <2>2. KStep({})
    BY <1>3, <2>1, MakeStep, ResetStep
       DEF QueueInitialise, QueueCreate, InitObject, CreateObject, MsgReset
  <2>3. NotLooping
    BY <1>3, ObjectLooks DEF QueueInitialise, QueueCreate, MsgReset, NotLooping
  <2>4. \A l \in Range(ListsOf[q]) : suspend_thread'[l] = <<>>
    BY <1>3, <2>1, MadeEmpty, ResetEmpty DEF QueueInitialise, QueueCreate, MsgReset
  <2>5. msg_entry' = [msg_entry EXCEPT ![q] = 0]
    BY <1>3 DEF QueueInitialise, QueueCreate, MsgReset, QueueSetUp
  <2> QED BY <2>2, <2>3, <2>4, <2>5, MsgsOKEmptied
<1>4. ASSUME KStep({}), NotLooping, UNCHANGED msg_entry PROVE MsgsOK'
  <2>1. Queues \subseteq Lists /\ Queues \cap {} = {}
    BY QueueLists
  <2>2. Spares(Queues, {"msgrecv"})
    BY <1>4, <2>1, SparesAre, NobodyLooks DEF LoopLabels
  <2> QED BY <1>4, <2>2, MsgsOKSpared
<1>5. ASSUME NEW c \in Threads, NEW q \in Queues, QueueDetach(c, q) \/ QueueDelete(c, q)
      PROVE  MsgsOK'
  BY <1>4, <1>5, QueueLists, EndStep, ObjectLooks
     DEF QueueDetach, QueueDelete, DetachObject, DeleteObject, NotLooping, qvars
<1>6. ASSUME NEW c \in Threads, NEW q \in Queues, NEW wait \in {"try", "ever", "timed"},
             MsgRecvCall(c, q, wait)
      PROVE  MsgsOK'
  <2>1. KStep({}) /\ UNCHANGED msg_entry
    BY <1>6, MsgRecvCallStep DEF MsgRecvCall, qvars
  <2>2. NotLooping
    BY <1>6, CallLooks DEF MsgRecvCall, NotLooping
  <2> QED BY <1>4, <2>1, <2>2
<1>7. ASSUME NEW c \in Threads, NEW q \in Queues, NEW how, NEW text, MsgTake(c, q, how, text)
      PROVE  MsgsOK'
  <2>1. KStep({}) /\ UNCHANGED msg_entry
    BY <1>7, MsgTakeStep DEF MsgTake
  <2>2. NotLooping
    BY <1>7, CallLooks DEF MsgTake, NotLooping
  <2> QED BY <1>4, <2>1, <2>2
<1>8. ASSUME NEW c \in Threads, MsgFill(c) \/ MsgFree(c) PROVE MsgsOK'
  <2>1. KStep({}) /\ UNCHANGED msg_entry
    BY <1>8, MsgFillStep, MsgFreeStep DEF MsgFill, MsgFree
  <2>2. NotLooping
    BY <1>8, AtLooks DEF MsgFill, MsgFree, NotLooping, LoopLabels
  <2> QED BY <1>4, <2>1, <2>2
<1> QED BY <1>1, <1>2, <1>3, <1>5, <1>6, <1>7, <1>8, MsgRecvCovered DEF QueueNext, QueueStep

LEMMA MsgsKept ==
    ASSUME SettledInv, [AllNext]_vars, MsgsOK
    PROVE  MsgsOK'
BY OthersSpare, MsgsOKStep, MsgsOKSpared DEF SettledInv, qvars

LEMMA MsgsAtStart ==
    ASSUME AllInit
    PROVE  MsgsOK
<1>1. msg_entry = [q \in Queues |-> 0] /\ \A l \in Lists : suspend_thread[l] = <<>>
  BY DEF AllInit, QueueInit, IpcInit, Init
<1> QED BY <1>1, QueueLists DEF MsgsOK, MsgOK, Covered

-----------------------------------------------------------------------------
(* The semaphores.                                                         *)
TakersOK == value \in [Semaphores -> Nat] /\ TakersWaitForTokens

LEMMA TakersSpared ==
    ASSUME TakersOK, UNCHANGED value, NEW S, KStep(S), S \cap Semaphores = {}
    PROVE  TakersOK'
<1>1. \A s \in Semaphores : suspend_thread[s] = <<>> => suspend_thread'[s] = <<>>
  BY StaysEmpty, SemaphoreLists
<1> QED BY <1>1 DEF TakersOK, TakersWaitForTokens

\* A token less, or one more when nobody waits.
LEMMA TakersReleased ==
    ASSUME KInv, TakersOK, NEW s \in Semaphores, Released(s), UNCHANGED current_priority
    PROVE  TakersOK'
<1>1. s \in Lists /\ FirstResumed(s)
  BY SemaphoreLists DEF Released
<1>2. Less(suspend_thread', suspend_thread, First(s))
  BY <1>1, FirstIsResumed DEF Resumes
<1>3. \A p \in Semaphores : suspend_thread[p] = <<>> => suspend_thread'[p] = <<>>
  BY <1>2, LessEmpty, SemaphoreLists
<1>4. CASE suspend_thread[s] # <<>>
  <2>1. value' = value
    BY <1>4 DEF Released
  <2> QED BY <1>3, <2>1 DEF TakersOK, TakersWaitForTokens
<1>5. CASE suspend_thread[s] = <<>>
  <2>1. value' = [value EXCEPT ![s] = (@ + 1) % ValueMod] /\ value[s] \in Nat
    BY <1>5 DEF Released, TakersOK
  <2>2. (value[s] + 1) % ValueMod \in Nat
    BY <2>1, SemaphoreAssumption
  <2> QED BY <1>3, <1>5, <2>1, <2>2 DEF TakersOK, TakersWaitForTokens
<1> QED BY <1>4, <1>5

LEMMA TakersStep ==
    ASSUME KInv, api \in Apis, TakersOK, SemNext
    PROVE  TakersOK'
<1>0. \A s \in Semaphores : s \in Lists /\ s \in Objects
  BY SemaphoreLists
<1>1. ASSUME NEW c, NEW s \in Semaphores, Release(c, s) \/ IsrRelease(s) PROVE TakersOK'
  BY <1>1, TakersReleased DEF Release, IsrRelease
<1>2. ASSUME NEW c \in Threads, NEW s \in Semaphores, NEW v \in Nat,
             \/ SemReset(c, s, v)
             \/ SemSetUp(s, v) /\ (InitObject(c, s) \/ CreateObject(c, s))
      PROVE  TakersOK'
  <2>1. KStep({})
    BY <1>0, <1>2, MakeStep, ResetStep DEF InitObject, CreateObject, SemReset
  <2>2. \A p \in Semaphores : suspend_thread[p] = <<>> => suspend_thread'[p] = <<>>
    BY <1>0, <2>1, StaysEmpty
  <2>3. s \in Range(ListsOf[s])
    BY <1>0, ObjectLists
  <2>4. suspend_thread'[s] = <<>>
    BY <1>0, <1>2, <2>3, MadeEmpty, ResetEmpty DEF SemReset
  <2>5. value' = [value EXCEPT ![s] = v]
    BY <1>2 DEF SemReset, SemSetUp
  <2> QED BY <2>2, <2>4, <2>5 DEF TakersOK, TakersWaitForTokens
<1>3. ASSUME NEW c \in Threads, NEW s \in Semaphores, SemDetach(c, s) \/ SemDelete(c, s)
      PROVE  TakersOK'
  <2>1. KStep({}) /\ UNCHANGED value
    BY <1>0, <1>3, EndStep DEF SemDetach, SemDelete, DetachObject, DeleteObject, svars
  <2> QED BY <2>1, TakersSpared
<1>4. ASSUME NEW c \in Threads, NEW s \in Semaphores, Take(c, s) PROVE TakersOK'
  <2>1. suspend_thread' = suspend_thread /\ value' = [value EXCEPT ![s] = @ - 1]
        /\ value[s] > 0
    BY <1>4 DEF Take, kvars, lists
  <2> QED BY <2>1 DEF TakersOK, TakersWaitForTokens
<1>5. ASSUME NEW c \in Threads, NEW s \in Semaphores, NEW timed, TakeWait(c, s, timed)
      PROVE  TakersOK'
  <2>1. value' = value /\ value[s] = 0
        /\ suspend_thread' = [suspend_thread EXCEPT ![s] = Enqueued(s, c)]
    BY <1>5 DEF TakeWait, Wait, WaitOn, Suspended, svars
  <2>2. \A p \in Semaphores \ {s} : suspend_thread'[p] = suspend_thread[p]
    BY <1>0, <2>1 DEF KInv, WaitersOK
  <2> QED BY <2>1, <2>2 DEF TakersOK, TakersWaitForTokens
<1>6. ASSUME NEW c, TakeReturn(c) PROVE TakersOK'
  BY <1>6 DEF TakeReturn, lists, TakersOK, TakersWaitForTokens
<1>7. \A s \in Semaphores : InitValue[s] \in Nat
  BY SemaphoreAssumption
<1>8. \A v \in 0..1 : v \in Nat
  OBVIOUS
<1>9. Idle \in Threads
  BY KernelAssumption
<1> QED BY <1>1, <1>2, <1>3, <1>4, <1>5, <1>6, <1>7, <1>8, <1>9
        DEF SemNext, SemStep, SemInitialise, SemCreate

LEMMA TakersKept ==
    ASSUME SettledInv, [AllNext]_vars, TakersOK
    PROVE  TakersOK'
<1>1. CASE UNCHANGED svars /\ Spares(Semaphores, {})
  <2>1. (Lists \ Semaphores) \cap Semaphores = {}
    OBVIOUS
  <2> QED BY <1>1, <2>1, TakersSpared DEF Spares, svars
<1> QED BY <1>1, OthersSpare, TakersStep DEF SettledInv

LEMMA TakersAtStart ==
    ASSUME AllInit
    PROVE  TakersOK
<1>1. value = InitValue /\ \A l \in Lists : suspend_thread[l] = <<>>
  BY DEF AllInit, SemInit, IpcInit, Init
<1> QED BY <1>1, SemaphoreLists, SemaphoreAssumption DEF TakersOK, TakersWaitForTokens

-----------------------------------------------------------------------------
(* The memory pools.                                                       *)

\* The count of waiting threads, which timeouts leave too high, is not near its
\* limit.
CountsFit == \A mp \in Pools : suspend_thread_count[mp] < CountMod - 1

\* It is not too low: a thread that waits is found by rt_mp_free.
Pended(mp) == /\ suspend_thread_count[mp] \in Nat
              /\ Cardinality(Range(suspend_thread[mp])) <= suspend_thread_count[mp]

PoolOK(mp) == Pended(mp) /\ Covered(mp, block_free_count[mp], mp, "mpalloc")

WaitersOfPools == DOMAIN suspend_thread_count = Pools /\ \A mp \in Pools : PoolOK(mp)

LEMMA SmallRemainder ==
    ASSUME NEW n, NEW m \in Nat, m > 0, n \in 0..m-1
    PROVE  n % m = n
OBVIOUS

LEMMA PoolIs ==
    ASSUME NEW mp \in Pools
    PROVE  /\ mp \in Lists /\ mp \in Buffers /\ "mpalloc" \in LoopLabels
           /\ Feeds(mp, mp, "mpalloc")
<1>1. mp \notin Queues
  BY KindsAssumption
<1> QED BY <1>1, OtherFeeds, PoolLists DEF Buffers, LoopLabels

LEMMA WaitersFinite ==
    ASSUME KInv, NEW l \in Lists
    PROVE  /\ IsFiniteSet(Range(suspend_thread[l]))
           /\ Cardinality(Range(suspend_thread[l])) \in Nat
<1>1. Range(suspend_thread[l]) \subseteq Threads
  BY WaitersAreThreads DEF KInv, WaitersOK
<1> QED BY <1>1, KernelAssumption, FS_Subset, FS_CardinalityType

LEMMA PendedOf ==
    ASSUME KInv, KInv', NEW mp \in Pools, Pended(mp), suspend_thread_count'[mp] \in Nat,
           suspend_thread_count[mp] <= suspend_thread_count'[mp],
           Range(suspend_thread'[mp]) \subseteq Range(suspend_thread[mp])
    PROVE  Pended(mp)'
<1>1. mp \in Lists
  BY PoolIs
<1> DEFINE R == Range(suspend_thread[mp])
           R2 == Range(suspend_thread'[mp])
<1>2. IsFiniteSet(R) /\ Cardinality(R) \in Nat
  BY <1>1, WaitersFinite
<1>3. Cardinality(R) <= suspend_thread_count[mp] /\ suspend_thread_count[mp] \in Nat
  BY DEF Pended
<1> HIDE DEF R, R2
<1>4. Cardinality(R2) <= Cardinality(R) /\ IsFiniteSet(R2) /\ Cardinality(R2) \in Nat
  BY <1>2, FS_Subset, FS_CardinalityType DEF R, R2
<1>5. Cardinality(R2) <= suspend_thread_count'[mp]
  BY <1>2, <1>3, <1>4
<1> QED BY <1>5 DEF R2, Pended

\* Other pools, and steps that leave mp as it is.
LEMMA PoolOKStill ==
    ASSUME KInv, KInv', LookStep, NEW mp \in Pools, PoolOK(mp), block_free_count[mp] \in Nat,
           block_free_count'[mp] = block_free_count[mp],
           suspend_thread_count'[mp] = suspend_thread_count[mp],
           \A t : ~LooksNow(t, mp, "mpalloc"),
           Range(suspend_thread'[mp]) \subseteq Range(suspend_thread[mp]),
           suspend_thread[mp] = <<>> => suspend_thread'[mp] = <<>>
    PROVE  PoolOK(mp)'
<1>1. /\ mp \in Buffers /\ "mpalloc" \in LoopLabels /\ block_free_count[mp] \in Int
      /\ Pended(mp) /\ Covered(mp, block_free_count[mp], mp, "mpalloc")
      /\ suspend_thread_count[mp] \in Nat
  BY PoolIs DEF PoolOK, Pended
<1>2. suspend_thread'[mp] # <<>> =>
         block_free_count[mp] <= Cardinality(ToLookAgain(mp, "mpalloc")')
  BY <1>1, CoveredStill
<1>3. Pended(mp)'
  BY <1>1, PendedOf
<1> QED BY <1>2, <1>3 DEF PoolOK, Covered

\* Steps on one pool, whose threads leave lists.
LEMMA OtherPools ==
    ASSUME KInv, PoolsOK, WaitersOfPools, KInv', LookStep, NEW mp \in Pools,
           \A np \in Pools \ {mp} :
              /\ block_free_count'[np] = block_free_count[np]
              /\ suspend_thread_count'[np] = suspend_thread_count[np]
              /\ \A t : ~LooksNow(t, np, "mpalloc")
              /\ Range(suspend_thread'[np]) \subseteq Range(suspend_thread[np])
              /\ suspend_thread[np] = <<>> => suspend_thread'[np] = <<>>,
           DOMAIN suspend_thread_count' = Pools, PoolOK(mp)'
    PROVE  WaitersOfPools'
<1>1. ASSUME NEW np \in Pools, np # mp PROVE PoolOK(np)'
  <2>1. PoolOK(np) /\ block_free_count[np] \in Nat
    BY DEF WaitersOfPools, PoolsOK, BlocksOK
  <2> QED BY <1>1, <2>1, PoolOKStill
<1> QED BY <1>1 DEF WaitersOfPools

\* rt_mp_free.
LEMMA FreedCovered ==
    ASSUME KInv, PoolsOK, CountsFit, WaitersOfPools, KInv', LookStep, NEW mp \in Pools,
           NEW b, Freed(mp, b), UNCHANGED current_priority,
           \A t \in First(mp) : pc'[t] = pc[t], \A t, o : ~LooksNow(t, o, "mpalloc")
    PROVE  WaitersOfPools'
<1> DEFINE W == Freeing(mp)
           n == suspend_thread_count[mp]
           R == Range(suspend_thread[mp])
           R2 == Range(suspend_thread'[mp])
<1>1. mp \in Lists /\ mp \in Buffers /\ "mpalloc" \in LoopLabels /\ Feeds(mp, mp, "mpalloc")
  BY PoolIs
<1>2. /\ W \in SUBSET Threads /\ Less(suspend_thread', suspend_thread, W)
      /\ error' = [t \in Threads |-> IF t \in W THEN "EOK" ELSE error[t]]
  BY FreedResumes DEF Resumes
<1>3. \A l \in Lists : /\ suspend_thread[l] = <<>> => suspend_thread'[l] = <<>>
                       /\ Range(suspend_thread'[l]) = Range(suspend_thread[l]) \ W
  BY <1>2, LessEmpty DEF Less
<1>4. /\ n \in Nat /\ Cardinality(R) <= n /\ n < CountMod - 1 /\ CountMod \in Nat
      /\ DOMAIN suspend_thread_count = Pools
      /\ Covered(mp, block_free_count[mp], mp, "mpalloc") /\ block_free_count[mp] \in Nat
  <2>1. CountMod \in Nat
    BY PoolAssumption
  <2> QED BY <2>1 DEF WaitersOfPools, PoolOK, Pended, CountsFit, PoolsOK, BlocksOK
<1>5. IsFiniteSet(R) /\ Cardinality(R) \in Nat
  BY <1>1, WaitersFinite
<1>6. block_free_count' = [block_free_count EXCEPT ![mp] = @ + 1]
  BY DEF Freed
<1>7. block_free_count'[mp] = block_free_count[mp] + 1
      /\ \A np \in Pools \ {mp} : block_free_count'[np] = block_free_count[np]
  BY <1>6 DEF PoolsOK, BlocksTyped
<1>8. /\ DOMAIN suspend_thread_count' = Pools
      /\ suspend_thread_count'[mp] = IF n = 0 THEN 0 ELSE n - 1
      /\ \A np \in Pools \ {mp} : suspend_thread_count'[np] = suspend_thread_count[np]
  <2>1. CASE n = 0
    BY <1>4, <2>1 DEF Freed
  <2>2. CASE n # 0
    <3>1. suspend_thread_count' = [suspend_thread_count EXCEPT
                                      ![mp] = (@ + CountMod - 1) % CountMod]
      BY <2>2 DEF Freed, Uncounted
    <3>2. (n + CountMod - 1) % CountMod = n - 1
      BY <1>4, <2>2
    <3> QED BY <1>4, <2>2, <3>1, <3>2
  <2> QED BY <2>1, <2>2
<1>9. suspend_thread[mp] # <<>> =>
         /\ n # 0 /\ W = First(mp) /\ First(mp) = {Head(suspend_thread[mp])}
         /\ Head(suspend_thread[mp]) \in R
  <2> SUFFICES ASSUME suspend_thread[mp] # <<>>
               PROVE  /\ n # 0 /\ W = First(mp) /\ First(mp) = {Head(suspend_thread[mp])}
                      /\ Head(suspend_thread[mp]) \in R
    OBVIOUS
  <2>1. Head(suspend_thread[mp]) \in R
    BY <1>1, LessByHead DEF KInv
  <2>2. Cardinality(R) # 0
    BY <1>5, <2>1, FS_EmptySet
  <2>3. n # 0
    BY <1>4, <1>5, <2>2
  <2> QED BY <2>1, <2>3 DEF Freeing, First
<1> HIDE DEF W, n, R, R2
<1>10. Pended(mp)'
  <2>1. CASE suspend_thread[mp] = <<>>
    <3>1. R2 = {}
      BY <1>1, <1>3, <2>1, EmptySeq DEF R2, Range
    <3>2. Cardinality(R2) = 0
      BY <3>1, FS_EmptySet
    <3>3. suspend_thread_count'[mp] \in Nat /\ 0 <= suspend_thread_count'[mp]
      BY <1>4, <1>8
    <3> QED BY <3>2, <3>3 DEF Pended, R2
  <2>2. CASE suspend_thread[mp] # <<>>
    <3> DEFINE h == Head(suspend_thread[mp])
    <3>1. h \in R /\ R2 = R \ {h} /\ n # 0
      BY <1>1, <1>3, <1>9, <2>2 DEF R, R2
    <3> HIDE DEF h
    <3>2. Cardinality(R2) = Cardinality(R) - 1
      BY <1>5, <3>1, FS_RemoveElement
    <3>3. suspend_thread_count'[mp] \in Nat /\ Cardinality(R2) <= suspend_thread_count'[mp]
      BY <1>4, <1>5, <1>8, <3>1, <3>2
    <3> QED BY <3>3 DEF Pended, R2
  <2> QED BY <2>1, <2>2
<1>11. suspend_thread[mp] # <<>> =>
          \E t : t \in ToLookAgain(mp, "mpalloc")' /\ t \notin ToLookAgain(mp, "mpalloc")
  <2> SUFFICES ASSUME suspend_thread[mp] # <<>>
               PROVE  \E t : /\ t \in ToLookAgain(mp, "mpalloc")'
                             /\ t \notin ToLookAgain(mp, "mpalloc")
    OBVIOUS
  <2>1. Less(suspend_thread', suspend_thread, First(mp))
    BY <1>2, <1>9
  <2>2. \A t \in First(mp) : error'[t] = "EOK" /\ pc'[t] = pc[t]
    BY <1>2, <1>9
  <2> QED BY <1>1, <2>1, <2>2, HeadLooks
<1>12. suspend_thread'[mp] # <<>> =>
          block_free_count'[mp] <= Cardinality(ToLookAgain(mp, "mpalloc")')
  <2>1. /\ block_free_count[mp] \in Int /\ block_free_count'[mp] \in Int
        /\ block_free_count'[mp] <= block_free_count[mp] + 1
    BY <1>4, <1>7
  <2>2. \A t : ~LooksNow(t, mp, "mpalloc")
    OBVIOUS
  <2> QED BY <1>1, <1>3, <1>4, <1>11, <2>1, <2>2, CoveredMore
<1>13. PoolOK(mp)'
  BY <1>10, <1>12 DEF PoolOK, Covered
<1>14. \A np \in Pools : np \in Lists
  BY PoolIs
<1> QED BY <1>3, <1>7, <1>8, <1>13, <1>14, OtherPools

\* A block is taken.
LEMMA TakenCovered ==
    ASSUME KInv, PoolsOK, WaitersOfPools, KInv', LookStep, NEW mp \in Pools, BlockTaken(mp),
           UNCHANGED suspend_thread,
           \A t, o : LooksNow(t, o, "mpalloc") => o = mp
    PROVE  WaitersOfPools'
<1>1. mp \in Buffers /\ "mpalloc" \in LoopLabels /\ PoolOK(mp) /\ block_free_count[mp] \in Nat
  BY PoolIs DEF WaitersOfPools, PoolsOK, BlocksOK
<1>2. /\ block_free_count' = [block_free_count EXCEPT ![mp] = @ - 1]
      /\ suspend_thread_count' = suspend_thread_count
  BY DEF BlockTaken
<1>3. /\ block_free_count'[mp] = block_free_count[mp] - 1
      /\ \A np \in Pools \ {mp} : block_free_count'[np] = block_free_count[np]
  BY <1>2 DEF PoolsOK, BlocksTyped
<1>4. Pended(mp)'
  BY <1>1, <1>2 DEF PoolOK, Pended
<1>5. suspend_thread'[mp] # <<>> =>
         block_free_count'[mp] <= Cardinality(ToLookAgain(mp, "mpalloc")')
  <2>1. /\ block_free_count[mp] \in Int /\ block_free_count'[mp] \in Int
        /\ block_free_count'[mp] <= block_free_count[mp] - 1
        /\ Covered(mp, block_free_count[mp], mp, "mpalloc")
    BY <1>1, <1>3 DEF PoolOK
  <2> QED BY <1>1, <2>1, CoveredTake
<1>6. PoolOK(mp)'
  BY <1>4, <1>5 DEF PoolOK, Covered
<1>7. \A np \in Pools \ {mp} : \A t : ~LooksNow(t, np, "mpalloc")
  OBVIOUS
<1> QED BY <1>2, <1>3, <1>6, <1>7, OtherPools DEF WaitersOfPools

\* No block: a thread waits and is counted.
LEMMA PoolWaitsCovered ==
    ASSUME KInv, PoolsOK, CountsFit, WaitersOfPools, KInv', LookStep, NEW mp \in Pools,
           NEW c \in Threads, PoolWaits(c, mp), block_free_count[mp] = 0,
           \A t, o : LooksNow(t, o, "mpalloc") => o = mp
    PROVE  WaitersOfPools'
<1> DEFINE n == suspend_thread_count[mp]
           R == Range(suspend_thread[mp])
           R2 == Range(suspend_thread'[mp])
<1>1. \A np \in Pools : np \in Lists
  BY PoolIs
<1>2. n \in Nat /\ Cardinality(R) <= n /\ n < CountMod - 1 /\ CountMod \in Nat
      /\ DOMAIN suspend_thread_count = Pools /\ suspend_thread \in [Lists -> Seq(Threads)]
  <2>1. CountMod \in Nat
    BY PoolAssumption
  <2> QED BY <2>1 DEF WaitersOfPools, PoolOK, Pended, CountsFit, KInv, WaitersOK
<1>3. IsFiniteSet(R) /\ Cardinality(R) \in Nat
  BY <1>1, WaitersFinite
<1>4. block_free_count' = block_free_count /\ block_free_count'[mp] = 0
  BY DEF PoolWaits, blocks
<1>5. Covered(mp, block_free_count[mp], mp, "mpalloc")'
  BY <1>4, LookersFinite DEF Covered
<1>6. CASE Locals(c)[3] \in {"ever", "timed"}
  <2>1. /\ suspend_thread' = [suspend_thread EXCEPT ![mp] = Enqueued(mp, c)]
        /\ suspend_thread_count' = [suspend_thread_count EXCEPT ![mp] = (@ + 1) % CountMod]
    BY <1>6 DEF PoolWaits, LoopWaits, Wait, WaitOn, Suspended
  <2>2. suspend_thread'[mp] = Enqueued(mp, c)
    BY <1>1, <1>2, <2>1
  <2>3. R2 \subseteq R \cup {c}
    BY <1>1, <2>2, EnqueuedIs
  <2>4. suspend_thread_count'[mp] = n + 1
    <3>1. n + 1 \in 0..CountMod - 1 /\ CountMod > 0
      BY <1>2
    <3>2. (n + 1) % CountMod = n + 1
      BY <1>2, <3>1, SmallRemainder
    <3> QED BY <1>2, <2>1, <3>2
  <2> HIDE DEF R, R2, n
  <2>5. Cardinality(R2) <= Cardinality(R) + 1 /\ Cardinality(R2) \in Nat
    <3> DEFINE R3 == R \cup {c}
    <3>1. Cardinality(R3) = IF c \in R THEN Cardinality(R) ELSE Cardinality(R) + 1
      BY <1>3, FS_AddElement
    <3>2. IsFiniteSet(R3)
      BY <1>3, FS_AddElement
    <3>3. Cardinality(R2) <= Cardinality(R3) /\ IsFiniteSet(R2)
      BY <2>3, <3>2, FS_Subset
    <3>4. Cardinality(R2) \in Nat /\ Cardinality(R3) \in Nat
      BY <3>2, <3>3, FS_CardinalityType
    <3> HIDE DEF R3
    <3> QED BY <1>3, <3>1, <3>3, <3>4
  <2>7. suspend_thread_count'[mp] \in Nat /\ Cardinality(R2) <= suspend_thread_count'[mp]
    BY <1>2, <1>3, <2>4, <2>5
  <2>8. PoolOK(mp)'
    BY <1>5, <2>7 DEF PoolOK, Pended, R2
  <2>9. \A np \in Pools \ {mp} : suspend_thread'[np] = suspend_thread[np]
                                 /\ suspend_thread_count'[np] = suspend_thread_count[np]
    BY <1>1, <1>2, <2>1
  <2>10. DOMAIN suspend_thread_count' = Pools
    BY <1>2, <2>1
  <2>11. \A np \in Pools \ {mp} : \A t : ~LooksNow(t, np, "mpalloc")
    OBVIOUS
  <2> QED BY <1>4, <2>8, <2>9, <2>10, <2>11, OtherPools
<1>7. CASE ~(Locals(c)[3] \in {"ever", "timed"})
  <2>1. suspend_thread' = suspend_thread /\ suspend_thread_count' = suspend_thread_count
    BY <1>7 DEF PoolWaits, lists
  <2>2. PoolOK(mp)'
    BY <1>5, <2>1 DEF PoolOK, Pended, WaitersOfPools
  <2>3. \A np \in Pools \ {mp} : \A t : ~LooksNow(t, np, "mpalloc")
    OBVIOUS
  <2> QED BY <1>2, <1>4, <2>1, <2>2, <2>3, OtherPools
<1> QED BY <1>6, <1>7

\* Deletion: a thread is resumed and counted off.
LEMMA ResumeOneCovered ==
    ASSUME KInv, PoolsOK, CountsFit, WaitersOfPools, NEW c \in Threads, PoolResumeOne(c)
    PROVE  WaitersOfPools'
<1>1. PICK mp \in Pools : mp = Target(c)
  BY DEF PoolResumeOne
<1> DEFINE n == suspend_thread_count[mp]
           R == Range(suspend_thread[mp])
           R2 == Range(suspend_thread'[mp])
<1>2. KInv' /\ LookStep
  BY ResumeOneStep DEF PoolResumeOne, KStep
<1>3. Apart(c)
  BY CommonLooks DEF PoolResumeOne
<1>4. \A t, o : ~LooksNow(t, o, "mpalloc")
  BY <1>3, NobodyLooks DEF NotLooping, LoopLabels
<1>5. Less(suspend_thread', suspend_thread, First(mp))
  BY <1>1, ResumeOneResumes DEF PoolResumeOne, Resumes
<1>6. \A l \in Lists : /\ suspend_thread[l] = <<>> => suspend_thread'[l] = <<>>
                       /\ Range(suspend_thread'[l]) = Range(suspend_thread[l]) \ First(mp)
  BY <1>5, LessEmpty DEF Less
<1>7. /\ suspend_thread_count' = [suspend_thread_count EXCEPT
                                     ![mp] = (@ + CountMod - 1) % CountMod]
      /\ block_free_count' = block_free_count
  BY <1>1 DEF PoolResumeOne, Uncounted, blocks
<1>8. n \in Nat /\ Cardinality(R) <= n /\ n < CountMod - 1 /\ CountMod \in Nat
      /\ DOMAIN suspend_thread_count = Pools /\ PoolOK(mp) /\ block_free_count[mp] \in Nat
  <2>1. CountMod \in Nat
    BY PoolAssumption
  <2> QED BY <2>1 DEF WaitersOfPools, PoolOK, Pended, CountsFit, PoolsOK, BlocksOK
<1>9. IsFiniteSet(R) /\ Cardinality(R) \in Nat /\ \A np \in Pools : np \in Lists
  BY PoolIs, WaitersFinite
<1>10. /\ (n + CountMod - 1) % CountMod \in Nat
       /\ n # 0 => (n + CountMod - 1) % CountMod = n - 1
  BY <1>8
<1>11. DOMAIN suspend_thread_count' = Pools
       /\ suspend_thread_count'[mp] = (n + CountMod - 1) % CountMod
       /\ \A np \in Pools \ {mp} : suspend_thread_count'[np] = suspend_thread_count[np]
  BY <1>7, <1>8
<1>12. Pended(mp)'
  <2>1. CASE suspend_thread[mp] = <<>>
    <3>1. R2 = {}
      BY <1>6, <1>9, <2>1, EmptySeq DEF Range
    <3>2. Cardinality(R2) = 0
      BY <3>1, FS_EmptySet
    <3> QED BY <1>10, <1>11, <3>2 DEF Pended
  <2>2. CASE suspend_thread[mp] # <<>>
    <3> DEFINE h == Head(suspend_thread[mp])
    <3>1. h \in R /\ First(mp) = {h}
      BY <1>9, <2>2, LessByHead DEF KInv, First
    <3>2. R2 = R \ {h}
      BY <1>6, <1>9, <3>1
    <3> HIDE DEF h, R, R2, n
    <3>3. Cardinality(R2) = Cardinality(R) - 1
      BY <1>9, <3>1, <3>2, FS_RemoveElement
    <3>4. Cardinality(R) # 0
      BY <1>9, <3>1, FS_EmptySet
    <3>5. suspend_thread_count'[mp] \in Nat /\ Cardinality(R2) <= suspend_thread_count'[mp]
      BY <1>8, <1>9, <1>10, <1>11, <3>3, <3>4
    <3> QED BY <3>5 DEF Pended, R2
  <2> QED BY <2>1, <2>2
<1>13. suspend_thread'[mp] # <<>> =>
          block_free_count[mp] <= Cardinality(ToLookAgain(mp, "mpalloc")')
  <2>1. /\ mp \in Buffers /\ "mpalloc" \in LoopLabels /\ block_free_count[mp] \in Int
        /\ Covered(mp, block_free_count[mp], mp, "mpalloc")
    BY <1>8, PoolIs DEF PoolOK
  <2> QED BY <1>2, <1>4, <1>6, <1>9, <2>1, CoveredStill
<1>14. PoolOK(mp)'
  BY <1>7, <1>12, <1>13 DEF PoolOK, Covered
<1> QED BY <1>2, <1>4, <1>6, <1>7, <1>9, <1>11, <1>14, OtherPools

\* Steps that leave the pools as they are.
LEMMA PoolWaitersSpared ==
    ASSUME KInv, PoolsOK, WaitersOfPools, UNCHANGED <<block_free_count, suspend_thread_count>>,
           Spares(Pools, {"mpalloc"})
    PROVE  WaitersOfPools'
<1>1. KInv' /\ LookStep /\ \A t, o : ~LooksNow(t, o, "mpalloc")
  BY DEF Spares, KStep
<1>2. ASSUME NEW mp \in Pools PROVE PoolOK(mp)'
  <2>1. mp \in Lists \ (Lists \ Pools)
    BY PoolIs
  <2>2. suspend_thread[mp] = <<>> => suspend_thread'[mp] = <<>>
    BY <2>1, StaysEmpty DEF Spares
  <2>3. Range(suspend_thread'[mp]) \subseteq Range(suspend_thread[mp])
    BY <2>1 DEF Spares, KStep, JoinStep
  <2>4. PoolOK(mp) /\ block_free_count[mp] \in Nat
    BY DEF WaitersOfPools, PoolsOK, BlocksOK
  <2> QED BY <1>1, <2>2, <2>3, <2>4, PoolOKStill
<1> QED BY <1>2 DEF WaitersOfPools

LEMMA PoolMadeCovered ==
    ASSUME KInv, PoolsOK, WaitersOfPools, NEW c \in Threads, NEW mp \in Pools,
           PoolInitialise(c, mp) \/ PoolCreate(c, mp)
    PROVE  WaitersOfPools'
<1>1. mp \in Objects /\ \A np \in Pools : np \in Lists
  BY PoolLists
<1>2. KStep({}) /\ Apart(c)
  BY MakeStep, ObjectLooks DEF PoolInitialise, PoolCreate, InitObject, CreateObject
<1>3. KInv' /\ LookStep /\ \A t, o : ~LooksNow(t, o, "mpalloc")
  BY <1>2, NobodyLooks DEF KStep, NotLooping, LoopLabels
<1>4. \A l \in Range(ListsOf[mp]) : suspend_thread'[l] = <<>>
  BY <1>1, MadeEmpty DEF PoolInitialise, PoolCreate
<1>5. suspend_thread'[mp] = <<>>
  BY <1>4, PoolIs DEF Feeds
<1>6. PoolSetUp(mp)
  BY DEF PoolInitialise, PoolCreate
<1>7. /\ suspend_thread_count' = [suspend_thread_count EXCEPT ![mp] = 0]
      /\ block_free_count' = [block_free_count EXCEPT ![mp] = BlockCount]
  BY <1>6 DEF PoolSetUp
<1>8. /\ DOMAIN suspend_thread_count' = Pools /\ suspend_thread_count'[mp] = 0
      /\ \A np \in Pools \ {mp} : /\ suspend_thread_count'[np] = suspend_thread_count[np]
                                  /\ block_free_count'[np] = block_free_count[np]
  BY <1>7 DEF WaitersOfPools
<1>9. Cardinality(Range(suspend_thread'[mp])) = 0
  <2>1. Range(suspend_thread'[mp]) = {}
    BY <1>5, EmptySeq DEF Range
  <2> QED BY <2>1, FS_EmptySet
<1>10. PoolOK(mp)'
  BY <1>5, <1>8, <1>9 DEF PoolOK, Pended, Covered
<1>11. ASSUME NEW np \in Pools \ {mp}
       PROVE  /\ Range(suspend_thread'[np]) \subseteq Range(suspend_thread[np])
              /\ suspend_thread[np] = <<>> => suspend_thread'[np] = <<>>
  <2>1. np \in Lists \ {}
    BY <1>1
  <2> QED BY <1>2, <2>1, StaysEmpty DEF KStep, JoinStep
<1> QED BY <1>3, <1>8, <1>10, <1>11, OtherPools

LEMMA PoolAllocCovered ==
    ASSUME KInv, PoolsOK, CountsFit, WaitersOfPools, NEW c \in Threads, PoolAlloc(c)
    PROVE  WaitersOfPools'
<1>1. KInv' /\ LookStep
  BY PoolAllocStep DEF KStep
<1>2. At(c, "mpalloc") /\ Locals(c) \in Loops /\ Locals(c)[1] = "mpalloc"
  BY AtLoop DEF PoolAlloc
<1>3. PICK mp \in Pools : mp = Target(c)
  BY <1>2, LoopObject DEF Target, Locals
<1>4. \A t, o : LooksNow(t, o, "mpalloc") => o = mp
  BY <1>2, <1>3, LoopLooks
<1>5. CASE block_free_count[mp] = 0
  <2>1. PoolWaits(c, mp)
    BY <1>3, <1>5 DEF PoolAlloc
  <2> QED BY <1>1, <1>4, <1>5, <2>1, PoolWaitsCovered
<1>6. CASE block_free_count[mp] # 0
  <2>1. BlockTaken(mp) /\ UNCHANGED suspend_thread
    BY <1>3, <1>6 DEF PoolAlloc, lists
  <2> QED BY <1>1, <1>4, <2>1, TakenCovered
<1> QED BY <1>5, <1>6

LEMMA WaitersOfPoolsStep ==
    ASSUME KInv, api \in Apis, PoolsOK, CountsFit, WaitersOfPools, PoolNext
    PROVE  WaitersOfPools'
<1>1. ASSUME NEW mp \in Pools, IsrPoolAlloc(mp) PROVE WaitersOfPools'
  <2>1. UNCHANGED kvars /\ BlockTaken(mp) /\ UNCHANGED <<pc, suspend_thread>>
    BY <1>1 DEF IsrPoolAlloc, kvars, lists
  <2>2. KInv' /\ LookStep
    BY <2>1, StillStep DEF KStep
  <2>3. \A t, o : ~LooksNow(t, o, "mpalloc")
    BY <2>1 DEF LooksNow
  <2> QED BY <2>1, <2>2, <2>3, TakenCovered
<1>2. ASSUME NEW mp \in Pools, NEW b, IsrPoolFree(mp, b) PROVE WaitersOfPools'
  <2>1. KInv' /\ LookStep
    BY <1>2, IsrPoolFreeStep DEF KStep
  <2>2. Freed(mp, b) /\ UNCHANGED <<current_priority, pc>>
    BY <1>2 DEF IsrPoolFree
  <2>3. \A t, o : ~LooksNow(t, o, "mpalloc")
    BY <2>2 DEF LooksNow
  <2> QED BY <2>1, <2>2, <2>3, FreedCovered
<1>3. ASSUME NEW c \in Threads, NEW mp \in Pools, NEW b, PoolFree(c, mp, b)
      PROVE  WaitersOfPools'
  <2>1. KInv' /\ LookStep
    BY <1>3, PoolFreeStep DEF KStep
  <2>2. Freed(mp, b) /\ UNCHANGED current_priority /\ Call(c, "mpfree")
        /\ \E s : Goto(c, s)
    BY <1>3 DEF PoolFree
  <2>3. stat[c] = "READY" /\ Moves(c) /\ Apart(c) /\ mp \in Lists
    BY <2>2, Calls, GotoMoves, CallLooks, PoolIs
  <2>4. \A t, o : ~LooksNow(t, o, "mpalloc")
    BY <2>3, NobodyLooks DEF NotLooping, LoopLabels
  <2>5. \A t \in First(mp) : pc'[t] = pc[t]
    BY <2>3, FirstKeeps
  <2> QED BY <2>1, <2>2, <2>4, <2>5, FreedCovered
<1>4. ASSUME KStep({}), NEW c \in Threads, Apart(c), UNCHANGED pvars PROVE WaitersOfPools'
  <2>1. Pools \subseteq Lists /\ Pools \cap {} = {} /\ NotLooping
    BY <1>4, PoolLists DEF NotLooping
  <2>2. Spares(Pools, {"mpalloc"})
    BY <1>4, <2>1, SparesAre, NobodyLooks DEF LoopLabels
  <2> QED BY <1>4, <2>2, PoolWaitersSpared DEF pvars, blocks
<1>5. ASSUME NEW c \in Threads, NEW mp \in Pools, PoolDetach(c, mp) \/ PoolDelete(c, mp)
      PROVE  WaitersOfPools'
  BY <1>4, <1>5, PoolLists, EndStep, ObjectLooks
     DEF PoolDetach, PoolDelete, DetachObject, DeleteObject
<1>6. ASSUME NEW c \in Threads, NEW mp \in Pools, NEW wait \in {"try", "ever", "timed"},
             PoolCall(c, mp, wait)
      PROVE  WaitersOfPools'
  <2>1. KStep({}) /\ UNCHANGED pvars
    BY <1>6, PoolCallStep DEF PoolCall
  <2>2. Apart(c)
    BY <1>6, CallLooks DEF PoolCall
  <2> QED BY <1>4, <2>1, <2>2
<1> QED BY <1>1, <1>2, <1>3, <1>5, <1>6, PoolAllocCovered, ResumeOneCovered, PoolMadeCovered
        DEF PoolNext, PoolStep

LEMMA PoolWaitersKept ==
    ASSUME SettledInv, PoolsOK, CountsFit, WaitersOfPools, [AllNext]_vars
    PROVE  WaitersOfPools'
BY OthersSpare, WaitersOfPoolsStep, PoolWaitersSpared DEF SettledInv, pvars, blocks

LEMMA PoolWaitersAtStart ==
    ASSUME AllInit
    PROVE  WaitersOfPools
<1>1. /\ suspend_thread_count = [mp \in Pools |-> 0]
      /\ \A mp \in Pools : suspend_thread[mp] = <<>>
  BY PoolLists DEF AllInit, PoolInit, IpcInit, Init
<1>2. \A mp \in Pools : Cardinality(Range(suspend_thread[mp])) = 0
  <2>1. \A mp \in Pools : Range(suspend_thread[mp]) = {}
    BY <1>1, EmptySeq DEF Range
  <2> QED BY <2>1, FS_EmptySet
<1> QED BY <1>1, <1>2 DEF WaitersOfPools, PoolOK, Pended, Covered

-----------------------------------------------------------------------------
(* The events.                                                             *)

\* What is enough of fewer bits is enough of more.
LEMMA MoreSatisfies ==
    ASSUME NEW bits, NEW more, bits \subseteq more, NEW asked, NEW option,
           Satisfies(bits, asked, option)
    PROVE  Satisfies(more, asked, option)
<1>1. CASE option[1] = "AND"
  BY <1>1 DEF Satisfies
<1>2. CASE option[1] # "AND"
  BY <1>2 DEF Satisfies
<1> QED BY <1>1, <1>2

\* The loop of rt_event_send, turn by turn.
LEMMA LeftSteps ==
    ASSUME NEW q \in Seq(Threads), NEW bits
    PROVE  \A i \in 0..Len(q) : Left(bits, q)[i] =
              IF i = 0 THEN bits
              ELSE IF Satisfies(Left(bits, q)[i - 1], event_set[q[i]], event_info[q[i]])
                   THEN Served(Left(bits, q)[i - 1], q[i]) ELSE Left(bits, q)[i - 1]
<1> DEFINE n == Len(q)
           X == SUBSET bits
           After(b, t) == IF Satisfies(b, event_set[t], event_info[t])
                          THEN Served(b, t) ELSE b
           h == [x \in (1..n) \X X |-> After(x[2], q[x[1]])]
           Makes(f) == f = [i \in 0..n |-> IF i = 0 THEN bits
                              ELSE IF Satisfies(f[i - 1], event_set[q[i]], event_info[q[i]])
                                   THEN Served(f[i - 1], q[i]) ELSE f[i - 1]]
           g == CHOOSE f : Makes(f)
<1>1. n \in Nat
  BY LenProperties
<1>2. h \in [(1..n) \X X -> X]
  <2> SUFFICES ASSUME NEW x \in (1..n) \X X PROVE After(x[2], q[x[1]]) \in X
    OBVIOUS
  <2>1. x[2] \subseteq bits
    OBVIOUS
  <2>2. \A b, t : Served(b, t) \subseteq b
    BY DEF Served
  <2> QED BY <2>1, <2>2
<1>3. bits \in X
  OBVIOUS
<1>4. PICK f : Recurs(f, n, X, bits, h)
  <2> HIDE DEF h, X, n
  <2> QED BY <1>1, <1>2, <1>3, RecursionDefines
<1>5. ASSUME NEW i \in 0..n
      PROVE  f[i] = IF i = 0 THEN bits ELSE After(f[i - 1], q[i])
  <2>1. CASE i = 0
    BY <1>4, <2>1 DEF Recurs
  <2>2. CASE i # 0
    <3>1. i \in 1..n /\ i - 1 \in 0..n
      BY <1>1, <2>2
    <3>2. <<i, f[i - 1]>> \in (1..n) \X X
      BY <1>4, <3>1 DEF Recurs
    <3>3. h[<<i, f[i - 1]>>] = After(f[i - 1], q[i])
      <4> HIDE DEF After
      <4> QED BY <3>2
    <3>4. f[i] = h[<<i, f[i - 1]>>]
      <4> HIDE DEF h
      <4> QED BY <1>4, <3>1 DEF Recurs
    <3> QED BY <2>2, <3>3, <3>4
  <2> QED BY <2>1, <2>2
<1>6. f = [i \in 0..n |-> f[i]]
  BY <1>4 DEF Recurs
<1>7. Makes(f)
  BY <1>5, <1>6
<1>8. Makes(g)
  <2> HIDE DEF Makes
  <2> QED BY <1>7
<1>9. Left(bits, q) = g
  BY DEF Left
<1> HIDE DEF g
<1> QED BY <1>8, <1>9

\* The bits only get less.
LEMMA LeftShrinks ==
    ASSUME NEW q \in Seq(Threads), NEW bits, NEW i \in 0..Len(q), NEW k \in 0..Len(q),
           i <= k
    PROVE  Left(bits, q)[k] \subseteq Left(bits, q)[i]
<1> DEFINE n == Len(q)
           L == Left(bits, q)
           Bad == {j \in i..n : ~(L[j] \subseteq L[i])}
<1>1. n \in Nat
  BY LenProperties
<1>2. SUFFICES ASSUME Bad # {} PROVE FALSE
  <2>1. k \in i..n
    BY <1>1
  <2> QED BY <1>2, <2>1
<1>3. ASSUME NEW j \in 1..n PROVE L[j] \subseteq L[j - 1]
  <2>1. j \in 0..n /\ j # 0
    BY <1>1
  <2>2. L[j] = IF Satisfies(L[j - 1], event_set[q[j]], event_info[q[j]])
               THEN Served(L[j - 1], q[j]) ELSE L[j - 1]
    BY <2>1, LeftSteps
  <2>3. Served(L[j - 1], q[j]) \subseteq L[j - 1]
    BY DEF Served
  <2> QED BY <2>2, <2>3
<1>4. PICK j \in Bad : \A m \in Bad : j <= m
  <2>1. Bad \in SUBSET Nat
    BY <1>1
  <2> HIDE DEF Bad
  <2> QED BY <1>2, <2>1, HasMinimum
<1>5. j \in i..n /\ ~(L[j] \subseteq L[i])
  OBVIOUS
<1> HIDE DEF L
<1>6. j # i
  BY <1>5
<1>7. j \in 1..n /\ j - 1 \in i..n /\ ~(j <= j - 1)
  BY <1>1, <1>5, <1>6
<1>8. L[j - 1] \subseteq L[i]
  BY <1>4, <1>7
<1> QED BY <1>3, <1>5, <1>7, <1>8

\* Who waits after rt_event_send is not satisfied by what it left.
LEMMA SendLeaves ==
    ASSUME KInv, NEW e \in Events, NEW bits, SendBits(e, bits), e \in DOMAIN set,
           NEW t \in Range(suspend_thread'[e])
    PROVE  ~Satisfies(set'[e], event_set'[t], event_info'[t])
<1> DEFINE q == suspend_thread[e]
           sent == set[e] \cup bits
<1>1. e \in Lists /\ q \in Seq(Threads)
  BY EventLists DEF KInv, WaitersOK
<1>2. t \in Range(q) /\ t \notin Sent(e, bits)
  BY <1>1, SendResumes DEF Resumes, Less
<1>3. PICK i \in DOMAIN q : t = q[i]
  BY <1>2 DEF Range
<1>4. i \notin Satisfied(sent, q)
  BY <1>2, <1>3 DEF Sent
<1>5. ~Satisfies(Left(sent, q)[i - 1], event_set[t], event_info[t])
  BY <1>3, <1>4 DEF Satisfied
<1>6. event_info' = event_info /\ set'[e] = Left(sent, q)[Len(q)]
  BY DEF SendBits
<1>7. t \in Threads /\ event_set'[t] = event_set[t]
  <2>1. t \in Threads
    BY <1>1, <1>3, ElementOfSeq, LenProperties
  <2> QED BY <1>2, <2>1 DEF SendBits, Sent
<1> HIDE DEF q, sent
<1>8. i - 1 \in 0..Len(q) /\ Len(q) \in 0..Len(q) /\ i - 1 <= Len(q)
  BY <1>1, <1>3, LenProperties
<1>9. Left(sent, q)[Len(q)] \subseteq Left(sent, q)[i - 1]
  BY <1>1, <1>8, LeftShrinks
<1> QED BY <1>5, <1>6, <1>7, <1>9, MoreSatisfies

EventsOK == /\ DOMAIN set = Events /\ DOMAIN event_set = Threads
            /\ DOMAIN event_info = Threads /\ ReceiversWaitForBits

\* Fewer wait, for the same, and no more bits are set.
LEMMA EventsOKFewer ==
    ASSUME EventsOK, UNCHANGED <<event_set, event_info>>, DOMAIN set' = Events,
           \A e \in Events : set'[e] \subseteq set[e],
           \A e \in Events : Range(suspend_thread'[e]) \subseteq Range(suspend_thread[e])
    PROVE  EventsOK'
<1>1. ASSUME NEW e \in Events, NEW t \in Range(suspend_thread'[e])
      PROVE  ~Satisfies(set'[e], event_set'[t], event_info'[t])
  <2>1. t \in Range(suspend_thread[e]) /\ set'[e] \subseteq set[e]
    BY <1>1
  <2>2. ~Satisfies(set[e], event_set[t], event_info[t])
    BY <1>1, <2>1 DEF EventsOK, ReceiversWaitForBits
  <2> QED BY <2>1, <2>2, MoreSatisfies
<1> QED BY <1>1 DEF EventsOK, ReceiversWaitForBits

LEMMA EventsSpared ==
    ASSUME EventsOK, UNCHANGED evars, NEW S, KStep(S), S \cap Events = {}
    PROVE  EventsOK'
<1>1. \A e \in Events : e \in Lists \ S
  BY EventLists
<1>2. \A e \in Events : Range(suspend_thread'[e]) \subseteq Range(suspend_thread[e])
  BY <1>1 DEF KStep, JoinStep
<1> QED BY <1>2, EventsOKFewer DEF evars, EventsOK

\* An event nobody waits for.
LEMMA EventsEmptied ==
    ASSUME EventsOK, KStep({}), NEW e \in Events, EventSetUp(e),
           \A l \in Range(ListsOf[e]) : suspend_thread'[l] = <<>>
    PROVE  EventsOK'
<1>1. \A d \in Events : d \in Lists \ {}
  BY EventLists
<1>2. \A d \in Events : Range(suspend_thread'[d]) \subseteq Range(suspend_thread[d])
  BY <1>1 DEF KStep, JoinStep
<1>3. /\ UNCHANGED <<event_set, event_info>> /\ set' = [set EXCEPT ![e] = {}]
  BY DEF EventSetUp
<1>4. \A d \in Events : set'[d] \subseteq set[d]
  BY <1>3 DEF EventsOK
<1> QED BY <1>2, <1>3, <1>4, EventsOKFewer DEF EventsOK

LEMMA EventsSent ==
    ASSUME KInv, EventsOK, NEW e \in Events, NEW bits, SendBits(e, bits)
    PROVE  EventsOK'
<1>1. \A d \in Events : d \in Lists
  BY EventLists
<1>2. /\ set' = [set EXCEPT ![e] = Left(set[e] \cup bits, suspend_thread[e])
                                       [Len(suspend_thread[e])]]
      /\ event_info' = event_info /\ DOMAIN event_set' = Threads
      /\ \A t \in Threads \ Sent(e, bits) : event_set'[t] = event_set[t]
  BY DEF SendBits, Sent
<1>3. /\ Sent(e, bits) \subseteq Range(suspend_thread[e])
      /\ \A d \in Events :
            Range(suspend_thread'[d]) = Range(suspend_thread[d]) \ Sent(e, bits)
  BY <1>1, SendResumes DEF Resumes, Less
<1>4. ASSUME NEW d \in Events, NEW t \in Range(suspend_thread'[d])
      PROVE  ~Satisfies(set'[d], event_set'[t], event_info'[t])
  <2>1. CASE d = e
    BY <1>4, <2>1, SendLeaves DEF EventsOK
  <2>2. CASE d # e
    <3>1. t \in Range(suspend_thread[d]) /\ t \notin Sent(e, bits)
      BY <1>3, <1>4
    <3>2. t \in Threads
      BY <1>1, <3>1, WaitersAreThreads DEF KInv, WaitersOK
    <3>3. event_set'[t] = event_set[t] /\ set'[d] = set[d]
      BY <1>2, <2>2, <3>1, <3>2 DEF EventsOK
    <3> QED BY <1>2, <3>1, <3>3 DEF EventsOK, ReceiversWaitForBits
  <2> QED BY <2>1, <2>2
<1> QED BY <1>2, <1>4 DEF EventsOK, ReceiversWaitForBits

\* A thread that runs is on no list.
LEMMA ReadyIsListed ==
    ASSUME KInv, NEW c, stat[c] = "READY", NEW l \in Lists
    PROVE  c \notin Range(suspend_thread[l])
BY DEF KInv, WaitersOK

LEMMA EventsWait ==
    ASSUME KInv, api \in Apis, EventsOK, NEW c \in Threads, NEW e \in Events, NEW asked,
           NEW option, NEW timed, EventWait(c, e, asked, option, timed)
    PROVE  EventsOK'
<1>1. \A d \in Events : d \in Lists
  BY EventLists
<1>2. /\ event_set' = [event_set EXCEPT ![c] = asked]
      /\ event_info' = [event_info EXCEPT ![c] = option] /\ set' = set
      /\ ~Satisfies(set[e], asked, option) /\ \E call : Call(c, call)
  BY DEF EventWait
<1>3. /\ event_set'[c] = asked /\ event_info'[c] = option
      /\ DOMAIN event_set' = Threads /\ DOMAIN event_info' = Threads
      /\ \A t \in Threads \ {c} : event_set'[t] = event_set[t]
                                  /\ event_info'[t] = event_info[t]
  BY <1>2 DEF EventsOK
<1>4. suspend_thread' = [suspend_thread EXCEPT ![e] = Enqueued(e, c)]
  BY DEF EventWait, Wait, WaitOn, Suspended
<1>5. \A d \in Events \ {e} : suspend_thread'[d] = suspend_thread[d]
  BY <1>1, <1>4 DEF KInv, WaitersOK
<1>6. Range(suspend_thread'[e]) \subseteq Range(suspend_thread[e]) \cup {c}
  BY <1>1, <1>4, EnqueuedIs DEF KInv, WaitersOK
<1>7. \A d \in Events : /\ Range(suspend_thread[d]) \subseteq Threads
                        /\ c \notin Range(suspend_thread[d])
  BY <1>1, <1>2, Calls, ReadyIsListed, WaitersAreThreads DEF KInv, WaitersOK
<1>8. ASSUME NEW d \in Events, NEW t \in Range(suspend_thread'[d])
      PROVE  ~Satisfies(set'[d], event_set'[t], event_info'[t])
  <2>1. CASE t = c
    <3>1. d = e
      BY <1>5, <1>7, <1>8, <2>1
    <3> QED BY <1>2, <1>3, <2>1, <3>1
  <2>2. CASE t # c
    <3>1. t \in Range(suspend_thread[d])
      BY <1>5, <1>6, <1>8, <2>2
    <3>2. event_set'[t] = event_set[t] /\ event_info'[t] = event_info[t]
      BY <1>3, <1>7, <2>2, <3>1
    <3> QED BY <1>2, <3>1, <3>2 DEF EventsOK, ReceiversWaitForBits
  <2> QED BY <2>1, <2>2
<1> QED BY <1>2, <1>3, <1>8 DEF EventsOK, ReceiversWaitForBits

LEMMA EventsOKReturn ==
    ASSUME KInv, EventsOK, NEW c \in Threads, EventReturn(c)
    PROVE  EventsOK'
<1>1. /\ suspend_thread' = suspend_thread /\ set' = set
      /\ event_set' = [event_set EXCEPT ![c] = {}]
      /\ event_info' = [event_info EXCEPT ![c] = <<"OR", "KEEP">>]
      /\ At(c, "received")
  BY DEF EventReturn, lists
<1>2. stat[c] = "READY"
  BY <1>1, Continues
<1>3. ASSUME NEW d \in Events, NEW t \in Range(suspend_thread'[d])
      PROVE  ~Satisfies(set'[d], event_set'[t], event_info'[t])
  <2>1. d \in Lists /\ t # c
    BY <1>1, <1>2, <1>3, EventLists, ReadyIsListed
  <2>2. t \in Threads
    BY <1>1, <1>3, <2>1, WaitersAreThreads DEF KInv, WaitersOK
  <2>3. event_set'[t] = event_set[t] /\ event_info'[t] = event_info[t]
    BY <1>1, <2>1, <2>2 DEF EventsOK
  <2> QED BY <1>1, <1>3, <2>3 DEF EventsOK, ReceiversWaitForBits
<1> QED BY <1>1, <1>3 DEF EventsOK, ReceiversWaitForBits

LEMMA EventsOKStep ==
    ASSUME KInv, api \in Apis, EventsOK, EventNext
    PROVE  EventsOK'
<1>0. \A e \in Events : e \in Objects
  BY EventLists
<1>1. ASSUME NEW e \in Events, NEW c, NEW bits, EventSend(c, e, bits) \/ IsrEventSend(e, bits)
      PROVE  EventsOK'
  BY <1>1, EventsSent DEF EventSend, IsrEventSend
<1>2. ASSUME NEW c \in Threads, NEW e \in Events,
             EventInitialise(c, e) \/ EventCreate(c, e) \/ EventReset(c, e)
      PROVE  EventsOK'
  <2>1. KStep({})
    BY <1>0, <1>2, MakeStep, ResetStep
       DEF EventInitialise, EventCreate, EventReset, InitObject, CreateObject
  <2>2. \A l \in Range(ListsOf[e]) : suspend_thread'[l] = <<>>
    BY <1>0, <1>2, MadeEmpty, ResetEmpty DEF EventInitialise, EventCreate, EventReset
  <2>3. EventSetUp(e)
    BY <1>2 DEF EventInitialise, EventCreate, EventReset, EventSetUp
  <2> QED BY <2>1, <2>2, <2>3, EventsEmptied
<1>3. ASSUME NEW c \in Threads, NEW e \in Events, EventDetach(c, e) \/ EventDelete(c, e)
      PROVE  EventsOK'
  <2>1. KStep({}) /\ UNCHANGED evars
    BY <1>0, <1>3, EndStep DEF EventDetach, EventDelete, DetachObject, DeleteObject
  <2> QED BY <2>1, EventsSpared
<1>4. ASSUME NEW c, NEW e \in Events, NEW asked, NEW option,
             EventRecv(c, e, asked, option) \/ EventTry(c, e, asked, option)
      PROVE  EventsOK'
  <2>1. /\ suspend_thread' = suspend_thread /\ UNCHANGED <<event_set, event_info>>
        /\ set' = set \/ set' = [set EXCEPT ![e] = @ \ asked]
    BY <1>4 DEF EventRecv, EventTry, lists, evars
  <2>2. DOMAIN set' = Events /\ \A d \in Events : set'[d] \subseteq set[d]
    BY <2>1 DEF EventsOK
  <2> QED BY <2>1, <2>2, EventsOKFewer
<1> QED BY <1>1, <1>2, <1>3, <1>4, EventsWait, EventsOKReturn DEF EventNext, EventStep

LEMMA EventsKept ==
    ASSUME SettledInv, [AllNext]_vars, EventsOK
    PROVE  EventsOK'
<1>1. CASE UNCHANGED evars /\ Spares(Events, {})
  <2>1. (Lists \ Events) \cap Events = {}
    OBVIOUS
  <2> QED BY <1>1, <2>1, EventsSpared DEF Spares
<1> QED BY <1>1, OthersSpare, EventsOKStep DEF SettledInv

LEMMA EventsAtStart ==
    ASSUME AllInit
    PROVE  EventsOK
<1>1. /\ set = [e \in Events |-> {}] /\ event_set = [t \in Threads |-> {}]
      /\ event_info = [t \in Threads |-> <<"OR", "KEEP">>]
      /\ \A e \in Events : suspend_thread[e] = <<>>
  BY EventLists DEF AllInit, EventInit, IpcInit, Init
<1>2. \A e \in Events : Range(suspend_thread[e]) = {}
  BY <1>1, EmptySeq DEF Range
<1> QED BY <1>1, <1>2 DEF EventsOK, ReceiversWaitForBits

-----------------------------------------------------------------------------
(* All of them.                                                            *)

WaitersInv == /\ SettledInv /\ PoolsOK /\ TakersOK /\ EventsOK /\ MailsOK /\ MsgsOK
              /\ WaitersOfPools

LEMMA NobodyIsInVain ==
    ASSUME WaitersInv
    PROVE  NobodyWaitsInVain
<1>1. TakersWaitForTokens
  BY DEF WaitersInv, TakersOK
<1>2. ReceiversWaitForBits
  BY DEF WaitersInv, EventsOK
<1>3. PostmenWait
  BY DEF WaitersInv, MailsOK, MailOK, Covered, PostmenWait
<1>4. ReadersWait
  BY DEF WaitersInv, MsgsOK, MsgOK, Covered, ReadersWait
<1>5. AllocatorsWait
  BY DEF WaitersInv, WaitersOfPools, PoolOK, Covered, AllocatorsWait
<1> QED BY <1>1, <1>2, <1>3, <1>4, <1>5 DEF NobodyWaitsInVain

\* Nobody waits for what is there: for a token in the semaphore, bits that are set, or
\* a mail, a message, room or a block that no other thread has been resumed to take,
\* while the count of the waiters of a pool is not at the limit of its word.
THEOREM NobodyWaitsInVainHolds == AllSpec /\ Settled /\ []CountsFit => []NobodyWaitsInVain
<1>1. AllInit /\ Settled => WaitersInv
  BY StartIsSettled, PoolsAtStart, TakersAtStart, EventsAtStart, MailsAtStart, MsgsAtStart,
     PoolWaitersAtStart DEF WaitersInv
<1>2. WaitersInv /\ CountsFit /\ [AllNext]_vars => WaitersInv'
  <2> SUFFICES ASSUME WaitersInv, CountsFit, [AllNext]_vars PROVE WaitersInv'
    OBVIOUS
  <2>1. SettledInv' /\ PoolsOK'
    BY StepIsSettled, PoolsStillOK DEF WaitersInv
  <2>2. TakersOK' /\ EventsOK' /\ MailsOK' /\ MsgsOK'
    BY TakersKept, EventsKept, MailsKept, MsgsKept DEF WaitersInv
  <2>3. WaitersOfPools'
    BY PoolWaitersKept DEF WaitersInv
  <2> QED BY <2>1, <2>2, <2>3 DEF WaitersInv
<1>3. WaitersInv => NobodyWaitsInVain
  BY NobodyIsInVain
<1> QED BY <1>1, <1>2, <1>3, PTL DEF AllSpec

-----------------------------------------------------------------------------
(* Chains of messages: the sequence that the links make.                   *)

\* The messages of s, each once, as next links them from first on.
Distinct(s) == s \in Seq(Messages) /\ \A i, j \in 1..Len(s) : s[i] = s[j] => i = j

Strings(s, first, next) ==
    /\ Distinct(s)
    /\ first = IF s = <<>> THEN Null ELSE s[1]
    /\ \A i \in 1..Len(s) : next[s[i]] = IF i = Len(s) THEN Null ELSE s[i + 1]

\* Null is no message.
LEMMA MessagesAre ==
    /\ MaxMsgs \in Nat \ {0} /\ Null \notin Messages /\ Messages = 1..MaxMsgs
    /\ Messages \subseteq Nat /\ Null = 0
BY QueueAssumption DEF Messages, Null

\* The members of a sequence.
LEMMA InRange ==
    ASSUME NEW S, NEW s \in Seq(S)
    PROVE  /\ \A x : x \in Range(s) <=> \E i \in 1..Len(s) : s[i] = x
           /\ \A i \in 1..Len(s) : s[i] \in Range(s) /\ s[i] \in S
           /\ Len(s) \in Nat /\ Range(s) \subseteq S
           /\ s = <<>> <=> Len(s) = 0
           /\ s = <<>> <=> Range(s) = {}
<1>1. DOMAIN s = 1..Len(s) /\ Len(s) \in Nat /\ \A i \in 1..Len(s) : s[i] \in S
  BY LenProperties, ElementOfSeq
<1>2. s = <<>> <=> Len(s) = 0
  BY EmptySeq
<1>3. s = <<>> <=> Range(s) = {}
  <2>1. CASE Len(s) = 0
    BY <1>1, <1>2, <2>1 DEF Range
  <2>2. CASE Len(s) # 0
    <3>1. 1 \in DOMAIN s
      BY <1>1, <2>2
    <3> QED BY <1>2, <2>2, <3>1 DEF Range
  <2> QED BY <2>1, <2>2
<1> QED BY <1>1, <1>2, <1>3 DEF Range

\* Messages that are all different are at most max_msgs.
LEMMA DistinctFits ==
    ASSUME NEW s, Distinct(s)
    PROVE  /\ Len(s) <= MaxMsgs /\ Len(s) \in Nat
           /\ Cardinality(Range(s)) = Len(s)
<1>1. /\ s \in Seq(Messages) /\ Len(s) \in Nat /\ DOMAIN s = 1..Len(s)
      /\ \A i \in 1..Len(s) : s[i] \in Messages
  BY InRange, LenProperties DEF Distinct
<1>2. s \in Injection(1..Len(s), Range(s)) /\ Range(s) \subseteq Messages
  BY <1>1, InRange DEF Injection, IsInjective, Distinct, Range
<1>3. IsFiniteSet(Messages) /\ Cardinality(Messages) = MaxMsgs
      /\ IsFiniteSet(1..Len(s)) /\ Cardinality(1..Len(s)) = Len(s)
  <2>1. ASSUME NEW n \in Nat PROVE IsFiniteSet(1..n) /\ Cardinality(1..n) = n
    BY FS_Interval
  <2> QED BY <1>1, <2>1, MessagesAre
<1>4. s \in Surjection(1..Len(s), Range(s))
  BY <1>1, <1>2 DEF Surjection, Range, Injection
<1>5. Cardinality(Range(s)) = Len(s)
  <2> DEFINE D == 1..Len(s)
             R == Range(s)
  <2>1. s \in Bijection(1..Len(s), Range(s))
    BY <1>2, <1>4 DEF Bijection
  <2>2. s \in Bijection(D, R) /\ IsFiniteSet(D)
    BY <1>3, <2>1
  <2> HIDE DEF D, R
  <2>3. Cardinality(D) = Cardinality(R)
    BY <2>2, FS_Bijection DEF ExistsBijection
  <2> QED BY <1>3, <2>3 DEF D, R
<1>6. Cardinality(Range(s)) <= Cardinality(Messages)
  BY <1>2, <1>3, FS_Subset
<1> QED BY <1>1, <1>3, <1>5, <1>6

\* Links of other messages do not matter.
LEMMA StringsSame ==
    ASSUME NEW s, NEW first, NEW next, Strings(s, first, next),
           NEW next2, \A x \in Range(s) : next2[x] = next[x]
    PROVE  Strings(s, first, next2)
BY InRange DEF Strings, Distinct

\* The first message is Null exactly if there is none.
LEMMA StringsFirst ==
    ASSUME NEW s, NEW first, NEW next, Strings(s, first, next)
    PROVE  /\ s \in Seq(Messages) /\ (first = Null <=> s = <<>>)
           /\ s # <<>> => first \in Range(s) /\ first \in Messages /\ first = Head(s)
BY InRange, MessagesAre DEF Strings, Distinct

\* The first message is unlinked, ...
LEMMA StringsTail ==
    ASSUME NEW s, NEW first, NEW next, Strings(s, first, next), s # <<>>
    PROVE  Strings(Tail(s), next[first], next) /\ Range(Tail(s)) = Range(s) \ {first}
<1>1. /\ s \in Seq(Messages) /\ Len(s) \in Nat /\ Len(s) # 0 /\ 1 \in 1..Len(s)
      /\ s[1] = first
  BY InRange DEF Strings, Distinct
<1> DEFINE t == Tail(s)
<1>2. /\ t \in Seq(Messages) /\ Len(t) = Len(s) - 1 /\ \A i \in 1..Len(t) : t[i] = s[i + 1]
  BY <1>1
<1> HIDE DEF t
<1>3. \A i \in 1..Len(t) : i + 1 \in 1..Len(s) /\ (i = Len(t) <=> i + 1 = Len(s))
  BY <1>1, <1>2
<1>4. ASSUME NEW i \in 1..Len(t), NEW j \in 1..Len(t), t[i] = t[j] PROVE i = j
  <2>1. i + 1 = j + 1
    BY <1>2, <1>3, <1>4 DEF Strings, Distinct
  <2> QED BY <2>1
<1>5. ASSUME NEW i \in 1..Len(t)
      PROVE  next[t[i]] = IF i = Len(t) THEN Null ELSE t[i + 1]
  <2>1. next[s[i + 1]] = IF i + 1 = Len(s) THEN Null ELSE s[(i + 1) + 1]
    BY <1>3 DEF Strings
  <2>2. i # Len(t) => i + 1 \in 1..Len(t)
    BY <1>1, <1>2
  <2> QED BY <1>2, <1>3, <2>1, <2>2
<1>6. next[first] = IF t = <<>> THEN Null ELSE t[1]
  <2>1. next[s[1]] = IF 1 = Len(s) THEN Null ELSE s[1 + 1]
    BY <1>1 DEF Strings
  <2>2. t = <<>> <=> Len(s) = 1
    BY <1>1, <1>2, InRange
  <2>3. t # <<>> => 1 \in 1..Len(t)
    BY <1>1, <1>2, <2>2
  <2> QED BY <1>1, <1>2, <2>1, <2>2, <2>3
<1>7. Range(t) = Range(s) \ {first}
  <2>1. ASSUME NEW x \in Range(t) PROVE x \in Range(s) \ {first}
    <3>1. PICK i \in 1..Len(t) : t[i] = x
      BY <1>2, InRange
    <3>2. x = s[i + 1] /\ i + 1 \in 1..Len(s) /\ i + 1 # 1
      BY <1>2, <1>3, <3>1
    <3> QED BY <1>1, <3>2, InRange DEF Strings, Distinct
  <2>2. ASSUME NEW x \in Range(s) \ {first} PROVE x \in Range(t)
    <3>1. PICK i \in 1..Len(s) : s[i] = x
      BY <1>1, InRange
    <3>2. i # 1
      BY <1>1, <3>1
    <3>3. i - 1 \in 1..Len(t) /\ (i - 1) + 1 = i
      BY <1>1, <1>2, <3>2
    <3>4. t[i - 1] = x
      BY <1>2, <3>1, <3>3
    <3> QED BY <1>2, <3>3, <3>4, InRange
  <2> QED BY <2>1, <2>2
<1>8. Strings(t, next[first], next)
  BY <1>2, <1>4, <1>5, <1>6 DEF Strings, Distinct
<1> QED BY <1>7, <1>8 DEF t

\* ... one is linked before the first, ...
LEMMA StringsBefore ==
    ASSUME NEW s, NEW first, NEW next, Strings(s, first, next),
           NEW m \in Messages, m \notin Range(s), NEW next2, next2[m] = first,
           \A x \in Range(s) : next2[x] = next[x]
    PROVE  Strings(<<m>> \o s, m, next2) /\ Range(<<m>> \o s) = Range(s) \cup {m}
<1>1. s \in Seq(Messages) /\ Len(s) \in Nat
  BY InRange DEF Strings, Distinct
<1> DEFINE t == <<m>> \o s
<1>2. /\ t \in Seq(Messages) /\ Len(t) = Len(s) + 1 /\ t[1] = m
      /\ \A i \in 1..Len(t) : i # 1 => t[i] = s[i - 1]
  BY <1>1
<1> HIDE DEF t
<1>3. \A i \in 1..Len(t) : i # 1 => i - 1 \in 1..Len(s) /\ (i = Len(t) <=> i - 1 = Len(s))
                                    /\ (i - 1) + 1 = i
  BY <1>1, <1>2
<1>4. ASSUME NEW i \in 1..Len(t), NEW j \in 1..Len(t), t[i] = t[j] PROVE i = j
  <2>1. CASE i = 1 \/ j = 1
    <3>1. \A k \in 1..Len(t) : k # 1 => t[k] # m
      BY <1>1, <1>2, <1>3, InRange
    <3> QED BY <1>2, <1>4, <2>1, <3>1
  <2>2. CASE i # 1 /\ j # 1
    <3>1. i - 1 = j - 1
      BY <1>2, <1>3, <1>4, <2>2 DEF Strings, Distinct
    <3> QED BY <3>1
  <2> QED BY <2>1, <2>2
<1>5. ASSUME NEW i \in 1..Len(t)
      PROVE  next2[t[i]] = IF i = Len(t) THEN Null ELSE t[i + 1]
  <2>1. CASE i = 1
    <3>1. s = <<>> <=> Len(t) = 1
      BY <1>1, <1>2, InRange
    <3>2. s # <<>> => t[1 + 1] = s[1]
      <4>1. s # <<>> => 1 + 1 \in 1..Len(t) /\ 1 + 1 # 1 /\ (1 + 1) - 1 = 1
        BY <1>1, <1>2, <3>1
      <4> QED BY <1>2, <4>1
    <3> QED BY <1>2, <2>1, <3>1, <3>2 DEF Strings
  <2>2. CASE i # 1
    <3>1. t[i] = s[i - 1] /\ s[i - 1] \in Range(s)
      BY <1>1, <1>2, <1>3, <2>2, InRange
    <3>2. next[s[i - 1]] = IF i - 1 = Len(s) THEN Null ELSE s[(i - 1) + 1]
      BY <1>3, <2>2 DEF Strings
    <3>3. i # Len(t) => i + 1 \in 1..Len(t) /\ i + 1 # 1 /\ (i + 1) - 1 = i
      BY <1>1, <1>2
    <3>4. i # Len(t) => t[i + 1] = s[i]
      BY <1>2, <3>3
    <3> QED BY <1>3, <2>2, <3>1, <3>2, <3>4
  <2> QED BY <2>1, <2>2
<1>6. t # <<>>
  BY <1>1, <1>2, InRange
<1>7. Range(t) = Range(s) \cup {m}
  <2>1. ASSUME NEW x \in Range(t) PROVE x \in Range(s) \cup {m}
    <3>1. PICK i \in 1..Len(t) : t[i] = x
      BY <1>2, InRange
    <3> QED BY <1>1, <1>2, <1>3, <3>1, InRange
  <2>2. ASSUME NEW x \in Range(s) PROVE x \in Range(t)
    <3>1. PICK i \in 1..Len(s) : s[i] = x
      BY <1>1, InRange
    <3>2. i + 1 \in 1..Len(t) /\ i + 1 # 1 /\ (i + 1) - 1 = i
      BY <1>1, <1>2
    <3>3. t[i + 1] = x
      BY <1>2, <3>1, <3>2
    <3> QED BY <1>2, <3>2, <3>3, InRange
  <2>3. m \in Range(t)
    <3>1. 1 \in 1..Len(t)
      BY <1>1, <1>2
    <3> QED BY <1>2, <3>1, InRange
  <2> QED BY <2>1, <2>2, <2>3
<1>8. Strings(t, m, next2)
  BY <1>2, <1>4, <1>5, <1>6 DEF Strings, Distinct
<1> QED BY <1>7, <1>8 DEF t

\* ... and one behind the last.
LEMMA StringsBehind ==
    ASSUME NEW s, NEW first, NEW next, Strings(s, first, next),
           NEW m \in Messages, m \notin Range(s), NEW next2, next2[m] = Null,
           s # <<>> => next2[s[Len(s)]] = m,
           \A x \in Range(s) : x # s[Len(s)] => next2[x] = next[x]
    PROVE  /\ Strings(Append(s, m), IF first = Null THEN m ELSE first, next2)
           /\ Range(Append(s, m)) = Range(s) \cup {m}
<1>1. s \in Seq(Messages) /\ Len(s) \in Nat
  BY InRange DEF Strings, Distinct
<1> DEFINE t == Append(s, m)
<1>2. /\ t \in Seq(Messages) /\ Len(t) = Len(s) + 1 /\ t[Len(t)] = m
      /\ \A i \in 1..Len(t) : i # Len(t) => t[i] = s[i] /\ i \in 1..Len(s)
  BY <1>1
<1> HIDE DEF t
<1>4. ASSUME NEW i \in 1..Len(t), NEW j \in 1..Len(t), t[i] = t[j] PROVE i = j
  <2>1. CASE i = Len(t) \/ j = Len(t)
    BY <1>1, <1>2, <1>4, <2>1, InRange
  <2>2. CASE i # Len(t) /\ j # Len(t)
    BY <1>2, <1>4, <2>2 DEF Strings, Distinct
  <2> QED BY <2>1, <2>2
<1>5. ASSUME NEW i \in 1..Len(t)
      PROVE  next2[t[i]] = IF i = Len(t) THEN Null ELSE t[i + 1]
  <2>1. CASE i = Len(t)
    BY <1>2, <2>1
  <2>2. CASE i # Len(t) /\ i = Len(s)
    <3>1. s # <<>>
      BY <1>1, <2>2, InRange
    <3> QED BY <1>2, <2>2, <3>1
  <2>3. CASE i # Len(t) /\ i # Len(s)
    <3>1. t[i] = s[i] /\ i \in 1..Len(s) /\ s[i] \in Range(s) /\ Len(s) \in 1..Len(s)
      BY <1>1, <1>2, <2>3, InRange
    <3>2. s[i] # s[Len(s)]
      BY <2>3, <3>1 DEF Strings, Distinct
    <3>3. next2[s[i]] = s[i + 1]
      BY <2>3, <3>1, <3>2 DEF Strings
    <3>4. i + 1 \in 1..Len(t) /\ i + 1 # Len(t)
      BY <1>1, <1>2, <2>3
    <3>5. t[i + 1] = s[i + 1]
      BY <1>2, <3>4
    <3> QED BY <2>3, <3>1, <3>3, <3>5
  <2> QED BY <2>1, <2>2, <2>3
<1>6. t # <<>> /\ 1 \in 1..Len(t)
  BY <1>1, <1>2, InRange
<1>7. Range(t) = Range(s) \cup {m}
  <2>1. ASSUME NEW x \in Range(t) PROVE x \in Range(s) \cup {m}
    <3>1. PICK i \in 1..Len(t) : t[i] = x
      BY <1>2, InRange
    <3> QED BY <1>1, <1>2, <3>1, InRange
  <2>2. ASSUME NEW x \in Range(s) PROVE x \in Range(t)
    <3>1. PICK i \in 1..Len(s) : s[i] = x
      BY <1>1, InRange
    <3>2. i \in 1..Len(t) /\ i # Len(t)
      BY <1>1, <1>2
    <3>3. t[i] = x
      BY <1>2, <3>1, <3>2
    <3> QED BY <1>2, <3>2, <3>3, InRange
  <2>3. m \in Range(t)
    <3>1. Len(t) \in 1..Len(t)
      BY <1>1, <1>2
    <3> QED BY <1>2, <3>1, InRange
  <2> QED BY <2>1, <2>2, <2>3
<1>9. t[1] = IF first = Null THEN m ELSE first
  <2>1. CASE s = <<>>
    <3>1. Len(t) = 1 /\ first = Null
      BY <1>1, <1>2, <2>1, InRange, StringsFirst
    <3> QED BY <1>2, <3>1
  <2>2. CASE s # <<>>
    <3>1. 1 # Len(t) /\ first # Null /\ first = s[1]
      BY <1>1, <1>2, <2>2, InRange, StringsFirst DEF Strings
    <3> QED BY <1>2, <1>6, <3>1
  <2> QED BY <2>1, <2>2
<1>8. Strings(t, IF first = Null THEN m ELSE first, next2)
  BY <1>2, <1>4, <1>5, <1>6, <1>9 DEF Strings, Distinct
<1> QED BY <1>7, <1>8 DEF t

\* Backwards through the queue, and then the free messages.
Backwards(s, top, next) ==
    \A i \in 1..Len(s) : next[s[i]] = IF i = 1 THEN top ELSE s[i - 1]

LEMMA StringsReturned ==
    ASSUME NEW s, NEW head, NEW next, Strings(s, head, next),
           NEW f, NEW top, Strings(f, top, next), Range(s) \cap Range(f) = {},
           NEW next2, \A x \in Range(f) : next2[x] = next[x], Backwards(s, top, next2)
    PROVE  \E t : /\ Strings(t, IF s = <<>> THEN top ELSE s[Len(s)], next2)
                  /\ Range(t) = Range(s) \cup Range(f)
<1>0. \A i \in 1..Len(s) : next2[s[i]] = IF i = 1 THEN top ELSE s[i - 1]
  BY DEF Backwards
<1> DEFINE n == Len(s)
           k == Len(f)
           t == [i \in 1..n + k |-> IF i <= n THEN s[n + 1 - i] ELSE f[i - n]]
<1>1. /\ s \in Seq(Messages) /\ n \in Nat /\ \A i \in 1..n : s[i] \in Messages
      /\ f \in Seq(Messages) /\ k \in Nat /\ \A i \in 1..k : f[i] \in Messages
      /\ s = <<>> <=> n = 0
      /\ f = <<>> <=> k = 0
  BY InRange DEF Strings, Distinct
<1> HIDE DEF n, k
<1>2. \A i \in 1..n + k : (i <= n => n + 1 - i \in 1..n) /\ (i > n => i - n \in 1..k)
  BY <1>1
<1>3. /\ t \in Seq(Messages) /\ Len(t) = n + k
      /\ \A i \in 1..n + k : t[i] = IF i <= n THEN s[n + 1 - i] ELSE f[i - n]
  BY <1>1, <1>2
<1> HIDE DEF t
<1>4. /\ \A i, j \in 1..n : s[i] = s[j] => i = j
      /\ \A i, j \in 1..k : f[i] = f[j] => i = j
      /\ \A i \in 1..n, j \in 1..k : s[i] # f[j]
  <2>1. \A i \in 1..n, j \in 1..k : s[i] \in Range(s) /\ f[j] \in Range(f)
    BY <1>1, InRange DEF n, k
  <2> QED BY <2>1 DEF Strings, Distinct, n, k
<1>5. ASSUME NEW i \in 1..n + k, NEW j \in 1..n + k, t[i] = t[j] PROVE i = j
  <2>1. CASE i <= n /\ j <= n
    <3>1. n + 1 - i = n + 1 - j
      BY <1>2, <1>3, <1>4, <1>5, <2>1
    <3> QED BY <1>1, <3>1
  <2>2. CASE i > n /\ j > n
    <3>0. ~(i <= n) /\ ~(j <= n) /\ i - n \in 1..k /\ j - n \in 1..k
      BY <1>1, <1>2, <2>2
    <3>1. i - n = j - n
      BY <1>3, <1>4, <1>5, <3>0
    <3> QED BY <1>1, <3>1
  <2>3. CASE i <= n /\ j > n
    <3>0. ~(j <= n) /\ n + 1 - i \in 1..n /\ j - n \in 1..k
      BY <1>1, <1>2, <2>3
    <3> QED BY <1>3, <1>4, <1>5, <2>3, <3>0
  <2>4. CASE i > n /\ j <= n
    <3>0. ~(i <= n) /\ n + 1 - j \in 1..n /\ i - n \in 1..k
      BY <1>1, <1>2, <2>4
    <3> QED BY <1>3, <1>4, <1>5, <2>4, <3>0
  <2> QED BY <1>1, <2>1, <2>2, <2>3, <2>4
<1>6. ASSUME NEW i \in 1..n + k
      PROVE  next2[t[i]] = IF i = n + k THEN Null ELSE t[i + 1]
  <2>0. i \in Nat /\ i >= 1 /\ i <= n + k
    BY <1>1
  <2>1. CASE i < n
    <3>1. /\ t[i] = s[n + 1 - i] /\ n + 1 - i \in 1..n /\ n + 1 - i # 1
          /\ (n + 1 - i) - 1 = n - i
      BY <1>1, <1>2, <1>3, <2>0, <2>1
    <3>2. next2[t[i]] = s[n - i]
      BY <1>0, <3>1 DEF n
    <3>3. /\ i + 1 \in 1..n + k /\ i + 1 <= n /\ n + 1 - (i + 1) = n - i
          /\ i # n + k
      BY <1>1, <2>0, <2>1
    <3>4. t[i + 1] = s[n - i]
      BY <1>3, <3>3
    <3> QED BY <3>2, <3>3, <3>4
  <2>2. CASE i = n
    <3>1. /\ t[i] = s[1] /\ 1 \in 1..n
      <4>1. i <= n /\ n + 1 - i = 1 /\ 1 \in 1..n
        BY <1>1, <2>0, <2>2
      <4> QED BY <1>3, <4>1
    <3>2. next2[t[i]] = top
      BY <1>0, <3>1 DEF n
    <3>3. CASE k = 0
      BY <1>1, <2>2, <3>2, <3>3 DEF Strings
    <3>4. CASE k # 0
      <4>1. /\ i + 1 \in 1..n + k /\ ~(i + 1 <= n) /\ (i + 1) - n = 1 /\ i # n + k
        BY <1>1, <2>0, <2>2, <3>4
      <4>2. t[i + 1] = f[1]
        BY <1>3, <4>1
      <4> QED BY <1>1, <3>2, <3>4, <4>1, <4>2 DEF Strings
    <3> QED BY <3>3, <3>4
  <2>3. CASE i > n
    <3>1. t[i] = f[i - n] /\ i - n \in 1..k /\ (i = n + k <=> i - n = k)
      BY <1>1, <1>2, <1>3, <2>0, <2>3
    <3>2. f[i - n] \in Range(f)
      BY <1>1, <3>1, InRange DEF k
    <3>3. next2[t[i]] = IF i - n = k THEN Null ELSE f[(i - n) + 1]
      BY <3>1, <3>2 DEF Strings, k
    <3>4. ASSUME i # n + k PROVE t[i + 1] = f[(i - n) + 1]
      <4>1. /\ i + 1 \in 1..n + k /\ ~(i + 1 <= n) /\ (i + 1) - n = (i - n) + 1
        BY <1>1, <2>0, <2>3, <3>4
      <4> QED BY <1>3, <4>1
    <3> QED BY <3>1, <3>3, <3>4
  <2> QED BY <1>1, <2>0, <2>1, <2>2, <2>3
<1> DEFINE first == IF s = <<>> THEN top ELSE s[n]
<1>7. first = IF t = <<>> THEN Null ELSE t[1]
  <2>0. t = <<>> <=> n + k = 0
    BY <1>3, InRange
  <2>1. CASE n # 0
    <3>1. 1 \in 1..n + k /\ 1 <= n /\ n + 1 - 1 = n
      BY <1>1, <2>1
    <3>2. t[1] = s[n]
      BY <1>3, <3>1
    <3> QED BY <1>1, <2>0, <2>1, <3>2
  <2>2. CASE n = 0 /\ k = 0
    BY <1>1, <2>0, <2>2 DEF Strings
  <2>3. CASE n = 0 /\ k # 0
    <3>1. 1 \in 1..n + k /\ ~(1 <= n) /\ 1 - n = 1
      BY <1>1, <2>3
    <3>2. t[1] = f[1]
      BY <1>3, <3>1
    <3> QED BY <1>1, <2>0, <2>3, <3>2 DEF Strings
  <2> QED BY <2>1, <2>2, <2>3
<1>8. Range(t) = Range(s) \cup Range(f)
  <2>1. ASSUME NEW x \in Range(t) PROVE x \in Range(s) \cup Range(f)
    <3>1. PICK i \in 1..n + k : t[i] = x
      BY <1>3, InRange
    <3>2. CASE i <= n
      <4>1. x = s[n + 1 - i] /\ n + 1 - i \in 1..n
        BY <1>2, <1>3, <3>1, <3>2
      <4> QED BY <1>1, <4>1, InRange DEF n
    <3>3. CASE i > n
      <4>1. x = f[i - n] /\ i - n \in 1..k
        BY <1>1, <1>2, <1>3, <3>1, <3>3
      <4> QED BY <1>1, <4>1, InRange DEF k
    <3> QED BY <1>1, <3>2, <3>3
  <2>2. ASSUME NEW x \in Range(s) PROVE x \in Range(t)
    <3>1. PICK i \in 1..n : s[i] = x
      BY <1>1, <2>2, InRange DEF n
    <3>2. n + 1 - i \in 1..n + k /\ n + 1 - i <= n /\ n + 1 - (n + 1 - i) = i
      BY <1>1
    <3>3. t[n + 1 - i] = x
      BY <1>3, <3>1, <3>2
    <3> QED BY <1>3, <3>2, <3>3, InRange
  <2>3. ASSUME NEW x \in Range(f) PROVE x \in Range(t)
    <3>1. PICK i \in 1..k : f[i] = x
      BY <1>1, <2>3, InRange DEF k
    <3>2. n + i \in 1..n + k /\ ~(n + i <= n) /\ (n + i) - n = i
      BY <1>1
    <3>3. t[n + i] = x
      BY <1>3, <3>1, <3>2
    <3> QED BY <1>3, <3>2, <3>3, InRange
  <2> QED BY <2>1, <2>2, <2>3
<1>9. Strings(t, first, next2)
  <2>1. Distinct(t)
    BY <1>3, <1>5 DEF Distinct
  <2>2. \A i \in 1..Len(t) : next2[t[i]] = IF i = Len(t) THEN Null ELSE t[i + 1]
    BY <1>3, <1>6
  <2> HIDE DEF first
  <2> QED BY <1>7, <2>1, <2>2 DEF Strings
<1> QED BY <1>8, <1>9 DEF n

\* All messages as they are linked when the queue is set up.
LEMMA StringsAll ==
    ASSUME NEW next, \A m \in Messages : next[m] = m - 1
    PROVE  \E t : Strings(t, MaxMsgs, next) /\ Range(t) = Messages
<1> DEFINE n == MaxMsgs
           t == [i \in 1..n |-> n + 1 - i]
<1>1. n \in Nat \ {0} /\ Messages = 1..n /\ Null = 0
  BY MessagesAre
<1> HIDE DEF n
<1>2. /\ t \in Seq(Messages) /\ Len(t) = n
      /\ \A i \in 1..n : t[i] = n + 1 - i /\ t[i] \in Messages
  <2>1. \A i \in 1..n : n + 1 - i \in Messages
    BY <1>1
  <2> QED BY <1>1, <2>1
<1> HIDE DEF t
<1>3. Distinct(t)
  <2>1. ASSUME NEW i \in 1..n, NEW j \in 1..n, t[i] = t[j] PROVE i = j
    <3>1. n + 1 - i = n + 1 - j
      BY <1>2, <2>1
    <3> QED BY <1>1, <3>1
  <2> QED BY <1>2, <2>1 DEF Distinct
<1>4. ASSUME NEW i \in 1..n PROVE next[t[i]] = IF i = n THEN Null ELSE t[i + 1]
  <2>1. next[t[i]] = (n + 1 - i) - 1
    BY <1>2
  <2>2. i # n => i + 1 \in 1..n
    BY <1>1
  <2>3. (n + 1 - i) - 1 = n - i /\ n + 1 - (i + 1) = n - i /\ (i = n => n - i = 0)
    BY <1>1
  <2> QED BY <1>1, <1>2, <2>1, <2>2, <2>3
<1>5. t # <<>> /\ t[1] = n
  <2>1. 1 \in 1..n /\ n + 1 - 1 = n
    BY <1>1
  <2> QED BY <1>1, <1>2, <2>1, InRange
<1>6. Strings(t, n, next)
  BY <1>2, <1>3, <1>4, <1>5 DEF Strings
<1>7. Range(t) = Messages
  <2>1. ASSUME NEW m \in Messages PROVE m \in Range(t)
    <3>1. n + 1 - m \in 1..n /\ n + 1 - (n + 1 - m) = m
      BY <1>1
    <3>2. t[n + 1 - m] = m
      BY <1>2, <3>1
    <3> QED BY <1>2, <3>1, <3>2, InRange
  <2> QED BY <1>2, <2>1, InRange
<1> QED BY <1>6, <1>7 DEF n

\* The definition of the property finds it.
LEMMA ChainIs ==
    ASSUME NEW q, NEW s, NEW m, Strings(s, m, msg_next[q])
    PROVE  Chain(q, m) = s
<1> DEFINE n == MaxMsgs + 1
           next == msg_next[q]
           Next1(b) == IF b = <<>> THEN m ELSE next[Last(b)]
           Makes(f) == f = [i \in 0..n |->
                              IF i = 0 THEN <<>>
                              ELSE IF Next1(f[i - 1]) = Null THEN f[i - 1]
                                   ELSE Append(f[i - 1], Next1(f[i - 1]))]
           g == CHOOSE f : Makes(f)
           Upto(i) == SubSeq(s, 1, IF i <= Len(s) THEN i ELSE Len(s))
           u == [i \in 0..n |-> Upto(i)]
<1>1. /\ n \in Nat /\ s \in Seq(Messages) /\ Len(s) \in Nat /\ Len(s) <= n
      /\ \A i \in 1..Len(s) : s[i] \in Messages
  <2>1. Distinct(s) /\ s \in Seq(Messages) /\ MaxMsgs \in Nat
    BY MessagesAre DEF Strings, Distinct
  <2>2. Len(s) \in Nat /\ Len(s) <= MaxMsgs /\ \A i \in 1..Len(s) : s[i] \in Messages
    BY <2>1, DistinctFits, InRange
  <2> QED BY <2>1, <2>2
<1>2. ASSUME NEW i \in 0..n
      PROVE  /\ Upto(i) \in Seq(Messages)
             /\ Len(Upto(i)) = IF i <= Len(s) THEN i ELSE Len(s)
             /\ \A j \in 1..Len(Upto(i)) : Upto(i)[j] = s[j]
  <2> DEFINE k == IF i <= Len(s) THEN i ELSE Len(s)
             t == SubSeq(s, 1, k)
  <2>1. k \in 0..Len(s) /\ k \in Nat
    BY <1>1
  <2> HIDE DEF k
  <2>2. t \in Seq(Messages) /\ Len(t) = k /\ \A j \in 1..k : t[j] = s[j]
    BY <1>1, <2>1
  <2> QED BY <2>2 DEF k
<1> HIDE DEF Upto
<1>3. ASSUME NEW i \in 0..n
      PROVE  Upto(i) = IF i = 0 THEN <<>>
                       ELSE IF Next1(Upto(i - 1)) = Null THEN Upto(i - 1)
                            ELSE Append(Upto(i - 1), Next1(Upto(i - 1)))
  <2>1. CASE i = 0
    <3>1. Len(Upto(0)) = 0 /\ Upto(0) \in Seq(Messages)
      BY <1>1, <1>2, <2>1
    <3> QED BY <2>1, <3>1, InRange
  <2>2. CASE i # 0
    <3>1. i - 1 \in 0..n /\ i \in Nat
      BY <1>1, <2>2
    <3> DEFINE b == Upto(i - 1)
               t == Upto(i)
    <3>2. /\ b \in Seq(Messages) /\ Len(b) = IF i - 1 <= Len(s) THEN i - 1 ELSE Len(s)
          /\ \A j \in 1..Len(b) : b[j] = s[j]
      BY <1>2, <3>1
    <3>3. /\ t \in Seq(Messages) /\ Len(t) = IF i <= Len(s) THEN i ELSE Len(s)
          /\ \A j \in 1..Len(t) : t[j] = s[j]
      BY <1>2
    <3> HIDE DEF b, t, next
    <3>4. Next1(b) = IF i <= Len(s) THEN s[i] ELSE Null
      <4>1. CASE b = <<>>
        <5>1. i = 1 \/ Len(s) = 0
          BY <1>1, <3>1, <3>2, <4>1, InRange
        <5>2. m = IF i <= Len(s) THEN s[i] ELSE Null
          BY <1>1, <2>2, <3>1, <5>1, InRange DEF Strings
        <5> QED BY <4>1, <5>2
      <4>2. CASE b # <<>>
        <5>1. Len(b) # 0 /\ Len(b) \in 1..Len(b) /\ Len(b) \in 1..Len(s)
          BY <1>1, <3>1, <3>2, <4>2, InRange
        <5>2. Last(b) = s[Len(b)]
          BY <3>2, <5>1 DEF Last
        <5>3. next[s[Len(b)]] = IF Len(b) = Len(s) THEN Null ELSE s[Len(b) + 1]
          BY <5>1 DEF Strings, next
        <5>4. IF i <= Len(s) THEN Len(b) # Len(s) /\ Len(b) + 1 = i ELSE Len(b) = Len(s)
          BY <1>1, <3>1, <3>2
        <5> QED BY <4>2, <5>2, <5>3, <5>4
      <4> QED BY <4>1, <4>2
    <3>5. CASE i <= Len(s)
      <4>1. s[i] \in Messages /\ s[i] # Null
        BY <1>1, <2>2, <3>1, <3>5, MessagesAre
      <4> DEFINE a == Append(b, s[i])
      <4>2. a \in Seq(Messages) /\ Len(a) = i /\ \A j \in 1..i : a[j] = s[j]
        <5>1. Len(b) = i - 1 /\ Len(b) + 1 = i
          BY <3>1, <3>2, <3>5, <1>1
        <5>2. a \in Seq(Messages) /\ Len(a) = Len(b) + 1 /\ a[Len(b) + 1] = s[i]
              /\ \A j \in 1..Len(b) : a[j] = b[j]
          BY <3>2, <4>1
        <5>3. \A j \in 1..i : j = i \/ j \in 1..Len(b)
          BY <3>1, <5>1
        <5> HIDE DEF a
        <5> QED BY <3>2, <5>1, <5>2, <5>3
      <4> HIDE DEF a
      <4>3. t = a
        BY <3>3, <3>5, <4>2, SeqEqual
      <4> QED BY <2>2, <3>4, <3>5, <4>1, <4>3 DEF a, b, t
    <3>6. CASE i > Len(s)
      <4>1. Len(b) = Len(s) /\ Len(t) = Len(s)
        BY <1>1, <3>1, <3>2, <3>3, <3>6
      <4>2. t = b
        BY <3>2, <3>3, <4>1, SeqEqual
      <4> QED BY <1>1, <2>2, <3>1, <3>4, <3>6, <4>2 DEF b, t
    <3> QED BY <1>1, <3>1, <3>5, <3>6
  <2> QED BY <2>1, <2>2
<1>4. Makes(u)
  <2>1. \A i \in 0..n : u[i] = Upto(i) /\ (i # 0 => u[i - 1] = Upto(i - 1))
    BY <1>1
  <2> HIDE DEF Next1
  <2>2. \A i \in 0..n : u[i] = IF i = 0 THEN <<>>
                               ELSE IF Next1(u[i - 1]) = Null THEN u[i - 1]
                                    ELSE Append(u[i - 1], Next1(u[i - 1]))
    BY <1>3, <2>1
  <2>3. u = [i \in 0..n |-> u[i]]
    OBVIOUS
  <2> HIDE DEF u, n
  <2> QED BY <2>2, <2>3
<1>5. Makes(g)
  <2> HIDE DEF Makes, u
  <2> QED BY <1>4
<1>6. Chain(q, m) = g[n]
  BY DEF Chain
<1> HIDE DEF g
<1>7. \A i \in 0..n : g[i] = IF i = 0 THEN <<>>
                             ELSE IF Next1(g[i - 1]) = Null THEN g[i - 1]
                                  ELSE Append(g[i - 1], Next1(g[i - 1]))
  <2> HIDE DEF Next1
  <2> QED BY <1>5
<1>8. \A i \in 0..n : g[i] = Upto(i)
  <2> DEFINE Bad == {i \in 0..n : g[i] # Upto(i)}
  <2>1. SUFFICES ASSUME Bad # {} PROVE FALSE
    OBVIOUS
  <2>2. Bad \in SUBSET Nat
    BY <1>1
  <2> HIDE DEF Bad
  <2>3. PICK i \in Bad : \A y \in Bad : i <= y
    BY <2>1, <2>2, HasMinimum
  <2>4. i \in 0..n /\ g[i] # Upto(i)
    BY <2>3 DEF Bad
  <2> HIDE DEF Makes, Next1
  <2>5. i # 0
    BY <1>3, <1>7, <2>4
  <2>6. i - 1 \in 0..n /\ ~(i <= i - 1)
    BY <1>1, <2>4, <2>5
  <2>7. g[i - 1] = Upto(i - 1)
    BY <2>3, <2>6 DEF Bad
  <2> QED BY <1>3, <1>7, <2>4, <2>5, <2>7
<1> HIDE DEF Makes, Next1
<1>9. Upto(n) = s
  <2>1. n \in 0..n /\ (n <= Len(s) => n = Len(s))
    BY <1>1
  <2>2. Upto(n) \in Seq(Messages) /\ Len(Upto(n)) = Len(s)
        /\ \A j \in 1..Len(Upto(n)) : Upto(n)[j] = s[j]
    BY <1>2, <2>1
  <2> QED BY <1>1, <2>2, SeqEqual
<1>10. n \in 0..n
  BY <1>1
<1> QED BY <1>6, <1>8, <1>9, <1>10

-----------------------------------------------------------------------------
(* Which threads are in a call that owns a message.  No step of another kind *)
(* makes one of them or goes on with it.                                   *)

\* The calls that own a message are one step long and no others have such a step.
Copies == {"fill", "link", "copy"}

Bare(s) == \A i \in DOMAIN s : s[i][1] \notin Copies

CarriersStill == \A t \in Threads : ~Bare(pc[t]) \/ ~Bare(pc'[t]) => pc'[t] = pc[t]

\* Which sequences of steps are such.
LEMMA BareAre ==
    ASSUME NEW a, NEW b, a[1] \notin Copies
    PROVE  /\ Bare(<<>>) /\ Bare(<<a>>)
           /\ b[1] \notin Copies => Bare(<<a, b>>)
BY DEF Bare

\* A call that owns a message has no other step.
LEMMA CallIsBare ==
    ASSUME KInv, NEW t \in Threads, ~Bare(pc[t])
    PROVE  pc[t] = <<Locals(t)>> /\ Copying(Locals(t))
<1>1. PICK i \in DOMAIN pc[t] : pc[t][i][1] \in Copies
  BY DEF Bare
<1>2. InCall(t)
  BY DEF KInv, CallsOK
<1>3. CASE pc[t] \in Seq(Ending)
  <2>1. pc[t][i] \in Ending
    BY <1>1, <1>3, ElementOfSeq, LenProperties
  <2> QED BY <1>1, <2>1, Tags DEF Copies
<1>4. CASE pc[t] = <<Again(t)>>
  BY <1>1, <1>4 DEF Again, Copies
<1>5. ASSUME NEW w \in Waits(t), InWait(t, w) PROVE FALSE
  <2>1. pc[t][i] = w \/ pc[t][i] = Again(t)
    BY <1>1, <1>5 DEF InWait
  <2> QED BY <1>1, <1>5, <2>1, Tags DEF Copies
<1>6. ASSUME NEW e \in Loops, pc[t] = <<e>> PROVE FALSE
  BY <1>1, <1>6, Tags DEF Copies
<1>7. CASE pc[t] = <<Head(pc[t])>> /\ Copying(Head(pc[t]))
  BY <1>7 DEF Locals
<1> QED BY <1>2, <1>3, <1>4, <1>5, <1>6, <1>7 DEF InCall

\* A thread that neither had nor has a message moves.
LEMMA OneBare ==
    ASSUME KInv, NEW c \in Threads, Bare(pc[c]), Moves(c), Bare(pc'[c])
    PROVE  CarriersStill
BY DEF CarriersStill, Moves

LEMMA GotoBare ==
    ASSUME KInv, NEW c \in Threads, NEW call, Call(c, call), NEW s, Goto(c, s), Bare(s)
    PROVE  CarriersStill
<1>1. pc[c] = <<>>
  BY DEF Call
<1>2. Moves(c) /\ pc'[c] = s
  BY GotoMoves
<1> QED BY <1>1, <1>2, OneBare DEF Bare

LEMMA ProceedBare ==
    ASSUME KInv, NEW c \in Threads, NEW label, At(c, label), label \notin Copies,
           NEW X, NEW s \in Seq(X), Bare(s), Proceed(c, s)
    PROVE  CarriersStill
<1>1. Head(pc[c])[1] = label /\ pc[c] # <<>>
  BY DEF At
<1>2. Bare(pc[c])
  BY <1>1, CallIsBare DEF Copying, Locals, Copies
<1>3. Moves(c) /\ pc'[c] = s \o Tail(pc[c])
  BY ProceedMoves
<1>4. \E Y : Tail(pc[c]) \in Seq(Y) /\ Bare(Tail(pc[c]))
  <2>1. InCall(c)
    BY DEF KInv, CallsOK
  <2>2. CASE pc[c] \in Seq(Ending)
    <3>1. Tail(pc[c]) \in Seq(Ending)
      BY <1>1, <2>2
    <3>2. Bare(Tail(pc[c]))
      <4> SUFFICES ASSUME NEW i \in DOMAIN Tail(pc[c])
                   PROVE  Tail(pc[c])[i][1] \notin Copies
        BY DEF Bare
      <4>1. Tail(pc[c])[i] \in Ending
        BY <3>1, ElementOfSeq, LenProperties
      <4> QED BY <4>1, Tags DEF Copies
    <3> QED BY <3>1, <3>2
  <2>3. ASSUME NEW e, pc[c] = <<e>> PROVE Tail(pc[c]) \in Seq({}) /\ Bare(Tail(pc[c]))
    <3>1. Tail(pc[c]) = <<>>
      BY <2>3
    <3>2. <<>> \in Seq({}) /\ Bare(<<>>)
      BY DEF Bare
    <3> QED BY <3>1, <3>2
  <2>4. ASSUME NEW w, pc[c] = <<Again(c), w>>
        PROVE  Tail(pc[c]) \in Seq({w}) /\ Bare(Tail(pc[c]))
    <3>1. Tail(pc[c]) = <<w>>
      BY <2>4
    <3>2. w[1] \notin Copies
      <4>1. 2 \in DOMAIN pc[c] /\ pc[c][2] = w
        BY <2>4
      <4> QED BY <1>2, <4>1 DEF Bare
    <3>3. <<w>> \in Seq({w})
      OBVIOUS
    <3>4. Bare(<<w>>)
      BY <3>2, BareAre
    <3> QED BY <3>1, <3>3, <3>4
  <2> QED BY <2>1, <2>2, <2>3, <2>4 DEF InCall, InWait
<1>5. PICK Y : Tail(pc[c]) \in Seq(Y) /\ Bare(Tail(pc[c]))
  BY <1>4
<1> DEFINE r == Tail(pc[c])
<1>6. Bare(s \o r)
  <2> SUFFICES ASSUME NEW i \in DOMAIN (s \o r) PROVE (s \o r)[i][1] \notin Copies
    BY DEF Bare
  <2> HIDE DEF r
  <2>1. /\ r \in Seq(Y) /\ Bare(r) /\ Len(s) \in Nat /\ Len(r) \in Nat
        /\ DOMAIN s = 1..Len(s) /\ DOMAIN r = 1..Len(r)
    BY <1>5, LenProperties DEF r
  <2>2. i \in 1..Len(s) + Len(r)
        /\ (s \o r)[i] = IF i <= Len(s) THEN s[i] ELSE r[i - Len(s)]
    BY <2>1
  <2>3. i <= Len(s) => i \in DOMAIN s
    BY <2>1, <2>2
  <2>4. i > Len(s) => i - Len(s) \in DOMAIN r
    BY <2>1, <2>2
  <2> QED BY <2>1, <2>2, <2>3, <2>4 DEF Bare
<1> QED BY <1>2, <1>3, <1>6, OneBare

LEMMA ReturnBare ==
    ASSUME KInv, NEW c \in Threads, NEW label, At(c, label), label \notin Copies, Return(c)
    PROVE  CarriersStill
<1>1. <<>> \in Seq({}) /\ Bare(<<>>) /\ Proceed(c, <<>>)
  BY DEF Bare, Return
<1> QED BY <1>1, ProceedBare

LEMMA OneMoreBare ==
    ASSUME KInv, NEW c \in Threads, NEW label, At(c, label), label \notin Copies,
           NEW a, a[1] \notin Copies, Proceed(c, <<a>>)
    PROVE  CarriersStill
<1>1. <<a>> \in Seq({a})
  OBVIOUS
<1>2. Bare(<<a>>)
  BY BareAre
<1> QED BY <1>1, <1>2, ProceedBare

LEMMA TwoMoreBare ==
    ASSUME KInv, NEW c \in Threads, NEW label, At(c, label), label \notin Copies,
           NEW a, NEW b, a[1] \notin Copies, b[1] \notin Copies, Proceed(c, <<a, b>>)
    PROVE  CarriersStill
<1>1. <<a, b>> \in Seq({a, b})
  OBVIOUS
<1>2. Bare(<<a, b>>)
  BY BareAre
<1> QED BY <1>1, <1>2, ProceedBare

LEMMA AfterResumeBare ==
    ASSUME KInv, NEW c \in Threads, NEW label, At(c, label), label \notin Copies,
           NEW l, Proceed(c, AfterResume(c, l))
    PROVE  CarriersStill
<1>1. Again(c)[1] \notin Copies
  BY DEF Again, Copies
<1>2. CASE AfterResume(c, l) = <<Again(c)>>
  BY <1>1, <1>2, OneMoreBare
<1>3. CASE AfterResume(c, l) = <<>>
  BY <1>3, ReturnBare DEF Return
<1> QED BY <1>2, <1>3, AfterResumeIs

LEMMA LoopWaitsBare ==
    ASSUME KInv, NEW c \in Threads, NEW label, At(c, label), label \notin Copies,
           NEW l, NEW err, LoopWaits(c, l, err)
    PROVE  CarriersStill
<1>1. \/ Proceed(c, << <<"sched", c>>, <<"woken", Locals(c)>> >>)
      \/ Return(c)
  BY DEF LoopWaits
<1>2. <<"sched", c>>[1] \notin Copies /\ <<"woken", Locals(c)>>[1] \notin Copies
  BY DEF Copies
<1> QED BY <1>1, <1>2, TwoMoreBare, ReturnBare

LEMMA StillBare ==
    ASSUME UNCHANGED pc
    PROVE  CarriersStill
BY DEF CarriersStill

-----------------------------------------------------------------------------
\* The actions of the kernel and of the other objects.
LEMMA KernelBare ==
    ASSUME KInv, Settled, Next
    PROVE  CarriersStill
<1> USE DEF Copies
<1>1. ASSUME NEW c \in Threads, NEW call \in Lifecycle, Call(c, call) PROVE FALSE
  BY <1>1 DEF Call, Settled
<1>2. ASSUME NEW c \in Threads, ThreadStep(c) PROVE CarriersStill
  <2>1. ~(\/ ResumeCheck(c) \/ ResumeUnlink(c) \/ ResumeInsert(c) \/ SuspendCheck(c)
          \/ SuspendRemove(c) \/ DeleteRemove(c) \/ DeleteTimer(c) \/ DeleteClose(c)
          \/ DeleteDefunct(c))
    BY AtNothing DEF ResumeCheck, ResumeUnlink, ResumeInsert, SuspendCheck, SuspendRemove,
                     DeleteRemove, DeleteTimer, DeleteClose, DeleteDefunct
  <2>2. \E label \in {"sched", "awake"} : At(c, label) /\ Return(c)
    BY <1>2, <2>1 DEF ThreadStep, Sched, SleepReturn
  <2> QED BY <2>2, ReturnBare
<1>3. ASSUME NEW c \in Threads, ThreadCall(c) PROVE CarriersStill
  <2>1. ~Exit(c) /\ ~EnterCritical(c) /\ ~ExitCritical(c)
    BY <1>1 DEF Exit, EnterCritical, ExitCritical, Lifecycle
  <2>2. ASSUME NEW t
        PROVE  /\ ~Create(c, t) /\ ~Startup(c, t) /\ ~Delete(c, t) /\ ~ResumeCall(c, t)
               /\ ~SuspendCall(c, t)
    BY <1>1 DEF Create, Startup, Delete, ResumeCall, SuspendCall, Lifecycle
  <2>3. ASSUME NEW t, NEW p PROVE ~ChangePriority(c, t, p)
    BY <1>1 DEF ChangePriority, Lifecycle
  <2>4. <<"sched", c>>[1] \notin Copies /\ <<"awake", c>>[1] \notin Copies
    OBVIOUS
  <2>5. Bare(<< <<"sched", c>> >>) /\ Bare(<< <<"sched", c>>, <<"awake", c>> >>)
    BY <2>4, BareAre
  <2>6. \E call, s : Call(c, call) /\ Goto(c, s) /\ Bare(s)
    BY <1>3, <2>1, <2>2, <2>3, <2>5 DEF ThreadCall, Yield, Sleep, ScheduleCall
  <2> QED BY <2>6, GotoBare
<1>4. ~IdleStep
  <2>1. ~Reap
    BY DEF Reap, KInv, Regular
  <2>2. ~Free
    BY AtNothing, KernelAssumption DEF Free
  <2> QED BY <2>1, <2>2 DEF IdleStep
<1>5. ASSUME TickStep PROVE CarriersStill
  BY <1>5, StillBare DEF TickStep, TickEnter, ThreadTimeout, TickExit
<1> QED BY <1>2, <1>3, <1>4, <1>5 DEF Next

LEMMA CommonBare ==
    ASSUME KInv, NEW c \in Threads, IpcStep(c) \/ Woken(c) \/ ResumeOne(c)
    PROVE  CarriersStill
<1> USE DEF Copies
<1>1. ASSUME ResumeAllTest(c) PROVE CarriersStill
  <2>1. /\ At(c, "resumeall")
        /\ \/ Proceed(c, << <<"resumeone", Target(c)>>, <<"resumeall", Target(c)>> >>)
           \/ Return(c)
    BY <1>1 DEF ResumeAllTest
  <2>2. /\ <<"resumeone", Target(c)>>[1] \notin Copies
        /\ <<"resumeall", Target(c)>>[1] \notin Copies
    OBVIOUS
  <2> QED BY <2>1, <2>2, TwoMoreBare, ReturnBare
<1>2. ASSUME ObjectGone(c) \/ ResumeOne(c) PROVE CarriersStill
  <2>1. \E label \in {"gone", "resumeone"} : At(c, label) /\ Return(c)
    BY <1>2 DEF ObjectGone, ResumeOne
  <2> QED BY <2>1, ReturnBare
<1>3. ASSUME Woken(c) PROVE CarriersStill
  <2>1. At(c, "woken") /\ Head(pc[c]) \in Waits(c) /\ Head(pc[c])[1] = "woken"
    BY <1>3, AtWait DEF Woken
  <2>2. Target(c) \in Loops
    <3>1. Head(pc[c]) \in {"woken"} \X Loops
      BY <2>1 DEF Waits
    <3> QED BY <3>1 DEF Target
  <2>3. \/ Return(c)
        \/ \E left : left \in Times /\ Proceed(c, << [Target(c) EXCEPT ![3] = left] >>)
    BY <1>3 DEF Woken, Times
  <2>4. ASSUME NEW left \in Times, Proceed(c, << [Target(c) EXCEPT ![3] = left] >>)
        PROVE  CarriersStill
    <3> DEFINE f == [Target(c) EXCEPT ![3] = left]
    <3>1. f[1] = Target(c)[1]
      BY <2>2, LoopObject
    <3>2. f[1] \notin Copies
      BY <2>2, <3>1, Tags
    <3> HIDE DEF f
    <3> QED BY <2>1, <2>4, <3>2, OneMoreBare DEF f
  <2> QED BY <2>1, <2>3, <2>4, ReturnBare
<1> QED BY <1>1, <1>2, <1>3 DEF IpcStep

LEMMA ObjectBare ==
    ASSUME KInv, NEW c \in Threads, NEW o \in Objects,
           \/ InitObject(c, o) \/ CreateObject(c, o) \/ ResetObject(c, o)
           \/ DetachObject(c, o) \/ DeleteObject(c, o)
    PROVE  CarriersStill
<1> USE DEF Copies
<1>1. CASE InitObject(c, o) \/ CreateObject(c, o)
  BY <1>1, StillBare DEF InitObject, CreateObject, MakeObject, kvars
<1>2. CASE ResetObject(c, o)
  <2>1. <<"sched", c>>[1] \notin Copies
    OBVIOUS
  <2>2. Bare(<< <<"sched", c>> >>)
    BY <2>1, BareAre
  <2> QED BY <1>2, <2>2, GotoBare DEF ResetObject
<1>3. CASE EndObject(c, o)
  <2> DEFINE a == [i \in DOMAIN ListsOf[o] |-> <<"resumeall", ListsOf[o][i]>>]
             b == << <<"gone", o>> >>
  <2>1. a \in Seq(Ending)
    <3>1. ASSUME NEW x, NEW s, s = <<x>>, x \in Lists
          PROVE  [i \in DOMAIN s |-> <<"resumeall", s[i]>>] \in Seq(Ending)
      BY <3>1 DEF Ending
    <3>2. ASSUME NEW x, NEW y, NEW s, s = <<x, y>>, x \in Lists, y \in Lists
          PROVE  [i \in DOMAIN s |-> <<"resumeall", s[i]>>] \in Seq(Ending)
      BY <3>2 DEF Ending
    <3> QED BY <3>1, <3>2, ObjectLists
  <2>2. b \in Seq(Ending)
    BY DEF Ending
  <2>3. Goto(c, a \o b) /\ Call(c, "deleteipc")
    BY <1>3 DEF EndObject
  <2> HIDE DEF a, b
  <2>4. a \o b \in Seq(Ending)
    BY <2>1, <2>2, ConcatProperties
  <2>5. Bare(a \o b)
    <3> SUFFICES ASSUME NEW i \in DOMAIN (a \o b) PROVE (a \o b)[i][1] \notin Copies
      BY DEF Bare
    <3>1. (a \o b)[i] \in Ending
      BY <2>4, ElementOfSeq, LenProperties
    <3> QED BY <3>1, Tags
  <2> QED BY <2>3, <2>5, GotoBare
<1> QED BY <1>1, <1>2, <1>3 DEF DetachObject, DeleteObject

LEMMA GotoResumeBare ==
    ASSUME KInv, NEW c \in Threads, NEW call, Call(c, call), NEW l, Goto(c, AfterResume(c, l))
    PROVE  CarriersStill
<1>1. Again(c)[1] \notin Copies
  BY DEF Again, Copies
<1>2. Bare(AfterResume(c, l))
  BY <1>1, BareAre, AfterResumeIs
<1> QED BY <1>2, GotoBare

LEMMA GotoWaitBare ==
    ASSUME KInv, NEW c \in Threads, NEW call, Call(c, call), NEW a, NEW b,
           a[1] \notin Copies, b[1] \notin Copies,
           Goto(c, <<a, b>>) \/ Goto(c, <<a>>) \/ Goto(c, <<>>)
    PROVE  CarriersStill
BY GotoBare, BareAre

LEMMA SemaphoreBare ==
    ASSUME KInv, SemNext
    PROVE  CarriersStill
<1> USE DEF Copies
<1>1. ASSUME NEW c \in Threads, TakeReturn(c) PROVE CarriersStill
  BY <1>1, ReturnBare DEF TakeReturn
<1>2. ASSUME NEW c \in Threads, NEW s \in Semaphores, NEW v,
             \/ SemInitialise(c, s, v) \/ SemCreate(c, s, v) \/ SemDetach(c, s)
             \/ SemDelete(c, s) \/ SemReset(c, s, v)
      PROVE  CarriersStill
  BY <1>2, ObjectBare, SemaphoreLists
     DEF SemInitialise, SemCreate, SemDetach, SemDelete, SemReset
<1>3. ASSUME NEW c \in Threads, NEW s \in Semaphores, Take(c, s) PROVE CarriersStill
  BY <1>3, StillBare DEF Take, kvars
<1>4. ASSUME NEW c \in Threads, NEW s \in Semaphores, Release(c, s) PROVE CarriersStill
  BY <1>4, GotoResumeBare DEF Release
<1>5. ASSUME NEW c \in Threads, NEW s \in Semaphores, NEW timed, TakeWait(c, s, timed)
      PROVE  CarriersStill
  <2>1. <<"sched", c>>[1] \notin Copies /\ <<"taken", s>>[1] \notin Copies
    OBVIOUS
  <2> QED BY <1>5, <2>1, GotoWaitBare DEF TakeWait
<1>6. ASSUME NEW s, IsrRelease(s) PROVE CarriersStill
  BY <1>6, StillBare DEF IsrRelease
<1> QED BY <1>1, <1>2, <1>3, <1>4, <1>5, <1>6 DEF SemNext, SemStep

LEMMA MutexBare ==
    ASSUME KInv, NEW c \in Threads, MutexStep(c)
    PROVE  CarriersStill
<1> USE DEF Copies
<1>1. ASSUME MutexReturn(c) PROVE CarriersStill
  BY <1>1, ReturnBare DEF MutexReturn
<1>2. ASSUME NEW m \in Mutexes,
             \/ MutexInitialise(c, m) \/ MutexCreate(c, m) \/ MutexDetach(c, m)
             \/ MutexDelete(c, m)
      PROVE  CarriersStill
  BY <1>2, ObjectBare, MutexLists
     DEF MutexInitialise, MutexCreate, MutexDetach, MutexDelete
<1>3. ASSUME NEW m \in Mutexes,
             \/ MutexTake(c, m) \/ MutexAgain(c, m) \/ MutexTry(c, m) \/ MutexRefused(c, m)
             \/ MutexLessOne(c, m)
      PROVE  CarriersStill
  BY <1>3, StillBare DEF MutexTake, MutexAgain, MutexTry, MutexRefused, MutexLessOne, kvars
<1>4. ASSUME NEW m \in Mutexes, MutexRelease(c, m) PROVE CarriersStill
  BY <1>4, GotoResumeBare DEF MutexRelease
<1>5. ASSUME NEW m \in Mutexes, NEW timed, MutexWait(c, m, timed) PROVE CarriersStill
  <2>1. <<"sched", c>>[1] \notin Copies /\ <<"locked", m>>[1] \notin Copies
    OBVIOUS
  <2> QED BY <1>5, <2>1, GotoWaitBare DEF MutexWait
<1> QED BY <1>1, <1>2, <1>3, <1>4, <1>5 DEF MutexStep

LEMMA EventBare ==
    ASSUME KInv, EventNext
    PROVE  CarriersStill
<1> USE DEF Copies
<1>1. ASSUME NEW c \in Threads, EventReturn(c) PROVE CarriersStill
  BY <1>1, ReturnBare DEF EventReturn
<1>2. ASSUME NEW c \in Threads, NEW e \in Events,
             \/ EventInitialise(c, e) \/ EventCreate(c, e) \/ EventDetach(c, e)
             \/ EventDelete(c, e) \/ EventReset(c, e)
      PROVE  CarriersStill
  BY <1>2, ObjectBare, EventLists
     DEF EventInitialise, EventCreate, EventDetach, EventDelete, EventReset
<1>3. ASSUME NEW c \in Threads, NEW e \in Events, NEW bits, NEW option,
             EventRecv(c, e, bits, option) \/ EventTry(c, e, bits, option)
      PROVE  CarriersStill
  BY <1>3, StillBare DEF EventRecv, EventTry, kvars
<1>4. ASSUME NEW c \in Threads, NEW e \in Events, NEW bits, EventSend(c, e, bits)
      PROVE  CarriersStill
  <2>1. <<"sched", c>>[1] \notin Copies
    OBVIOUS
  <2> QED BY <1>4, <2>1, GotoWaitBare DEF EventSend
<1>5. ASSUME NEW c \in Threads, NEW e \in Events, NEW bits, NEW option, NEW timed,
             EventWait(c, e, bits, option, timed)
      PROVE  CarriersStill
  <2>1. <<"sched", c>>[1] \notin Copies /\ <<"received", e>>[1] \notin Copies
    OBVIOUS
  <2> QED BY <1>5, <2>1, GotoWaitBare DEF EventWait
<1>6. ASSUME NEW e, NEW bits, IsrEventSend(e, bits) PROVE CarriersStill
  BY <1>6, StillBare DEF IsrEventSend
<1> QED BY <1>1, <1>2, <1>3, <1>4, <1>5, <1>6 DEF EventNext, EventStep

LEMMA MailboxBare ==
    ASSUME KInv, MailNext
    PROVE  CarriersStill
<1> USE DEF Copies
<1>1. ASSUME NEW c \in Threads, MailSend(c) PROVE CarriersStill
  BY <1>1, LoopWaitsBare, AfterResumeBare DEF MailSend
<1>2. ASSUME NEW c \in Threads, MailRecv(c) PROVE CarriersStill
  BY <1>2, LoopWaitsBare, AfterResumeBare DEF MailRecv
<1>3. ASSUME NEW c \in Threads, NEW mb \in Mailboxes,
             \/ MailInitialise(c, mb) \/ MailCreate(c, mb) \/ MailDetach(c, mb)
             \/ MailDelete(c, mb) \/ MailReset(c, mb)
      PROVE  CarriersStill
  BY <1>3, ObjectBare, MailboxLists
     DEF MailInitialise, MailCreate, MailDetach, MailDelete, MailReset
<1>4. ASSUME NEW c \in Threads, NEW mb \in Mailboxes, NEW wait, MailCall(c, mb, wait)
      PROVE  CarriersStill
  <2>1. /\ <<"mailrecv", mb, wait>>[1] \notin Copies
        /\ \A mail : <<"mailsend", mb, wait, mail>>[1] \notin Copies
    OBVIOUS
  <2> QED BY <1>4, <2>1, GotoWaitBare DEF MailCall
<1>5. ASSUME NEW mb, NEW mail, IsrMailSend(mb, mail) PROVE CarriersStill
  BY <1>5, StillBare DEF IsrMailSend
<1> QED BY <1>1, <1>2, <1>3, <1>4, <1>5 DEF MailNext, MailStep

LEMMA PoolBare ==
    ASSUME KInv, PoolNext
    PROVE  CarriersStill
<1> USE DEF Copies
<1>1. ASSUME NEW c \in Threads, PoolAlloc(c) PROVE CarriersStill
  BY <1>1, LoopWaitsBare, ReturnBare DEF PoolAlloc, PoolWaits
<1>2. ASSUME NEW c \in Threads, PoolResumeOne(c) PROVE CarriersStill
  BY <1>2, CommonBare DEF PoolResumeOne
<1>3. ASSUME NEW c \in Threads, NEW mp \in Pools,
             \/ PoolInitialise(c, mp) \/ PoolCreate(c, mp) \/ PoolDetach(c, mp)
             \/ PoolDelete(c, mp)
      PROVE  CarriersStill
  BY <1>3, ObjectBare, PoolLists DEF PoolInitialise, PoolCreate, PoolDetach, PoolDelete
<1>4. ASSUME NEW c \in Threads, NEW mp \in Pools, NEW wait, PoolCall(c, mp, wait)
      PROVE  CarriersStill
  <2>1. <<"mpalloc", mp, wait>>[1] \notin Copies
    OBVIOUS
  <2> QED BY <1>4, <2>1, GotoWaitBare DEF PoolCall
<1>5. ASSUME NEW c \in Threads, NEW mp \in Pools, NEW b, PoolFree(c, mp, b)
      PROVE  CarriersStill
  <2>1. <<"sched", c>>[1] \notin Copies
    OBVIOUS
  <2> QED BY <1>5, <2>1, GotoWaitBare DEF PoolFree
<1>6. ASSUME NEW mp, NEW b, IsrPoolAlloc(mp) \/ IsrPoolFree(mp, b) PROVE CarriersStill
  BY <1>6, StillBare DEF IsrPoolAlloc, IsrPoolFree
<1> QED BY <1>1, <1>2, <1>3, <1>4, <1>5, <1>6 DEF PoolNext, PoolStep

\* The steps of everything else leave the messages where they are.
LEMMA OthersBare ==
    ASSUME SettledInv, [AllNext]_vars
    PROVE  QueueNext \/ (CarriersStill /\ UNCHANGED qvars)
<1>1. KInv /\ Settled
  BY DEF SettledInv
<1>2. CASE UNCHANGED vars
  BY <1>2, StillBare DEF vars, kvars
<1>3. CASE Next /\ UNCHANGED <<ipcvars, svars, mvars, evars, bvars, qvars, pvars>>
  BY <1>1, <1>3, KernelBare
<1>4. CASE /\ \E c \in Threads : IpcStep(c) \/ Woken(c)
           /\ UNCHANGED <<api, svars, mvars, evars, bvars, qvars, pvars>>
  BY <1>1, <1>4, CommonBare
<1>5. CASE SemNext /\ UNCHANGED <<api, mvars, evars, bvars, qvars, pvars>>
  BY <1>1, <1>5, SemaphoreBare
<1>6. CASE /\ \E c \in Threads : MutexStep(c)
           /\ UNCHANGED <<api, svars, evars, bvars, qvars, pvars>>
  BY <1>1, <1>6, MutexBare
<1>7. CASE EventNext /\ UNCHANGED <<api, svars, mvars, bvars, qvars, pvars>>
  BY <1>1, <1>7, EventBare
<1>8. CASE MailNext /\ UNCHANGED <<api, svars, mvars, evars, qvars, pvars>>
  BY <1>1, <1>8, MailboxBare
<1>9. CASE PoolNext /\ UNCHANGED <<api, svars, mvars, evars, bvars, qvars>>
  BY <1>1, <1>9, PoolBare
<1> QED BY <1>2, <1>3, <1>4, <1>5, <1>6, <1>7, <1>8, <1>9 DEF AllNext

-----------------------------------------------------------------------------
(* Every message is in the queue, free, or with one thread.                *)

\* The messages of the queue q that threads own, ...
Taken(q) == {Locals(t)[3] : t \in Carriers(q)}

\* ... each of them one, which is as the thread will need it, ...
CarrierOK(t, q) ==
    LET e == Locals(t)
        m == e[3]
    IN /\ m \in Messages /\ e[1] \in Copies
       /\ e[1] = "fill" => e[5] \in Texts
       /\ e[1] = "link" => msg_text[q][m] \in Texts /\ (e[4] = "send" => msg_next[q][m] = Null)
       /\ e[1] = "copy" => msg_text[q][m] = e[5]

\* ... and no message has two owners.
CarriersOK(q) ==
    /\ \A t \in Carriers(q) : CarrierOK(t, q)
    /\ \A t, u \in Carriers(q) : Locals(t)[3] = Locals(u)[3] => t = u

\* ... and the others: s are in the queue and f are free.
Placed(q, s, f) ==
    /\ Strings(s, msg_queue_head[q], msg_next[q])
    /\ Strings(f, msg_queue_free[q], msg_next[q])
    /\ Range(s) \cap Range(f) = {}
    /\ Range(s) \cup Range(f) = Messages \ Taken(q)
    /\ msg_entry[q] = Len(s)
    /\ msg_queue_tail[q] = IF s = <<>> THEN Null ELSE s[Len(s)]

\* The queues that the variables are of.
StoresTyped ==
    /\ DOMAIN msg_next = Queues /\ DOMAIN msg_text = Queues
    /\ DOMAIN msg_queue_head = Queues /\ DOMAIN msg_queue_tail = Queues
    /\ DOMAIN msg_queue_free = Queues /\ DOMAIN msg_entry = Queues
    /\ DOMAIN msg_queue_got = Queues
    /\ \A q \in Queues : DOMAIN msg_next[q] = Messages /\ DOMAIN msg_text[q] = Messages

\* The invariant.
StoreOK(q) == CarriersOK(q) /\ \E s, f : Placed(q, s, f)

StoresOK == StoresTyped /\ \A q \in Queues : StoreOK(q)

\* What a step does to the queue.
Passes(q, s, s2) ==
    /\ \A x \in Range(s) : msg_text'[q][x] = msg_text[q][x]
    /\ \/ /\ msg_queue_got'[q] = msg_queue_got[q]
          /\ \/ s2 = s \/ s2 = <<>>
             \/ \E m \in Messages : /\ msg_text'[q][m] \in Texts
                                    /\ s2 = Append(s, m) \/ s2 = <<m>> \o s
       \/ s # <<>> /\ s2 = Tail(s) /\ msg_queue_got'[q] = msg_text[q][Head(s)]

\* Whatever was where before the step, it is somewhere after it.
Turns(q) == \A s, f : Placed(q, s, f) => \E s2, f2 : Placed(q, s2, f2)' /\ Passes(q, s, s2)

StoreStep(q) == CarriersOK(q)' /\ Turns(q)

-----------------------------------------------------------------------------
(* Who has a message.                                                      *)

\* Who owns a message by pc, before and after the step.
LEMMA CarrierIs ==
    ASSUME NEW t \in Threads, NEW e, pc[t] = <<e>>, NEW q
    PROVE  /\ Locals(t) = e
           /\ t \in Carriers(q) <=> e[1] \in Copies /\ e[2] = q
<1>1. DOMAIN pc[t] = {1} /\ pc[t][1] = e /\ Head(pc[t]) = e
  OBVIOUS
<1> QED BY <1>1 DEF Locals, Carriers, Copies

LEMMA CarrierBecomes ==
    ASSUME NEW t \in Threads, NEW e, pc'[t] = <<e>>, NEW q
    PROVE  /\ Locals(t)' = e
           /\ t \in Carriers(q)' <=> e[1] \in Copies /\ e[2] = q
<1>1. DOMAIN pc'[t] = {1} /\ pc'[t][1] = e /\ Head(pc'[t]) = e
  OBVIOUS
<1> QED BY <1>1 DEF Locals, Carriers, Copies

LEMMA CarrierNot ==
    ASSUME NEW t, NEW q
    PROVE  /\ Bare(pc[t]) => t \notin Carriers(q)
           /\ Bare(pc'[t]) => t \notin Carriers(q)'
BY DEF Bare, Carriers, Copies

LEMMA CarrierStays ==
    ASSUME NEW t \in Threads, pc'[t] = pc[t], NEW q
    PROVE  Locals(t)' = Locals(t) /\ (t \in Carriers(q)' <=> t \in Carriers(q))
BY DEF Locals, Carriers

\* The definition of the property finds what the thread owns.
LEMMA CarriersAre ==
    ASSUME KInv, NEW q, NEW t \in Carriers(q)
    PROVE  /\ t \in Threads /\ pc[t] = <<Locals(t)>> /\ Copying(Locals(t))
           /\ Target(t) = q /\ Carried(t) = Locals(t)
<1>1. t \in Threads /\ ~Bare(pc[t])
  BY CarrierNot DEF Carriers
<1>2. pc[t] = <<Locals(t)>> /\ Copying(Locals(t))
  BY <1>1, CallIsBare
<1> DEFINE e == Locals(t)
<1>3. e[2] = q /\ e[1] \in {"fill", "link", "copy"} /\ Range(pc[t]) = {e}
  <2> HIDE DEF e
  <2>1. pc[t] = <<e>>
    BY <1>2 DEF e
  <2>2. DOMAIN pc[t] = {1} /\ pc[t][1] = e
    BY <2>1
  <2> QED BY <1>1, <2>1, <2>2, CarrierIs DEF Range, Copies
<1>4. Carried(t) = e
  BY <1>3 DEF Carried
<1> QED BY <1>1, <1>2, <1>3, <1>4 DEF Target, Locals

\* The same threads have the same messages of q.
SameCarriers(q) ==
    Carriers(q)' = Carriers(q) /\ \A t \in Carriers(q) : Locals(t)' = Locals(t)

LEMMA StillCarriers ==
    ASSUME CarriersStill, NEW q
    PROVE  SameCarriers(q)
<1>1. ASSUME NEW t \in Threads, t \in Carriers(q) \/ t \in Carriers(q)' PROVE pc'[t] = pc[t]
  BY <1>1, CarrierNot DEF CarriersStill
<1>2. Carriers(q) \subseteq Threads /\ Carriers(q)' \subseteq Threads
  BY DEF Carriers
<1> QED BY <1>1, <1>2, CarrierStays DEF SameCarriers

LEMMA SameTaken ==
    ASSUME NEW q, SameCarriers(q)
    PROVE  Taken(q)' = Taken(q)
BY DEF SameCarriers, Taken

\* The thread c, of no queue but q before and after the step, moves.
LEMMA OthersCarry ==
    ASSUME NEW c \in Threads, Moves(c), NEW p, c \notin Carriers(p), c \notin Carriers(p)'
    PROVE  SameCarriers(p)
<1>1. Carriers(p) \subseteq Threads /\ Carriers(p)' \subseteq Threads
  BY DEF Carriers
<1>2. \A t \in Threads \ {c} : Locals(t)' = Locals(t)
                               /\ (t \in Carriers(p)' <=> t \in Carriers(p))
  BY CarrierStays DEF Moves
<1> QED BY <1>1, <1>2 DEF SameCarriers

\* c gets the message of e, ...
LEMMA CarrierJoins ==
    ASSUME NEW c \in Threads, Moves(c), NEW q, c \notin Carriers(q),
           NEW e, pc'[c] = <<e>>, e[1] \in Copies, e[2] = q
    PROVE  /\ Carriers(q)' = Carriers(q) \cup {c} /\ Locals(c)' = e
           /\ \A t \in Carriers(q) : Locals(t)' = Locals(t)
           /\ \A p : p # q => c \notin Carriers(p)'
           /\ Taken(q)' = Taken(q) \cup {e[3]}
<1>1. Carriers(q) \subseteq Threads /\ Carriers(q)' \subseteq Threads
  BY DEF Carriers
<1>2. \A t \in Threads \ {c} : Locals(t)' = Locals(t)
                               /\ (t \in Carriers(q)' <=> t \in Carriers(q))
  BY CarrierStays DEF Moves
<1>3. Locals(c)' = e /\ \A p : c \in Carriers(p)' <=> p = q
  BY CarrierBecomes
<1>4. Carriers(q)' = Carriers(q) \cup {c}
  BY <1>1, <1>2, <1>3
<1>5. \A t \in Carriers(q) : Locals(t)' = Locals(t)
  BY <1>1, <1>2
<1>6. Taken(q)' = {Locals(t)'[3] : t \in Carriers(q)'}
  BY DEF Taken
<1> QED BY <1>3, <1>4, <1>5, <1>6 DEF Taken

\* ... and has it no longer.
LEMMA CarrierLeaves ==
    ASSUME NEW c \in Threads, Moves(c), Bare(pc'[c]), NEW q, c \in Carriers(q), CarriersOK(q)
    PROVE  /\ Carriers(q)' = Carriers(q) \ {c}
           /\ \A t \in Carriers(q) \ {c} : Locals(t)' = Locals(t)
           /\ Taken(q)' = Taken(q) \ {Locals(c)[3]}
<1>1. Carriers(q) \subseteq Threads /\ Carriers(q)' \subseteq Threads
  BY DEF Carriers
<1>2. \A t \in Threads \ {c} : Locals(t)' = Locals(t)
                               /\ (t \in Carriers(q)' <=> t \in Carriers(q))
  BY CarrierStays DEF Moves
<1>3. c \notin Carriers(q)'
  BY CarrierNot
<1>4. Carriers(q)' = Carriers(q) \ {c}
  BY <1>1, <1>2, <1>3
<1>5. \A t \in Carriers(q) \ {c} : Locals(t)' = Locals(t)
  BY <1>1, <1>2
<1>6. Taken(q)' = {Locals(t)'[3] : t \in Carriers(q)'}
  BY DEF Taken
<1>7. \A t \in Carriers(q) \ {c} : Locals(t)[3] # Locals(c)[3]
  BY DEF CarriersOK
<1> QED BY <1>4, <1>5, <1>6, <1>7 DEF Taken

-----------------------------------------------------------------------------
(* The steps.                                                              *)

\* Nothing changes in q.
SameStore(q) ==
    /\ msg_next'[q] = msg_next[q] /\ msg_text'[q] = msg_text[q]
    /\ msg_queue_head'[q] = msg_queue_head[q] /\ msg_queue_tail'[q] = msg_queue_tail[q]
    /\ msg_queue_free'[q] = msg_queue_free[q] /\ msg_entry'[q] = msg_entry[q]
    /\ msg_queue_got'[q] = msg_queue_got[q]

LEMMA StoreStill ==
    ASSUME NEW q, StoreOK(q), SameStore(q), SameCarriers(q)
    PROVE  StoreStep(q)
<1>1. Taken(q)' = Taken(q)
  BY SameTaken
<1>2. ASSUME NEW s, NEW f, Placed(q, s, f) PROVE Placed(q, s, f)' /\ Passes(q, s, s)
  BY <1>1, <1>2 DEF Placed, Passes, SameStore
<1>3. CarriersOK(q)'
  BY DEF CarriersOK, CarrierOK, SameStore, SameCarriers, StoreOK
<1> QED BY <1>2, <1>3 DEF StoreStep, Turns

\* A step on q.
LEMMA StoresAside ==
    ASSUME StoresOK, NEW q \in Queues, StoreStep(q),
           \A p \in Queues \ {q} : SameStore(p) /\ SameCarriers(p)
    PROVE  \A p \in Queues : StoreStep(p)
BY StoreStill DEF StoresOK

LEMMA StoresStill ==
    ASSUME StoresOK, CarriersStill, UNCHANGED qvars
    PROVE  \A q \in Queues : StoreStep(q)
<1>1. ASSUME NEW q \in Queues PROVE SameStore(q)
  BY DEF SameStore, qvars, links
<1> QED BY <1>1, StoreStill, StillCarriers DEF StoresOK

\* rt_mq_send takes the first free message, ...
LEMMA MsgTakeStores ==
    ASSUME KInv, StoresOK, NEW c \in Threads, NEW q \in Queues, NEW how, NEW text \in Texts,
           MsgTake(c, q, how, text)
    PROVE  \A p \in Queues : StoreStep(p)
<1> DEFINE m == msg_queue_free[q]
           e == <<"fill", q, m, how, text>>
<1>1. /\ Call(c, "msgsend") /\ Goto(c, <<e>>) /\ m # Null
      /\ msg_queue_free' = [msg_queue_free EXCEPT ![q] = msg_next[q][m]]
      /\ UNCHANGED <<msg_next, msg_queue_head, msg_queue_tail, msg_text, msg_entry,
                     msg_queue_got>>
  BY DEF MsgTake
<1>2. StoresTyped /\ StoreOK(q)
  BY DEF StoresOK
<1>3. \A p \in Queues \ {q} : SameStore(p)
  BY <1>1, <1>2 DEF SameStore, StoresTyped
<1>4. Moves(c) /\ pc'[c] = <<e>> /\ pc[c] = <<>>
  BY <1>1, GotoMoves DEF Call
<1>5. \A p : c \notin Carriers(p)
  BY <1>4, CarrierNot DEF Bare
<1>6. e[1] \in Copies /\ e[2] = q /\ e[3] = m /\ e[5] = text /\ e[1] = "fill"
  BY DEF Copies
<1>7. msg_queue_free'[q] = msg_next[q][m]
  BY <1>1, <1>2 DEF StoresTyped
<1> HIDE DEF e, m
<1>8. /\ Carriers(q)' = Carriers(q) \cup {c} /\ Locals(c)' = e
      /\ \A t \in Carriers(q) : Locals(t)' = Locals(t)
      /\ \A p : p # q => c \notin Carriers(p)'
      /\ Taken(q)' = Taken(q) \cup {m}
  BY <1>4, <1>5, <1>6, CarrierJoins
<1>9. \A p \in Queues \ {q} : SameCarriers(p)
  BY <1>4, <1>5, <1>8, OthersCarry
<1>10. ASSUME NEW s, NEW f, Placed(q, s, f)
       PROVE  /\ m \in Messages \ Taken(q)
              /\ Placed(q, s, Tail(f))' /\ Passes(q, s, s)
  <2>1. Strings(f, m, msg_next[q])
    BY <1>10 DEF Placed, m
  <2>2. f # <<>> /\ m \in Range(f) /\ m \in Messages
    BY <1>1, <2>1, StringsFirst
  <2>3. Strings(Tail(f), msg_next[q][m], msg_next[q]) /\ Range(Tail(f)) = Range(f) \ {m}
    BY <2>1, <2>2, StringsTail
  <2>4. /\ Range(s) \cup Range(Tail(f)) = Messages \ Taken(q)'
        /\ Range(s) \cap Range(Tail(f)) = {}
    BY <1>8, <1>10, <2>2, <2>3 DEF Placed
  <2>5. Placed(q, s, Tail(f))'
    BY <1>1, <1>7, <1>10, <2>3, <2>4 DEF Placed
  <2>6. Passes(q, s, s)
    BY <1>1 DEF Passes
  <2>7. m \notin Taken(q)
    BY <1>10, <2>2 DEF Placed
  <2> QED BY <2>2, <2>5, <2>6, <2>7
<1>11. m \in Messages \ Taken(q)
  BY <1>2, <1>10 DEF StoreOK
<1>12. CarriersOK(q)'
  <2>1. ASSUME NEW t \in Carriers(q) PROVE CarrierOK(t, q)' /\ Locals(t)'[3] # m
    BY <1>1, <1>2, <1>8, <1>11 DEF CarrierOK, CarriersOK, StoreOK, Taken
  <2>2. CarrierOK(c, q)' /\ Locals(c)'[3] = m
    BY <1>6, <1>8, <1>11 DEF CarrierOK
  <2>3. \A t, u \in Carriers(q) : Locals(t)'[3] = Locals(u)'[3] => t = u
    BY <1>2, <1>8 DEF CarriersOK, StoreOK
  <2>4. \A t, u \in Carriers(q)' : Locals(t)'[3] = Locals(u)'[3] => t = u
    BY <1>8, <2>1, <2>2, <2>3
  <2>5. \A t \in Carriers(q)' : CarrierOK(t, q)'
    BY <1>8, <2>1, <2>2
  <2> QED BY <2>4, <2>5 DEF CarriersOK
<1>13. StoreStep(q)
  BY <1>10, <1>12 DEF StoreStep, Turns
<1> QED BY <1>3, <1>9, <1>13, StoresAside

\* ... writes its text and may cut its link, while nobody else has it, ...
LEMMA MsgFillStores ==
    ASSUME KInv, StoresOK, NEW c \in Threads, MsgFill(c)
    PROVE  \A p \in Queues : StoreStep(p)
<1> DEFINE e == Locals(c)
           e2 == [e EXCEPT ![1] = "link"]
           m == e[3]
<1>1. /\ At(c, "fill") /\ Proceed(c, <<e2>>)
      /\ msg_next' = CutOff(Target(c), m, e[4])
      /\ Filled(Target(c), m, e[5])
      /\ UNCHANGED <<msg_queue_head, msg_queue_tail, msg_queue_free, msg_entry, msg_queue_got>>
  BY DEF MsgFill
<1>2. pc[c] = <<e>> /\ Copying(e) /\ e[1] = "fill"
  BY <1>1, AtCopy
<1>3. PICK q \in Queues : q = e[2] /\ q = Target(c)
  BY <1>2 DEF Copying, Target, Locals
<1>4. StoresTyped /\ StoreOK(q)
  BY DEF StoresOK
<1>5. /\ msg_text' = [msg_text EXCEPT ![q][m] = e[5]]
      /\ msg_next' = IF e[4] = "send" THEN [msg_next EXCEPT ![q][m] = Null] ELSE msg_next
  BY <1>1, <1>3 DEF CutOff, Filled
<1>6. \A p \in Queues \ {q} : SameStore(p)
  BY <1>1, <1>4, <1>5 DEF SameStore, StoresTyped
<1>7. e2[1] = "link" /\ e2[2] = q /\ e2[3] = m /\ e2[4] = e[4]
  <2>1. DOMAIN e = 1..5
    BY <1>2 DEF Copying
  <2> HIDE DEF e
  <2>2. /\ [e EXCEPT ![1] = "link"][1] = "link" /\ [e EXCEPT ![1] = "link"][2] = e[2]
        /\ [e EXCEPT ![1] = "link"][3] = e[3] /\ [e EXCEPT ![1] = "link"][4] = e[4]
    BY <2>1
  <2> QED BY <1>3, <2>2
<1>8. Moves(c) /\ pc'[c] = <<e2>>
  <2> HIDE DEF e2
  <2>1. <<e2>> \in Seq({e2})
    OBVIOUS
  <2> QED BY <1>1, <1>2, <2>1, AfterOne
<1> HIDE DEF e2
<1>9. /\ Locals(c)' = e2 /\ \A p : c \in Carriers(p)' <=> p = q
      /\ \A p : c \in Carriers(p) <=> p = q
  <2> HIDE DEF e
  <2>1. \A p : c \in Carriers(p) <=> e[1] \in Copies /\ e[2] = p
    BY <1>2, CarrierIs
  <2> QED BY <1>2, <1>3, <1>7, <1>8, <2>1, CarrierBecomes DEF Copies
<1>10. \A p \in Queues \ {q} : SameCarriers(p)
  BY <1>8, <1>9, OthersCarry
<1>11. /\ Carriers(q)' = Carriers(q) /\ c \in Carriers(q)
       /\ \A t \in Carriers(q) \ {c} : Locals(t)' = Locals(t)
  <2>1. Carriers(q) \subseteq Threads /\ Carriers(q)' \subseteq Threads
    BY DEF Carriers
  <2>2. \A t \in Threads \ {c} : Locals(t)' = Locals(t)
                                 /\ (t \in Carriers(q)' <=> t \in Carriers(q))
    BY <1>8, CarrierStays DEF Moves
  <2>3. c \in Carriers(q)' /\ c \in Carriers(q)
    BY <1>9
  <2> QED BY <2>1, <2>2, <2>3
<1>12. \A t \in Carriers(q) : Locals(t)'[3] = Locals(t)[3]
  BY <1>7, <1>9, <1>11
<1>13. Taken(q)' = Taken(q) /\ m \in Taken(q)
  <2>1. Taken(q)' = {Locals(t)'[3] : t \in Carriers(q)'}
    BY DEF Taken
  <2> QED BY <1>11, <1>12, <2>1 DEF Taken
<1>14. /\ m \in Messages /\ e[5] \in Texts
       /\ \A t \in Carriers(q) \ {c} : Locals(t)[3] # m
  BY <1>2, <1>4, <1>11 DEF StoreOK, CarriersOK, CarrierOK
<1>15. /\ msg_text'[q][m] = e[5] /\ (e[4] = "send" => msg_next'[q][m] = Null)
       /\ \A x \in Messages \ {m} : /\ msg_text'[q][x] = msg_text[q][x]
                                    /\ msg_next'[q][x] = msg_next[q][x]
  BY <1>4, <1>5, <1>14 DEF StoresTyped
<1> HIDE DEF e, m
<1>16. ASSUME NEW s, NEW f, Placed(q, s, f)
       PROVE  Placed(q, s, f)' /\ Passes(q, s, s)
  <2>1. \A x \in Range(s) \cup Range(f) : x \in Messages \ {m}
    BY <1>13, <1>16 DEF Placed
  <2>2. /\ Strings(s, msg_queue_head[q], msg_next'[q])
        /\ Strings(f, msg_queue_free[q], msg_next'[q])
    BY <1>15, <1>16, <2>1, StringsSame DEF Placed
  <2>3. Placed(q, s, f)'
    BY <1>1, <1>13, <1>16, <2>2 DEF Placed
  <2>4. Passes(q, s, s)
    BY <1>1, <1>15, <2>1 DEF Passes
  <2> QED BY <2>3, <2>4
<1>17. CarriersOK(q)'
  <2>1. ASSUME NEW t \in Carriers(q) \ {c} PROVE CarrierOK(t, q)'
    <3>1. CarrierOK(t, q) /\ Locals(t)[3] \in Messages \ {m} /\ Locals(t)' = Locals(t)
      BY <1>4, <1>11, <1>14 DEF StoreOK, CarriersOK, CarrierOK
    <3> QED BY <1>15, <3>1 DEF CarrierOK
  <2>2. CarrierOK(c, q)'
    BY <1>7, <1>9, <1>14, <1>15 DEF CarrierOK, Copies
  <2>3. \A t, u \in Carriers(q) : Locals(t)'[3] = Locals(u)'[3] => t = u
    BY <1>4, <1>12 DEF StoreOK, CarriersOK
  <2> QED BY <1>11, <2>1, <2>2, <2>3 DEF CarriersOK
<1>18. StoreStep(q)
  BY <1>16, <1>17 DEF StoreStep, Turns
<1> QED BY <1>6, <1>10, <1>18, StoresAside

\* m is linked to the messages s of q, whose links are next.
Joins(q, m, s, s2, next) ==
    /\ s2 = Append(s, m) \/ s2 = <<m>> \o s
    /\ Strings(s2, msg_queue_head'[q], msg_next'[q])
    /\ Range(s2) = Range(s) \cup {m}
    /\ msg_queue_tail'[q] = IF s2 = <<>> THEN Null ELSE s2[Len(s2)]
    /\ msg_entry'[q] = msg_entry[q] + 1 /\ Len(s2) = Len(s) + 1
    /\ \A x \in Messages : x \notin Range(s) \cup {m} => msg_next'[q][x] = next[q][x]

\* Linking: rt_mq_send, ...
LEMMA LinkedBehindIs ==
    ASSUME StoresTyped, NEW q \in Queues, NEW m \in Messages, NEW next,
           DOMAIN next = Queues, DOMAIN next[q] = Messages, next[q][m] = Null,
           NEW s, Strings(s, msg_queue_head[q], next[q]), m \notin Range(s),
           msg_queue_tail[q] = IF s = <<>> THEN Null ELSE s[Len(s)],
           LinkedBehind(q, m, next), msg_entry' = [msg_entry EXCEPT ![q] = @ + 1]
    PROVE  Joins(q, m, s, Append(s, m), next)
<1> DEFINE tail == msg_queue_tail[q]
           head == msg_queue_head[q]
<1>1. /\ msg_queue_tail'[q] = m /\ msg_queue_head'[q] = IF head = Null THEN m ELSE head
      /\ msg_entry'[q] = msg_entry[q] + 1
      /\ msg_next' = IF tail = Null THEN next ELSE [next EXCEPT ![q][tail] = m]
  BY DEF LinkedBehind, StoresTyped
<1>2. /\ s \in Seq(Messages) /\ Len(s) \in Nat /\ (s # <<>> => Len(s) \in 1..Len(s))
      /\ \A i \in 1..Len(s) : s[i] \in Range(s) /\ s[i] \in Messages
      /\ Range(s) \subseteq Messages
  BY InRange DEF Strings, Distinct
<1>3. /\ s = <<>> <=> tail = Null
      /\ s # <<>> => tail = s[Len(s)] /\ tail \in Range(s) /\ tail \in Messages
  BY <1>2, MessagesAre
<1> HIDE DEF tail
<1>4. /\ \A x \in Messages : x # tail => msg_next'[q][x] = next[q][x]
      /\ s # <<>> => msg_next'[q][tail] = m
  BY <1>1, <1>3
<1>5. m # tail
  BY <1>3, MessagesAre
<1>6. /\ Strings(Append(s, m), msg_queue_head'[q], msg_next'[q])
      /\ Range(Append(s, m)) = Range(s) \cup {m}
  <2>1. msg_next'[q][m] = Null /\ (s # <<>> => msg_next'[q][s[Len(s)]] = m)
    BY <1>3, <1>4, <1>5
  <2>2. \A x \in Range(s) : x # s[Len(s)] => msg_next'[q][x] = next[q][x]
    <3>1. s = <<>> => Range(s) = {}
      BY InRange DEF Strings, Distinct
    <3> QED BY <1>2, <1>3, <1>4, <3>1
  <2>3. /\ Strings(Append(s, m), IF head = Null THEN m ELSE head, msg_next'[q])
        /\ Range(Append(s, m)) = Range(s) \cup {m}
    <3> HIDE DEF head
    <3>1. Strings(s, head, next[q])
      BY DEF head
    <3> QED BY <2>1, <2>2, <3>1, StringsBehind
  <2> QED BY <1>1, <2>3
<1>7. Append(s, m) # <<>> /\ Len(Append(s, m)) = Len(s) + 1 /\ Append(s, m)[Len(s) + 1] = m
  BY <1>2
<1>8. \A x \in Messages : x \notin Range(s) \cup {m} => msg_next'[q][x] = next[q][x]
  BY <1>3, <1>4, MessagesAre
<1> QED BY <1>1, <1>6, <1>7, <1>8 DEF Joins

\* ... and rt_mq_urgent.
LEMMA LinkedBeforeIs ==
    ASSUME StoresTyped, NEW q \in Queues, NEW m \in Messages, NEW next,
           DOMAIN next = Queues, DOMAIN next[q] = Messages,
           NEW s, Strings(s, msg_queue_head[q], next[q]), m \notin Range(s),
           msg_queue_tail[q] = IF s = <<>> THEN Null ELSE s[Len(s)],
           LinkedBefore(q, m, next), msg_entry' = [msg_entry EXCEPT ![q] = @ + 1]
    PROVE  Joins(q, m, s, <<m>> \o s, next)
<1> DEFINE tail == msg_queue_tail[q]
           head == msg_queue_head[q]
<1>1. /\ msg_queue_tail'[q] = (IF tail = Null THEN m ELSE tail) /\ msg_queue_head'[q] = m
      /\ msg_entry'[q] = msg_entry[q] + 1
      /\ msg_next' = [next EXCEPT ![q][m] = head]
  BY DEF LinkedBefore, StoresTyped
<1>2. /\ s \in Seq(Messages) /\ Len(s) \in Nat /\ (s # <<>> => Len(s) \in 1..Len(s))
      /\ \A i \in 1..Len(s) : s[i] \in Range(s) /\ s[i] \in Messages
      /\ Range(s) \subseteq Messages
  BY InRange DEF Strings, Distinct
<1>3. tail = Null <=> s = <<>>
  BY <1>2, MessagesAre
<1>4. msg_next'[q][m] = head /\ \A x \in Messages : x # m => msg_next'[q][x] = next[q][x]
  BY <1>1
<1>5. /\ Strings(<<m>> \o s, m, msg_next'[q])
      /\ Range(<<m>> \o s) = Range(s) \cup {m}
  BY <1>2, <1>4, StringsBefore
<1>6. /\ <<m>> \o s # <<>> /\ Len(<<m>> \o s) = Len(s) + 1
      /\ (<<m>> \o s)[Len(s) + 1] = IF s = <<>> THEN m ELSE s[Len(s)]
  <2> DEFINE t == <<m>> \o s
  <2>1. /\ Len(t) = Len(s) + 1
        /\ \A i \in 1..Len(s) + 1 : t[i] = IF i = 1 THEN m ELSE s[i - 1]
    BY <1>2
  <2> HIDE DEF t
  <2>2. t # <<>>
    BY <1>2, <2>1
  <2>3. t[Len(s) + 1] = IF s = <<>> THEN m ELSE s[Len(s)]
    BY <1>2, <2>1
  <2> QED BY <2>1, <2>2, <2>3 DEF t
<1>7. msg_queue_tail'[q] = IF s = <<>> THEN m ELSE s[Len(s)]
  BY <1>1, <1>3
<1> HIDE DEF head, tail
<1> QED BY <1>1, <1>4, <1>5, <1>6, <1>7 DEF Joins

LEMMA LinkedIs ==
    ASSUME StoresTyped, NEW q \in Queues, NEW m \in Messages, NEW next,
           DOMAIN next = Queues, DOMAIN next[q] = Messages,
           NEW how, how = "send" => next[q][m] = Null,
           NEW s, Strings(s, msg_queue_head[q], next[q]), m \notin Range(s),
           msg_queue_tail[q] = IF s = <<>> THEN Null ELSE s[Len(s)],
           Linked(q, m, how, next)
    PROVE  \E s2 : Joins(q, m, s, s2, next)
<1>1. /\ IF how = "send" THEN LinkedBehind(q, m, next) ELSE LinkedBefore(q, m, next)
      /\ msg_entry' = [msg_entry EXCEPT ![q] = @ + 1]
  BY DEF Linked
<1>2. CASE how = "send"
  <2>1. Joins(q, m, s, Append(s, m), next)
    BY <1>1, <1>2, LinkedBehindIs
  <2> QED BY <2>1
<1>3. CASE how # "send"
  <2>1. Joins(q, m, s, <<m>> \o s, next)
    BY <1>1, <1>3, LinkedBeforeIs
  <2> QED BY <2>1
<1> QED BY <1>2, <1>3

\* The other queues.
LEMMA LinkedAside ==
    ASSUME StoresTyped, NEW q \in Queues, NEW m, NEW how, NEW next, DOMAIN next = Queues,
           Linked(q, m, how, next)
    PROVE  /\ \A p \in Queues \ {q} :
                  /\ msg_next'[p] = next[p] /\ msg_entry'[p] = msg_entry[p]
                  /\ msg_queue_head'[p] = msg_queue_head[p]
                  /\ msg_queue_tail'[p] = msg_queue_tail[p]
           /\ DOMAIN msg_next' = Queues /\ DOMAIN msg_entry' = Queues
           /\ DOMAIN msg_queue_head' = Queues /\ DOMAIN msg_queue_tail' = Queues
           /\ \A p \in Queues : DOMAIN msg_next'[p] = DOMAIN next[p]
BY DEF Linked, LinkedBehind, LinkedBefore, StoresTyped

\* The others keep their messages as they are.
LEMMA CarrierOKStays ==
    ASSUME NEW q, NEW t, CarrierOK(t, q), Locals(t)' = Locals(t),
           msg_text'[q][Locals(t)[3]] = msg_text[q][Locals(t)[3]],
           msg_next'[q][Locals(t)[3]] = msg_next[q][Locals(t)[3]]
    PROVE  CarrierOK(t, q)'
BY DEF CarrierOK

\* A message that a thread has is in neither list.
LEMMA PlacedApart ==
    ASSUME NEW q, NEW s, NEW f, Placed(q, s, f)
    PROVE  /\ s \in Seq(Messages) /\ f \in Seq(Messages)
           /\ Range(s) \subseteq Messages /\ Range(f) \subseteq Messages
           /\ \A x \in Taken(q) : x \notin Range(s) /\ x \notin Range(f)
<1>1. s \in Seq(Messages) /\ f \in Seq(Messages)
  BY DEF Placed, Strings, Distinct
<1> QED BY <1>1, InRange DEF Placed

\* ... and links it.
LEMMA MsgLinkStores ==
    ASSUME KInv, StoresOK, NEW c \in Threads, MsgLink(c)
    PROVE  \A p \in Queues : StoreStep(p)
<1> DEFINE e == Locals(c)
           m == e[3]
<1>1. /\ At(c, "link") /\ Proceed(c, AfterResume(c, Target(c)))
      /\ Linked(Target(c), m, e[4], msg_next)
      /\ UNCHANGED <<msg_text, msg_queue_free, msg_queue_got>>
  BY DEF MsgLink
<1>2. pc[c] = <<e>> /\ Copying(e) /\ e[1] = "link"
  BY <1>1, AtCopy
<1>3. PICK q \in Queues : q = e[2] /\ q = Target(c)
  BY <1>2 DEF Copying, Target, Locals
<1>4. StoresTyped /\ StoreOK(q)
  BY DEF StoresOK
<1>5. DOMAIN msg_next = Queues /\ DOMAIN msg_next[q] = Messages /\ Linked(q, m, e[4], msg_next)
  BY <1>1, <1>3, <1>4 DEF StoresTyped
<1>6. \A p \in Queues \ {q} : SameStore(p)
  <2> HIDE DEF m, e
  <2> QED BY <1>1, <1>4, <1>5, LinkedAside DEF SameStore
<1>7. Moves(c) /\ Bare(pc'[c])
  <2> DEFINE a == AfterResume(c, Target(c))
  <2>1. a = <<Again(c)>> \/ a = <<>>
    BY AfterResumeIs
  <2>2. a \in Seq({Again(c)}) /\ Bare(a)
    <3>1. Again(c)[1] \notin Copies
      BY DEF Again, Copies
    <3>2. Bare(a)
      BY <2>1, <3>1, BareAre
    <3>3. <<Again(c)>> \in Seq({Again(c)}) /\ <<>> \in Seq({Again(c)})
      OBVIOUS
    <3> QED BY <2>1, <3>2, <3>3
  <2> HIDE DEF a, e
  <2>3. Moves(c) /\ pc'[c] = a
    BY <1>1, <1>2, <2>2, AfterOne DEF a
  <2> QED BY <2>2, <2>3
<1>8. \A p : c \in Carriers(p) <=> p = q
  <2> HIDE DEF e
  <2> QED BY <1>2, <1>3, CarrierIs DEF Copies
<1>9. \A p \in Queues \ {q} : SameCarriers(p)
  BY <1>7, <1>8, CarrierNot, OthersCarry
<1>10. /\ Carriers(q)' = Carriers(q) \ {c} /\ c \in Carriers(q)
       /\ \A t \in Carriers(q) \ {c} : Locals(t)' = Locals(t)
       /\ Taken(q)' = Taken(q) \ {m}
  BY <1>4, <1>7, <1>8, CarrierLeaves DEF StoreOK
<1>11. /\ m \in Messages /\ msg_text[q][m] \in Texts
       /\ e[4] = "send" => msg_next[q][m] = Null
       /\ m \in Taken(q)
  BY <1>2, <1>4, <1>10 DEF StoreOK, CarriersOK, CarrierOK, Taken
<1> HIDE DEF m, e
<1>12. ASSUME NEW s, NEW f, Placed(q, s, f)
       PROVE  \E s2 : /\ Joins(q, m, s, s2, msg_next)
                      /\ Placed(q, s2, f)' /\ Passes(q, s, s2)
  <2>1. /\ Range(s) \subseteq Messages /\ Range(f) \subseteq Messages
        /\ m \notin Range(s) /\ m \notin Range(f)
    BY <1>11, <1>12, PlacedApart
  <2>2. PICK s2 : Joins(q, m, s, s2, msg_next)
    <3>1. /\ Strings(s, msg_queue_head[q], msg_next[q])
          /\ msg_queue_tail[q] = IF s = <<>> THEN Null ELSE s[Len(s)]
      BY <1>12 DEF Placed
    <3> QED BY <1>4, <1>5, <1>11, <2>1, <3>1, LinkedIs
  <2>3. \A x \in Range(f) : msg_next'[q][x] = msg_next[q][x]
    BY <1>12, <2>1, <2>2 DEF Placed, Joins
  <2>4. Strings(f, msg_queue_free[q], msg_next'[q])
    BY <1>12, <2>3, StringsSame DEF Placed
  <2>5. /\ Range(s2) \cap Range(f) = {}
        /\ Range(s2) \cup Range(f) = Messages \ Taken(q)'
    BY <1>10, <1>11, <1>12, <2>1, <2>2 DEF Placed, Joins
  <2>6. Placed(q, s2, f)'
    BY <1>1, <1>12, <2>2, <2>4, <2>5 DEF Placed, Joins
  <2>7. Passes(q, s, s2)
    BY <1>1, <1>11, <2>2 DEF Passes, Joins
  <2> QED BY <2>2, <2>6, <2>7
<1>13. CarriersOK(q)'
  <2>1. PICK s, f : Placed(q, s, f)
    BY <1>4 DEF StoreOK
  <2>2. PICK s2 : Joins(q, m, s, s2, msg_next)
    BY <1>12, <2>1
  <2>3. ASSUME NEW t \in Carriers(q) \ {c} PROVE CarrierOK(t, q)'
    <3>1. CarrierOK(t, q) /\ Locals(t)' = Locals(t)
      BY <1>4, <1>10 DEF StoreOK, CarriersOK
    <3>2. Locals(t)[3] \in Messages /\ Locals(t)[3] \in Taken(q) /\ Locals(t)[3] # m
      <4>1. Locals(t)[3] # Locals(c)[3]
        BY <1>4, <1>10 DEF StoreOK, CarriersOK
      <4>2. Locals(t)[3] \in Messages
        BY <3>1 DEF CarrierOK
      <4> QED BY <4>1, <4>2 DEF Taken, m, e
    <3>3. Locals(t)[3] \notin Range(s)
      BY <2>1, <3>2, PlacedApart
    <3> QED BY <1>1, <2>2, <3>1, <3>2, <3>3, CarrierOKStays DEF Joins
  <2>4. \A t, u \in Carriers(q) \ {c} : Locals(t)'[3] = Locals(u)'[3] => t = u
    BY <1>4, <1>10 DEF StoreOK, CarriersOK
  <2> QED BY <1>10, <2>3, <2>4 DEF CarriersOK
<1>14. StoreStep(q)
  BY <1>12, <1>13 DEF StoreStep, Turns
<1> QED BY <1>6, <1>9, <1>14, StoresAside

\* A message whose text was received is free.
LEMMA MsgFreeStores ==
    ASSUME KInv, StoresOK, NEW c \in Threads, MsgFree(c)
    PROVE  \A p \in Queues : StoreStep(p)
<1> DEFINE e == Locals(c)
           m == e[3]
<1>1. /\ At(c, "copy") /\ Proceed(c, <<>>)
      /\ msg_next' = [msg_next EXCEPT ![Target(c)][m] = msg_queue_free[Target(c)]]
      /\ msg_queue_free' = [msg_queue_free EXCEPT ![Target(c)] = m]
      /\ UNCHANGED <<msg_queue_head, msg_queue_tail, msg_text, msg_entry, msg_queue_got>>
  BY DEF MsgFree, Return
<1>2. pc[c] = <<e>> /\ Copying(e) /\ e[1] = "copy"
  BY <1>1, AtCopy
<1>3. PICK q \in Queues : q = e[2] /\ q = Target(c)
  BY <1>2 DEF Copying, Target, Locals
<1>4. StoresTyped /\ StoreOK(q)
  BY DEF StoresOK
<1>5. \A p \in Queues \ {q} : SameStore(p)
  BY <1>1, <1>3, <1>4 DEF SameStore, StoresTyped
<1>7. Moves(c) /\ Bare(pc'[c])
  <2> HIDE DEF e
  <2>1. <<>> \in Seq({})
    OBVIOUS
  <2>2. Moves(c) /\ pc'[c] = <<>>
    BY <1>1, <1>2, <2>1, AfterOne
  <2> QED BY <2>2 DEF Bare
<1>8. \A p : c \in Carriers(p) <=> p = q
  <2> HIDE DEF e
  <2> QED BY <1>2, <1>3, CarrierIs DEF Copies
<1>9. \A p \in Queues \ {q} : SameCarriers(p)
  BY <1>7, <1>8, CarrierNot, OthersCarry
<1>10. /\ Carriers(q)' = Carriers(q) \ {c} /\ c \in Carriers(q)
       /\ \A t \in Carriers(q) \ {c} : Locals(t)' = Locals(t)
       /\ Taken(q)' = Taken(q) \ {m}
  BY <1>4, <1>7, <1>8, CarrierLeaves DEF StoreOK
<1>11. m \in Messages /\ m \in Taken(q)
  BY <1>2, <1>4, <1>10 DEF StoreOK, CarriersOK, CarrierOK, Taken
<1>12. /\ msg_next'[q][m] = msg_queue_free[q] /\ msg_queue_free'[q] = m
       /\ \A x \in Messages : x # m => msg_next'[q][x] = msg_next[q][x]
  BY <1>1, <1>3, <1>4, <1>11 DEF StoresTyped
<1> HIDE DEF m, e
<1>13. ASSUME NEW s, NEW f, Placed(q, s, f)
       PROVE  \E f2 : Placed(q, s, f2)' /\ Passes(q, s, s)
  <2>1. /\ Range(s) \subseteq Messages /\ Range(f) \subseteq Messages
        /\ m \notin Range(s) /\ m \notin Range(f)
    BY <1>11, <1>13, PlacedApart
  <2>2. /\ \A x \in Range(s) : msg_next'[q][x] = msg_next[q][x]
        /\ \A x \in Range(f) : msg_next'[q][x] = msg_next[q][x]
    BY <1>12, <2>1
  <2>3. /\ Strings(s, msg_queue_head[q], msg_next[q])
        /\ Strings(f, msg_queue_free[q], msg_next[q])
    BY <1>13 DEF Placed
  <2>4. Strings(s, msg_queue_head[q], msg_next'[q])
    BY <2>2, <2>3, StringsSame
  <2>5. /\ Strings(<<m>> \o f, m, msg_next'[q])
        /\ Range(<<m>> \o f) = Range(f) \cup {m}
    BY <1>11, <1>12, <2>1, <2>2, <2>3, StringsBefore
  <2>6. PICK f2 : f2 = <<m>> \o f
    OBVIOUS
  <2>7. /\ Range(s) \cap Range(f2) = {}
        /\ Range(s) \cup Range(f2) = Messages \ Taken(q)'
    BY <1>10, <1>11, <1>13, <2>1, <2>5, <2>6 DEF Placed
  <2>8. Placed(q, s, f2)'
    BY <1>1, <1>12, <1>13, <2>4, <2>5, <2>7, <2>6 DEF Placed
  <2>9. Passes(q, s, s)
    BY <1>1 DEF Passes
  <2> QED BY <2>8, <2>9
<1>14. CarriersOK(q)'
  <2>1. ASSUME NEW t \in Carriers(q) \ {c} PROVE CarrierOK(t, q)'
    <3>1. CarrierOK(t, q) /\ Locals(t)' = Locals(t)
      BY <1>4, <1>10 DEF StoreOK, CarriersOK
    <3>2. Locals(t)[3] \in Messages /\ Locals(t)[3] # m
      <4>1. Locals(t)[3] # Locals(c)[3]
        BY <1>4, <1>10 DEF StoreOK, CarriersOK
      <4>2. Locals(t)[3] \in Messages
        BY <3>1 DEF CarrierOK
      <4> QED BY <4>1, <4>2 DEF m, e
    <3> QED BY <1>1, <1>12, <3>1, <3>2, CarrierOKStays
  <2>2. \A t, u \in Carriers(q) \ {c} : Locals(t)'[3] = Locals(u)'[3] => t = u
    BY <1>4, <1>10 DEF StoreOK, CarriersOK
  <2> QED BY <1>10, <2>1, <2>2 DEF CarriersOK
<1>15. StoreStep(q)
  BY <1>13, <1>14 DEF StoreStep, Turns
<1> QED BY <1>5, <1>9, <1>15, StoresAside

\* A handler takes, fills and links a message in one step.
LEMMA IsrMsgSendStores ==
    ASSUME KInv, StoresOK, NEW q \in Queues, NEW how, NEW text \in Texts,
           IsrMsgSend(q, how, text)
    PROVE  \A p \in Queues : StoreStep(p)
<1>1. PICK m : m = msg_queue_free[q]
  OBVIOUS
<1>2. PICK next : next = CutOff(q, m, how)
  OBVIOUS
<1>3. /\ m # Null /\ msg_queue_free' = [msg_queue_free EXCEPT ![q] = msg_next[q][m]]
      /\ msg_text' = [msg_text EXCEPT ![q][m] = text]
      /\ Linked(q, m, how, next)
      /\ UNCHANGED <<pc, msg_queue_got>>
  BY <1>1, <1>2 DEF IsrMsgSend, Filled
<1>4. StoresTyped /\ StoreOK(q)
  BY DEF StoresOK
<1>5. /\ DOMAIN next = Queues /\ DOMAIN next[q] = Messages
      /\ \A p \in Queues \ {q} : next[p] = msg_next[p]
  BY <1>2, <1>4 DEF CutOff, StoresTyped
<1>6. \A p \in Queues \ {q} : SameStore(p)
  BY <1>3, <1>4, <1>5, LinkedAside DEF SameStore, StoresTyped
<1>7. \A p : SameCarriers(p)
  BY <1>3, StillBare, StillCarriers
<1>8. Taken(q)' = Taken(q)
  BY <1>7, SameTaken
<1>9. /\ msg_queue_free'[q] = msg_next[q][m]
      /\ m \in Messages => /\ msg_text'[q][m] = text
                           /\ how = "send" => next[q][m] = Null
      /\ \A x \in Messages : x # m => /\ msg_text'[q][x] = msg_text[q][x]
                                      /\ next[q][x] = msg_next[q][x]
  BY <1>2, <1>3, <1>4 DEF CutOff, StoresTyped
<1>10. ASSUME NEW s, NEW f, Placed(q, s, f)
       PROVE  /\ m \in Messages \ Taken(q)
              /\ \E s2, f2 : /\ Joins(q, m, s, s2, next)
                             /\ Placed(q, s2, f2)' /\ Passes(q, s, s2)
  <2>1. Strings(f, m, msg_next[q]) /\ Strings(s, msg_queue_head[q], msg_next[q])
    BY <1>1, <1>10 DEF Placed
  <2>2. /\ f # <<>> /\ m \in Range(f) /\ m \in Messages
        /\ Range(s) \subseteq Messages /\ Range(f) \subseteq Messages
    BY <1>3, <1>10, <2>1, StringsFirst, PlacedApart
  <2>3. m \notin Range(s) /\ m \notin Taken(q)
    BY <1>10, <2>2 DEF Placed
  <2>4. PICK f2 : f2 = Tail(f)
    OBVIOUS
  <2>5. Strings(f2, msg_next[q][m], msg_next[q]) /\ Range(f2) = Range(f) \ {m}
    BY <2>1, <2>2, <2>4, StringsTail
  <2>6. \A x \in Range(s) : next[q][x] = msg_next[q][x]
    BY <1>9, <2>2, <2>3
  <2>7. Strings(s, msg_queue_head[q], next[q])
    BY <2>1, <2>6, StringsSame
  <2>8. msg_queue_tail[q] = IF s = <<>> THEN Null ELSE s[Len(s)]
    BY <1>10 DEF Placed
  <2>9. PICK s2 : Joins(q, m, s, s2, next)
    BY <1>3, <1>4, <1>5, <1>9, <2>2, <2>3, <2>7, <2>8, LinkedIs
  <2>10. \A x \in Range(f2) : msg_next'[q][x] = msg_next[q][x]
    BY <1>9, <1>10, <2>2, <2>5, <2>9 DEF Placed, Joins
  <2>11. Strings(f2, msg_next[q][m], msg_next'[q])
    BY <2>5, <2>10, StringsSame
  <2>12. /\ Range(s2) \cap Range(f2) = {}
         /\ Range(s2) \cup Range(f2) = Messages \ Taken(q)'
    BY <1>8, <1>10, <2>2, <2>3, <2>5, <2>9 DEF Placed, Joins
  <2>13. Placed(q, s2, f2)'
    BY <1>9, <1>10, <2>9, <2>11, <2>12 DEF Placed, Joins
  <2>14. Passes(q, s, s2)
    BY <1>3, <1>9, <2>2, <2>3, <2>9 DEF Passes, Joins
  <2> QED BY <2>2, <2>3, <2>9, <2>13, <2>14
<1>11. CarriersOK(q)'
  <2>1. PICK s, f : Placed(q, s, f)
    BY <1>4 DEF StoreOK
  <2>2. PICK s2 : Joins(q, m, s, s2, next)
    BY <1>10, <2>1
  <2>3. ASSUME NEW t \in Carriers(q) PROVE CarrierOK(t, q)'
    <3>1. CarrierOK(t, q) /\ Locals(t)' = Locals(t)
      BY <1>4, <1>7 DEF StoreOK, CarriersOK, SameCarriers
    <3>2. Locals(t)[3] \in Messages /\ Locals(t)[3] \in Taken(q)
      BY <3>1 DEF CarrierOK, Taken
    <3>3. Locals(t)[3] \notin Range(s) /\ Locals(t)[3] # m
      BY <1>10, <2>1, <3>2, PlacedApart
    <3> QED BY <1>9, <2>2, <3>1, <3>2, <3>3, CarrierOKStays DEF Joins
  <2>4. \A t, u \in Carriers(q) : Locals(t)'[3] = Locals(u)'[3] => t = u
    BY <1>4, <1>7 DEF StoreOK, CarriersOK, SameCarriers
  <2> QED BY <1>7, <2>3, <2>4 DEF CarriersOK, SameCarriers
<1>12. StoreStep(q)
  BY <1>10, <1>11 DEF StoreStep, Turns
<1> QED BY <1>6, <1>7, <1>12, StoresAside

\* rt_mq_recv unlinks the first message and keeps it until the text is copied.
LEMMA MsgRecvStores ==
    ASSUME KInv, StoresOK, NEW c \in Threads, MsgRecv(c)
    PROVE  \A p \in Queues : StoreStep(p)
<1>1. At(c, "msgrecv")
  BY DEF MsgRecv
<1>2. pc[c] = <<Locals(c)>> /\ Locals(c) \in Loops /\ Locals(c)[1] = "msgrecv"
  BY <1>1, AtLoop
<1>3. PICK q \in Queues : q = Target(c)
  BY <1>2, LoopObject DEF Target, Locals
<1>4. CASE LoopWaits(c, q, "ETIMEOUT") /\ UNCHANGED qvars
  <2>1. CarriersStill
    BY <1>1, <1>4, LoopWaitsBare DEF Copies
  <2> QED BY <1>4, <2>1, StoresStill
<1>5. CASE ~(LoopWaits(c, q, "ETIMEOUT") /\ UNCHANGED qvars)
  <2>1. PICK m : m = msg_queue_head[q]
    OBVIOUS
  <2>2. PICK e : e = <<"copy", q, m, "recv", msg_text[q][m]>>
    OBVIOUS
  <2>3. /\ msg_entry[q] # 0 /\ Proceed(c, <<e>>)
        /\ msg_queue_head' = [msg_queue_head EXCEPT ![q] = msg_next[q][m]]
        /\ msg_queue_tail' = [msg_queue_tail EXCEPT ![q] = IF @ = m THEN Null ELSE @]
        /\ msg_entry' = [msg_entry EXCEPT ![q] = @ - 1]
        /\ msg_queue_got' = [msg_queue_got EXCEPT ![q] = msg_text[q][m]]
        /\ UNCHANGED <<msg_next, msg_text, msg_queue_free>>
    BY <1>3, <1>5, <2>1, <2>2 DEF MsgRecv, UnlinkedHead
  <2>4. StoresTyped /\ StoreOK(q)
    BY DEF StoresOK
  <2>5. \A p \in Queues \ {q} : SameStore(p)
    BY <2>3, <2>4 DEF SameStore, StoresTyped
  <2>6. Moves(c) /\ pc'[c] = <<e>>
    <3>1. <<e>> \in Seq({e})
      OBVIOUS
    <3> QED BY <1>2, <2>3, <3>1, AfterOne
  <2>7. \A p : c \notin Carriers(p)
    BY <1>2, CarrierIs DEF Copies
  <2>8. e[1] \in Copies /\ e[1] = "copy" /\ e[2] = q /\ e[3] = m /\ e[5] = msg_text[q][m]
    BY <2>2 DEF Copies
  <2>9. /\ Carriers(q)' = Carriers(q) \cup {c} /\ Locals(c)' = e
        /\ \A t \in Carriers(q) : Locals(t)' = Locals(t)
        /\ \A p : p # q => c \notin Carriers(p)'
        /\ Taken(q)' = Taken(q) \cup {m}
    BY <2>6, <2>7, <2>8, CarrierJoins
  <2>10. \A p \in Queues \ {q} : SameCarriers(p)
    BY <2>6, <2>7, <2>9, OthersCarry
  <2>11. /\ msg_queue_head'[q] = msg_next[q][m] /\ msg_entry'[q] = msg_entry[q] - 1
         /\ msg_queue_tail'[q] = (IF msg_queue_tail[q] = m THEN Null ELSE msg_queue_tail[q])
         /\ msg_queue_got'[q] = msg_text[q][m]
    BY <2>3, <2>4 DEF StoresTyped
  <2>12. ASSUME NEW s, NEW f, Placed(q, s, f)
         PROVE  /\ m \in Messages \ Taken(q)
                /\ \E s2 : Placed(q, s2, f)' /\ Passes(q, s, s2)
    <3>1. /\ Strings(s, m, msg_next[q]) /\ msg_entry[q] = Len(s)
          /\ Strings(f, msg_queue_free[q], msg_next[q])
          /\ msg_queue_tail[q] = IF s = <<>> THEN Null ELSE s[Len(s)]
      BY <2>1, <2>12 DEF Placed
    <3>2. s # <<>>
      BY <2>3, <3>1
    <3>3. m \in Range(s) /\ m \in Messages /\ m = Head(s) /\ s \in Seq(Messages)
      BY <3>1, <3>2, StringsFirst
    <3>4. PICK s2 : s2 = Tail(s)
      OBVIOUS
    <3>5. Strings(s2, msg_next[q][m], msg_next[q]) /\ Range(s2) = Range(s) \ {m}
      BY <3>1, <3>2, <3>4, StringsTail
    <3>6. m \notin Range(f) /\ m \notin Taken(q)
      BY <2>12, <3>3 DEF Placed
    <3>7. /\ Range(s2) \cap Range(f) = {}
          /\ Range(s2) \cup Range(f) = Messages \ Taken(q)'
      BY <2>9, <2>12, <3>3, <3>5, <3>6 DEF Placed
    <3>8. /\ Len(s2) = Len(s) - 1 /\ Len(s) \in Nat /\ Len(s) # 0
          /\ \A i \in 1..Len(s2) : s2[i] = s[i + 1]
          /\ (s2 = <<>> <=> Len(s2) = 0)
      <4>1. Len(s) \in Nat /\ Len(s) # 0
        BY <3>2, <3>3
      <4>2. s2 \in Seq(Messages) /\ Len(s2) = Len(s) - 1
        BY <3>2, <3>3, <3>4
      <4>3. \A i \in 1..Len(s2) : s2[i] = s[i + 1]
        BY <3>2, <3>3, <3>4
      <4>4. s2 = <<>> <=> Len(s2) = 0
        BY <4>2
      <4> QED BY <4>1, <4>2, <4>3, <4>4
    <3>9. s[Len(s)] = m <=> s2 = <<>>
      <4>1. m = s[1] /\ 1 \in 1..Len(s) /\ Len(s) \in 1..Len(s)
        BY <3>2, <3>3, <3>8
      <4>2. s[Len(s)] = s[1] => Len(s) = 1
        BY <3>1, <4>1 DEF Strings, Distinct
      <4> QED BY <3>8, <4>1, <4>2
    <3>10. s2 # <<>> => s2[Len(s2)] = s[Len(s)]
      BY <3>8
    <3>11. msg_queue_tail'[q] = IF s2 = <<>> THEN Null ELSE s2[Len(s2)]
      BY <2>11, <3>1, <3>2, <3>9, <3>10
    <3>12. Placed(q, s2, f)'
      BY <2>3, <2>11, <3>1, <3>5, <3>7, <3>8, <3>11 DEF Placed
    <3>13. Passes(q, s, s2)
      BY <2>3, <2>11, <3>2, <3>3, <3>4 DEF Passes
    <3> QED BY <3>3, <3>6, <3>12, <3>13
  <2>13. m \in Messages \ Taken(q)
    BY <2>4, <2>12 DEF StoreOK
  <2>14. CarriersOK(q)'
    <3>1. ASSUME NEW t \in Carriers(q) PROVE CarrierOK(t, q)' /\ Locals(t)'[3] # m
      BY <2>3, <2>4, <2>9, <2>13 DEF CarrierOK, CarriersOK, StoreOK, Taken
    <3>2. CarrierOK(c, q)' /\ Locals(c)'[3] = m
      BY <2>3, <2>8, <2>9, <2>13 DEF CarrierOK
    <3>3. \A t, u \in Carriers(q) : Locals(t)'[3] = Locals(u)'[3] => t = u
      BY <2>4, <2>9 DEF CarriersOK, StoreOK
    <3>4. \A t, u \in Carriers(q)' : Locals(t)'[3] = Locals(u)'[3] => t = u
      BY <2>9, <3>1, <3>2, <3>3
    <3>5. \A t \in Carriers(q)' : CarrierOK(t, q)'
      BY <2>9, <3>1, <3>2
    <3> QED BY <3>4, <3>5 DEF CarriersOK
  <2>15. StoreStep(q)
    BY <2>12, <2>14 DEF StoreStep, Turns
  <2> QED BY <2>5, <2>10, <2>15, StoresAside
<1> QED BY <1>4, <1>5

\* Nobody has a message of an object that nobody is in a call on.
LEMMA DesertedIs ==
    ASSUME KInv, NEW q \in Queues, Deserted(q)
    PROVE  Carriers(q) = {}
<1>1. q \in Range(ListsOf[q])
  <2>1. q \in Objects
    BY QueueLists
  <2>2. ListsOf[q] = <<q>> \/ \E l : ListsOf[q] = <<q, l>>
    BY <2>1, IpcAssumption
  <2>3. 1 \in DOMAIN ListsOf[q] /\ ListsOf[q][1] = q
    BY <2>2
  <2> QED BY <2>3 DEF Range
<1>2. ASSUME NEW t \in Carriers(q) PROVE FALSE
  <2>1. t \in Threads
    BY DEF Carriers
  <2>2. PICK i \in DOMAIN pc[t] : pc[t][i][1] \in {"fill", "link", "copy"} /\ pc[t][i][2] = q
    BY DEF Carriers
  <2>3. pc[t][i][1] # "woken"
    BY <2>2
  <2> QED BY <1>1, <2>1, <2>2, <2>3 DEF Deserted
<1> QED BY <1>2

\* A queue that is set up has all messages free.
LEMMA SetUpStores ==
    ASSUME KInv, StoresOK, NEW c \in Threads, NEW q \in Queues,
           QueueInitialise(c, q) \/ QueueCreate(c, q)
    PROVE  \A p \in Queues : StoreStep(p)
<1>1. /\ InitObject(c, q) \/ CreateObject(c, q)
      /\ Deserted(q) /\ QueueSetUp(q)
  BY DEF QueueInitialise, QueueCreate, InitObject, CreateObject, MakeObject
<1>2. StoresTyped /\ StoreOK(q)
  BY DEF StoresOK
<1>3. CarriersStill
  BY <1>1, QueueLists, ObjectBare
<1>4. \A p : SameCarriers(p)
  BY <1>3, StillCarriers
<1>5. Carriers(q) = {} /\ Carriers(q)' = {}
  BY <1>1, <1>4, DesertedIs DEF SameCarriers
<1>6. Taken(q)' = {}
  BY <1>5 DEF Taken
<1>7. CarriersOK(q)'
  BY <1>5 DEF CarriersOK
<1>8. \A p \in Queues \ {q} : SameStore(p)
  BY <1>1, <1>2 DEF SameStore, StoresTyped, QueueSetUp
<1>9. /\ msg_next'[q] = [m \in Messages |-> m - 1]
      /\ msg_queue_head'[q] = Null /\ msg_queue_tail'[q] = Null
      /\ msg_queue_free'[q] = MaxMsgs /\ msg_entry'[q] = 0
      /\ msg_text' = msg_text /\ msg_queue_got' = msg_queue_got
  BY <1>1, <1>2 DEF StoresTyped, QueueSetUp
<1>10. PICK t : Strings(t, MaxMsgs, msg_next'[q]) /\ Range(t) = Messages
  BY <1>9, StringsAll
<1>11. Strings(<<>>, Null, msg_next'[q]) /\ Range(<<>>) = {} /\ Len(<<>>) = 0
  <2>1. <<>> \in Seq(Messages) /\ Len(<<>>) = 0
    OBVIOUS
  <2> QED BY <2>1, InRange DEF Strings, Distinct
<1>12. Placed(q, <<>>, t)'
  BY <1>6, <1>9, <1>10, <1>11 DEF Placed
<1>13. \A s : Passes(q, s, <<>>)
  BY <1>9 DEF Passes
<1>14. StoreStep(q)
  BY <1>7, <1>12, <1>13 DEF StoreStep, Turns
<1> QED BY <1>4, <1>8, <1>14, StoresAside

\* The reset puts the messages of the queue on the free list and leaves alone the
\* ones that threads have.
LEMMA MsgResetStores ==
    ASSUME KInv, StoresOK, NEW c \in Threads, NEW q \in Queues, MsgReset(c, q)
    PROVE  \A p \in Queues : StoreStep(p)
<1>1. PICK queued : queued = Chain(q, msg_queue_head[q])
  OBVIOUS
<1>2. /\ ResetObject(c, q)
      /\ msg_next' = [msg_next EXCEPT ![q] = [m \in Messages |->
              IF m \in Range(queued)
              THEN LET i == CHOOSE i \in DOMAIN queued : queued[i] = m
                   IN IF i = 1 THEN msg_queue_free[q] ELSE queued[i - 1]
              ELSE @[m]]]
      /\ msg_queue_free' = [msg_queue_free EXCEPT
             ![q] = IF queued = <<>> THEN @ ELSE Last(queued)]
      /\ msg_queue_head' = [msg_queue_head EXCEPT ![q] = Null]
      /\ msg_queue_tail' = [msg_queue_tail EXCEPT ![q] =
             IF @ \in Range(queued) THEN Null ELSE @]
      /\ msg_entry' = [msg_entry EXCEPT ![q] = 0]
      /\ msg_text' = msg_text /\ msg_queue_got' = msg_queue_got
  BY <1>1 DEF MsgReset
<1>3. StoresTyped /\ StoreOK(q)
  BY DEF StoresOK
<1>4. CarriersStill
  BY <1>2, QueueLists, ObjectBare
<1>5. \A p : SameCarriers(p)
  BY <1>4, StillCarriers
<1>6. Taken(q)' = Taken(q)
  BY <1>5, SameTaken
<1>7. \A p \in Queues \ {q} : SameStore(p)
  BY <1>2, <1>3 DEF SameStore, StoresTyped
<1>8. /\ msg_queue_head'[q] = Null /\ msg_entry'[q] = 0
      /\ msg_queue_free'[q] = IF queued = <<>> THEN msg_queue_free[q] ELSE Last(queued)
      /\ msg_queue_tail'[q] = IF msg_queue_tail[q] \in Range(queued) THEN Null
                              ELSE msg_queue_tail[q]
  BY <1>2, <1>3 DEF StoresTyped
<1>9. \A m \in Messages : msg_next'[q][m] =
          IF m \in Range(queued)
          THEN LET i == CHOOSE i \in DOMAIN queued : queued[i] = m
               IN IF i = 1 THEN msg_queue_free[q] ELSE queued[i - 1]
          ELSE msg_next[q][m]
  BY <1>2, <1>3 DEF StoresTyped
<1>10. ASSUME NEW s, NEW f, Placed(q, s, f)
       PROVE  /\ \E t : Placed(q, <<>>, t)' /\ Passes(q, s, <<>>)
              /\ queued = s
  <2>1. /\ Strings(s, msg_queue_head[q], msg_next[q])
        /\ Strings(f, msg_queue_free[q], msg_next[q])
        /\ Range(s) \cap Range(f) = {}
        /\ msg_queue_tail[q] = IF s = <<>> THEN Null ELSE s[Len(s)]
    BY <1>10 DEF Placed
  <2>2. queued = s
    BY <1>1, <2>1, ChainIs
  <2>3. /\ s \in Seq(Messages) /\ Len(s) \in Nat /\ DOMAIN s = 1..Len(s)
        /\ \A i \in 1..Len(s) : s[i] \in Range(s) /\ s[i] \in Messages
        /\ Range(f) \subseteq Messages
        /\ \A i, j \in 1..Len(s) : s[i] = s[j] => i = j
    BY <2>1, InRange DEF Strings, Distinct
  <2>4. ASSUME NEW i \in 1..Len(s)
        PROVE  msg_next'[q][s[i]] = IF i = 1 THEN msg_queue_free[q] ELSE s[i - 1]
    <3>1. (CHOOSE j \in DOMAIN s : s[j] = s[i]) = i
      BY <2>3
    <3> QED BY <1>9, <2>2, <2>3, <3>1
  <2>5. \A x \in Range(f) : msg_next'[q][x] = msg_next[q][x]
    BY <1>9, <2>1, <2>2, <2>3
  <2>6. PICK t : /\ Strings(t, IF s = <<>> THEN msg_queue_free[q] ELSE s[Len(s)],
                            msg_next'[q])
                 /\ Range(t) = Range(s) \cup Range(f)
    <3>1. PICK next, next2, top, head :
              /\ next = msg_next[q] /\ next2 = msg_next'[q]
              /\ top = msg_queue_free[q] /\ head = msg_queue_head[q]
      OBVIOUS
    <3>2. /\ Strings(s, head, next) /\ Strings(f, top, next)
          /\ \A x \in Range(f) : next2[x] = next[x]
          /\ \A i \in 1..Len(s) : next2[s[i]] = IF i = 1 THEN top ELSE s[i - 1]
      BY <2>1, <2>4, <2>5, <3>1
    <3>3. \E t : /\ Strings(t, IF s = <<>> THEN top ELSE s[Len(s)], next2)
                 /\ Range(t) = Range(s) \cup Range(f)
      <4>1. Backwards(s, top, next2)
        BY <3>2 DEF Backwards
      <4> QED BY <2>1, <3>2, <4>1, StringsReturned
    <3> QED BY <3>1, <3>3
  <2>7. Strings(<<>>, Null, msg_next'[q]) /\ Range(<<>>) = {} /\ Len(<<>>) = 0
    <3>1. <<>> \in Seq(Messages) /\ Len(<<>>) = 0
      OBVIOUS
    <3> QED BY <3>1, InRange DEF Strings, Distinct
  <2>8. msg_queue_free'[q] = IF s = <<>> THEN msg_queue_free[q] ELSE s[Len(s)]
    BY <1>8, <2>2, <2>3 DEF Last
  <2>9. msg_queue_tail'[q] = Null
    <3>1. s # <<>> => Len(s) \in 1..Len(s)
      BY <2>3
    <3> QED BY <1>8, <2>1, <2>2, <2>3, <3>1
  <2>10. Placed(q, <<>>, t)'
    BY <1>6, <1>8, <1>10, <2>6, <2>7, <2>8, <2>9 DEF Placed
  <2>11. Passes(q, s, <<>>)
    BY <1>2 DEF Passes
  <2> QED BY <2>2, <2>10, <2>11
<1>11. CarriersOK(q)'
  <2>1. PICK s, f : Placed(q, s, f)
    BY <1>3 DEF StoreOK
  <2>2. ASSUME NEW t \in Carriers(q) PROVE CarrierOK(t, q)'
    <3>1. CarrierOK(t, q) /\ Locals(t)' = Locals(t)
      BY <1>3, <1>5 DEF StoreOK, CarriersOK, SameCarriers
    <3>2. Locals(t)[3] \in Messages /\ Locals(t)[3] \in Taken(q)
      BY <3>1 DEF CarrierOK, Taken
    <3>3. Locals(t)[3] \notin Range(s) /\ queued = s
      BY <1>10, <2>1, <3>2, PlacedApart
    <3>4. msg_next'[q][Locals(t)[3]] = msg_next[q][Locals(t)[3]]
      BY <1>9, <3>2, <3>3
    <3> QED BY <1>2, <3>1, <3>4, CarrierOKStays
  <2>3. \A t, u \in Carriers(q) : Locals(t)'[3] = Locals(u)'[3] => t = u
    BY <1>3, <1>5 DEF StoreOK, CarriersOK, SameCarriers
  <2> QED BY <1>5, <2>2, <2>3 DEF CarriersOK, SameCarriers
<1>12. StoreStep(q)
  BY <1>10, <1>11 DEF StoreStep, Turns
<1> QED BY <1>5, <1>7, <1>12, StoresAside

\* What does not touch the messages.
LEMMA QueueEndStores ==
    ASSUME KInv, StoresOK, NEW c \in Threads, NEW q \in Queues,
           QueueDetach(c, q) \/ QueueDelete(c, q)
    PROVE  \A p \in Queues : StoreStep(p)
<1>1. (DetachObject(c, q) \/ DeleteObject(c, q)) /\ UNCHANGED qvars
  BY DEF QueueDetach, QueueDelete
<1>2. CarriersStill
  BY <1>1, QueueLists, ObjectBare
<1> QED BY <1>1, <1>2, StoresStill

LEMMA MsgRecvCallStores ==
    ASSUME KInv, StoresOK, NEW c \in Threads, NEW q \in Queues, NEW wait,
           MsgRecvCall(c, q, wait)
    PROVE  \A p \in Queues : StoreStep(p)
<1>1. PICK call : /\ Call(c, call) /\ Goto(c, << <<"msgrecv", q, wait>> >>)
                  /\ UNCHANGED qvars
  BY DEF MsgRecvCall
<1>2. Bare(<< <<"msgrecv", q, wait>> >>)
  BY BareAre DEF Copies
<1>3. CarriersStill
  BY <1>1, <1>2, GotoBare
<1> QED BY <1>1, <1>3, StoresStill

LEMMA QueueStores ==
    ASSUME KInv, StoresOK, QueueNext
    PROVE  \A p \in Queues : StoreStep(p)
BY SetUpStores, MsgResetStores, QueueEndStores, MsgRecvCallStores, MsgRecvStores,
   MsgTakeStores, MsgFillStores, MsgLinkStores, MsgFreeStores, IsrMsgSendStores
   DEF QueueNext, QueueStep

\* What the variables are of stays.
LEMMA StoresTypedKept ==
    ASSUME StoresTyped, QueueNext
    PROVE  StoresTyped'
<1>1. CASE UNCHANGED qvars
  BY <1>1 DEF StoresTyped, qvars, links
<1>2. ASSUME NEW c \in Threads, MsgFill(c) \/ MsgRecv(c) \/ MsgFree(c)
      PROVE  StoresTyped'
  BY <1>1, <1>2 DEF MsgFill, MsgRecv, MsgFree, CutOff, Filled, UnlinkedHead, StoresTyped
<1>3. ASSUME NEW q, NEW m, NEW how, NEW next, Linked(q, m, how, next),
             DOMAIN next = Queues, \A p \in Queues : DOMAIN next[p] = Messages
      PROVE  /\ DOMAIN msg_next' = Queues /\ DOMAIN msg_entry' = Queues
             /\ DOMAIN msg_queue_head' = Queues /\ DOMAIN msg_queue_tail' = Queues
             /\ \A p \in Queues : DOMAIN msg_next'[p] = Messages
  BY <1>3 DEF Linked, LinkedBehind, LinkedBefore, StoresTyped
<1>4. ASSUME NEW c \in Threads, MsgLink(c) PROVE StoresTyped'
  BY <1>3, <1>4 DEF MsgLink, StoresTyped
<1>5. ASSUME NEW q \in Queues, NEW how, NEW text, IsrMsgSend(q, how, text)
      PROVE  StoresTyped'
  <2>1. PICK m, next : Linked(q, m, how, next) /\ next = CutOff(q, m, how)
    BY <1>5 DEF IsrMsgSend
  <2>2. DOMAIN next = Queues /\ \A p \in Queues : DOMAIN next[p] = Messages
    BY <2>1 DEF CutOff, StoresTyped
  <2>3. /\ msg_queue_got' = msg_queue_got /\ DOMAIN msg_queue_free' = Queues
        /\ DOMAIN msg_text' = Queues /\ \A p \in Queues : DOMAIN msg_text'[p] = Messages
    BY <1>5 DEF IsrMsgSend, Filled, StoresTyped
  <2> QED BY <1>3, <2>1, <2>2, <2>3 DEF StoresTyped
<1>6. ASSUME NEW c \in Threads, NEW q \in Queues,
             \/ MsgReset(c, q) \/ QueueInitialise(c, q) \/ QueueCreate(c, q)
             \/ \E how, text : MsgTake(c, q, how, text)
      PROVE  StoresTyped'
  BY <1>6 DEF MsgReset, QueueInitialise, QueueCreate, QueueSetUp, MsgTake, StoresTyped
<1>7. ASSUME NEW c \in Threads, NEW q \in Queues,
             \/ QueueDetach(c, q) \/ QueueDelete(c, q)
             \/ \E wait : MsgRecvCall(c, q, wait)
      PROVE  StoresTyped'
  BY <1>1, <1>7 DEF QueueDetach, QueueDelete, MsgRecvCall
<1> QED BY <1>2, <1>4, <1>5, <1>6, <1>7 DEF QueueNext, QueueStep

\* The messages are where they ought to be, after each step.
LEMMA StoresStep ==
    ASSUME SettledInv, StoresOK, [AllNext]_vars
    PROVE  StoresOK' /\ \A q \in Queues : StoreStep(q)
<1>1. KInv
  BY DEF SettledInv
<1>2. StoresTyped'
  <2>1. CASE QueueNext
    BY <2>1, StoresTypedKept DEF StoresOK
  <2>2. CASE UNCHANGED qvars
    BY <2>2 DEF StoresOK, StoresTyped, qvars, links
  <2> QED BY <2>1, <2>2, OthersBare
<1>3. \A q \in Queues : StoreStep(q)
  BY <1>1, OthersBare, QueueStores, StoresStill
<1>4. ASSUME NEW q \in Queues PROVE StoreOK(q)'
  <2>1. StoreOK(q) /\ StoreStep(q)
    BY <1>3 DEF StoresOK
  <2> QED BY <2>1 DEF StoreOK, StoreStep, Turns
<1> QED BY <1>2, <1>3, <1>4 DEF StoresOK

\* All messages are free at first.
LEMMA StoresAtStart ==
    ASSUME AllInit, KInv
    PROVE  StoresOK
<1>1. QueueInit /\ \A t \in Threads : pc[t] = <<>>
  BY DEF AllInit, IpcInit, Init
<1>2. StoresTyped
  BY <1>1 DEF QueueInit, StoresTyped
<1>3. ASSUME NEW q \in Queues PROVE StoreOK(q)
  <2>1. Carriers(q) = {}
    BY <1>1 DEF Carriers
  <2>2. CarriersOK(q) /\ Taken(q) = {}
    BY <2>1 DEF CarriersOK, Taken
  <2>3. /\ msg_next[q] = [m \in Messages |-> m - 1]
        /\ msg_queue_head[q] = Null /\ msg_queue_tail[q] = Null
        /\ msg_queue_free[q] = MaxMsgs /\ msg_entry[q] = 0
    BY <1>1 DEF QueueInit
  <2>4. PICK t : Strings(t, MaxMsgs, msg_next[q]) /\ Range(t) = Messages
    BY <2>3, StringsAll
  <2>5. Strings(<<>>, Null, msg_next[q]) /\ Range(<<>>) = {} /\ Len(<<>>) = 0
    <3>1. <<>> \in Seq(Messages) /\ Len(<<>>) = 0
      OBVIOUS
    <3> QED BY <3>1, InRange DEF Strings, Distinct
  <2>6. Placed(q, <<>>, t)
    BY <2>2, <2>3, <2>4, <2>5 DEF Placed
  <2> QED BY <2>2, <2>6 DEF StoreOK
<1> QED BY <1>2, <1>3 DEF StoresOK

\* Two sequences that have nothing in common.
LEMMA DistinctBoth ==
    ASSUME NEW s, Distinct(s), NEW f, Distinct(f), Range(s) \cap Range(f) = {}
    PROVE  Distinct(s \o f) /\ Range(s \o f) = Range(s) \cup Range(f)
<1> DEFINE n == Len(s)
           k == Len(f)
           t == s \o f
<1>1. /\ s \in Seq(Messages) /\ n \in Nat /\ \A i \in 1..n : s[i] \in Range(s)
      /\ f \in Seq(Messages) /\ k \in Nat /\ \A i \in 1..k : f[i] \in Range(f)
  BY InRange DEF Distinct
<1>2. /\ t \in Seq(Messages) /\ Len(t) = n + k
      /\ \A i \in 1..n + k : t[i] = IF i <= n THEN s[i] ELSE f[i - n]
  BY <1>1
<1>3. /\ \A i, j \in 1..n : s[i] = s[j] => i = j
      /\ \A i, j \in 1..k : f[i] = f[j] => i = j
      /\ \A i \in 1..n, j \in 1..k : s[i] # f[j]
  BY <1>1 DEF Distinct
<1> HIDE DEF t, n, k
<1>4. \A i \in 1..n + k : (i <= n => i \in 1..n) /\ (i > n => i - n \in 1..k)
  BY <1>1
<1>5. ASSUME NEW i \in 1..n + k, NEW j \in 1..n + k, t[i] = t[j] PROVE i = j
  <2>0. i \in Int /\ j \in Int
    BY <1>1
  <2>1. CASE i <= n /\ j <= n
    BY <1>2, <1>3, <1>4, <1>5, <2>1
  <2>2. CASE i > n /\ j > n
    <3>0. ~(i <= n) /\ ~(j <= n) /\ i - n \in 1..k /\ j - n \in 1..k
      BY <1>1, <1>4, <2>0, <2>2
    <3>1. i - n = j - n
      BY <1>2, <1>3, <1>5, <3>0
    <3> QED BY <1>1, <2>0, <3>1
  <2>3. CASE i <= n /\ j > n
    <3>0. ~(j <= n) /\ i \in 1..n /\ j - n \in 1..k
      BY <1>1, <1>4, <2>0, <2>3
    <3> QED BY <1>2, <1>3, <1>5, <2>3, <3>0
  <2>4. CASE i > n /\ j <= n
    <3>0. ~(i <= n) /\ j \in 1..n /\ i - n \in 1..k
      BY <1>1, <1>4, <2>0, <2>4
    <3> QED BY <1>2, <1>3, <1>5, <2>4, <3>0
  <2> QED BY <1>1, <2>0, <2>1, <2>2, <2>3, <2>4
<1>6. Distinct(t)
  BY <1>2, <1>5 DEF Distinct
<1>7. Range(t) = Range(s) \cup Range(f)
  <2>1. ASSUME NEW x \in Range(t) PROVE x \in Range(s) \cup Range(f)
    <3>1. PICK i \in 1..n + k : t[i] = x
      BY <1>2, <2>1, InRange
    <3>2. CASE i <= n
      <4>1. i \in 1..n /\ s[i] = x
        BY <1>2, <1>4, <3>1, <3>2
      <4> QED BY <1>1, <4>1
    <3>3. CASE i > n
      <4>1. ~(i <= n) /\ i - n \in 1..k
        BY <1>1, <1>4, <3>3
      <4> QED BY <1>1, <1>2, <3>1, <4>1
    <3> QED BY <1>1, <3>2, <3>3
  <2>2. ASSUME NEW x \in Range(s) PROVE x \in Range(t)
    <3>1. PICK i \in 1..n : s[i] = x
      BY <1>1, <2>2, InRange DEF n
    <3>2. i \in 1..n + k /\ i <= n
      BY <1>1
    <3> QED BY <1>2, <3>1, <3>2, InRange
  <2>3. ASSUME NEW x \in Range(f) PROVE x \in Range(t)
    <3>1. PICK i \in 1..k : f[i] = x
      BY <1>1, <2>3, InRange DEF k
    <3>2. n + i \in 1..n + k /\ ~(n + i <= n) /\ (n + i) - n = i
      BY <1>1
    <3>3. t[n + i] = x
      BY <1>2, <3>1, <3>2
    <3> QED BY <1>2, <3>2, <3>3, InRange
  <2> QED BY <2>1, <2>2, <2>3
<1> QED BY <1>6, <1>7 DEF t

\* As many messages as threads that have one.
LEMMA CarriersCount ==
    ASSUME NEW q, CarriersOK(q)
    PROVE  Cardinality(Carriers(q)) = Cardinality(Taken(q))
<1> DEFINE g == [t \in Carriers(q) |-> Locals(t)[3]]
<1>1. IsFiniteSet(Carriers(q))
  <2>1. Carriers(q) \subseteq Threads /\ IsFiniteSet(Threads)
    BY KernelAssumption DEF Carriers
  <2> QED BY <2>1, FS_Subset
<1>2. g \in Bijection(Carriers(q), Taken(q))
  <2>1. g \in [Carriers(q) -> Taken(q)]
    BY DEF Taken
  <2>2. \A t, u \in Carriers(q) : g[t] = g[u] => t = u
    BY DEF CarriersOK
  <2>3. \A m \in Taken(q) : \E t \in Carriers(q) : g[t] = m
    BY DEF Taken
  <2> HIDE DEF g
  <2> QED BY <2>1, <2>2, <2>3, FS_Bijection DEF Bijection, Injection, Surjection, IsInjective
<1>3. ExistsBijection(Carriers(q), Taken(q))
  BY <1>2 DEF ExistsBijection
<1> QED BY <1>1, <1>3, FS_Bijection

\* The invariant implies the property.
LEMMA StoresAreSound ==
    ASSUME KInv, StoresOK
    PROVE  MessagesAreSomewhere
<1> SUFFICES ASSUME NEW q \in Queues
             PROVE  LET queued  == Chain(q, msg_queue_head[q])
                        places  == queued \o Chain(q, msg_queue_free[q])
                        carried == {Carried(t)[3] : t \in Carriers(q)}
                    IN /\ Cardinality(Carriers(q)) = Cardinality(carried)
                       /\ Cardinality(Range(places)) = Len(places)
                       /\ Range(places) = Messages \ carried
                       /\ msg_entry[q] = Len(queued)
                       /\ msg_queue_tail[q] = IF queued = <<>> THEN Null ELSE Last(queued)
                       /\ \A t \in Carriers(q) : Carried(t)[1] = "copy" =>
                              msg_text[q][Carried(t)[3]] = Carried(t)[5]
  BY DEF MessagesAreSomewhere
<1>1. StoreOK(q)
  BY DEF StoresOK
<1>2. PICK s, f : Placed(q, s, f)
  BY <1>1 DEF StoreOK
<1>3. Chain(q, msg_queue_head[q]) = s /\ Chain(q, msg_queue_free[q]) = f
  BY <1>2, ChainIs DEF Placed
<1>4. \A t \in Carriers(q) : Carried(t) = Locals(t)
  BY CarriersAre
<1>5. {Carried(t)[3] : t \in Carriers(q)} = Taken(q)
  BY <1>4 DEF Taken
<1>6. Distinct(s \o f) /\ Range(s \o f) = Range(s) \cup Range(f)
  BY <1>2, DistinctBoth DEF Placed, Strings
<1>7. Cardinality(Range(s \o f)) = Len(s \o f)
  BY <1>6, DistinctFits
<1>8. Cardinality(Carriers(q)) = Cardinality(Taken(q))
  BY <1>1, CarriersCount DEF StoreOK
<1>9. msg_entry[q] = Len(s) /\ Range(s \o f) = Messages \ Taken(q)
  BY <1>2, <1>6 DEF Placed
<1>10. msg_queue_tail[q] = IF s = <<>> THEN Null ELSE Last(s)
  BY <1>2 DEF Placed, Last
<1>11. \A t \in Carriers(q) : Carried(t)[1] = "copy" =>
           msg_text[q][Carried(t)[3]] = Carried(t)[5]
  BY <1>1, <1>4 DEF StoreOK, CarriersOK, CarrierOK
<1> QED BY <1>3, <1>5, <1>7, <1>8, <1>9, <1>10, <1>11

\* Every message of a queue is in the queue, in the free list or with one thread, once,
\* whichever threads are preempted while they copy a text; the tail is the last of the
\* queue and entry its length, and a text that is being received is not overwritten.
THEOREM MessagesAreSomewhereHolds == AllSpec /\ Settled => []MessagesAreSomewhere
<1>1. AllInit /\ Settled => SettledInv /\ StoresOK
  BY StartIsSettled, StoresAtStart DEF SettledInv
<1>2. SettledInv /\ StoresOK /\ [AllNext]_vars => SettledInv' /\ StoresOK'
  BY StepIsSettled, StoresStep
<1>3. SettledInv /\ StoresOK => MessagesAreSomewhere
  BY StoresAreSound DEF SettledInv
<1> QED BY <1>1, <1>2, <1>3, PTL DEF AllSpec

-----------------------------------------------------------------------------
(* A message queue is a channel.                                           *)

\* What text has for the messages s.
Read(s, text) == [i \in 1..Len(s) |-> text[s[i]]]

Values(text) == {text[m] : m \in Messages}

LEMMA ReadIs ==
    ASSUME NEW s \in Seq(Messages), NEW text
    PROVE  /\ Read(s, text) \in Seq(Values(text)) /\ Len(Read(s, text)) = Len(s)
           /\ \A i \in 1..Len(s) : Read(s, text)[i] = text[s[i]]
           /\ Read(s, text) = <<>> <=> s = <<>>
<1> DEFINE n == Len(s)
           r == Read(s, text)
           V == Values(text)
<1>1. n \in Nat /\ \A i \in 1..n : text[s[i]] \in V
  BY DEF Values
<1> HIDE DEF n, V
<1>2. r = [i \in 1..n |-> text[s[i]]]
  BY DEF Read, n
<1> HIDE DEF r
<1>3. r \in Seq(V) /\ Len(r) = n /\ \A i \in 1..n : r[i] = text[s[i]]
  BY <1>1, <1>2
<1>4. r = <<>> <=> Len(r) = 0
  BY <1>3
<1>5. s = <<>> <=> n = 0
  BY DEF n
<1> QED BY <1>3, <1>4, <1>5 DEF n, r, V

LEMMA SameSequence ==
    ASSUME NEW V, NEW a \in Seq(V), NEW b \in Seq(V), Len(a) = Len(b),
           \A i \in 1..Len(a) : a[i] = b[i]
    PROVE  a = b
BY SeqEqual

LEMMA ReadSame ==
    ASSUME NEW s \in Seq(Messages), NEW text, NEW text2,
           \A x \in Range(s) : text2[x] = text[x]
    PROVE  Read(s, text2) = Read(s, text)
<1>1. \A i \in 1..Len(s) : text2[s[i]] = text[s[i]]
  BY InRange
<1> QED BY <1>1 DEF Read

\* What the texts are when a message is linked, ...
LEMMA ReadBehind ==
    ASSUME NEW s \in Seq(Messages), NEW text, NEW m \in Messages
    PROVE  Read(Append(s, m), text) = Append(Read(s, text), text[m])
<1> DEFINE V == Values(text)
           t == Append(s, m)
           a == Read(t, text)
           r == Read(s, text)
           b == Append(r, text[m])
<1>1. /\ t \in Seq(Messages) /\ Len(t) = Len(s) + 1 /\ Len(s) \in Nat
      /\ \A i \in 1..Len(s) + 1 : t[i] = IF i = Len(s) + 1 THEN m ELSE s[i]
  OBVIOUS
<1>2. text[m] \in V
  BY DEF Values
<1> HIDE DEF V, t
<1>3. /\ a \in Seq(V) /\ Len(a) = Len(s) + 1
      /\ \A i \in 1..Len(s) + 1 : a[i] = text[t[i]]
  BY <1>1, ReadIs DEF V
<1>4. r \in Seq(V) /\ Len(r) = Len(s) /\ \A i \in 1..Len(s) : r[i] = text[s[i]]
  BY ReadIs DEF V
<1> HIDE DEF a, r
<1>5. /\ b \in Seq(V) /\ Len(b) = Len(s) + 1
      /\ \A i \in 1..Len(s) + 1 : b[i] = IF i = Len(s) + 1 THEN text[m] ELSE r[i]
  BY <1>1, <1>2, <1>4
<1> HIDE DEF b
<1>6. ASSUME NEW i \in 1..Len(s) + 1 PROVE a[i] = b[i]
  BY <1>1, <1>3, <1>4, <1>5
<1>7. a = b
  BY <1>3, <1>5, <1>6, SameSequence
<1> QED BY <1>7 DEF a, b, r, t

LEMMA ReadBefore ==
    ASSUME NEW s \in Seq(Messages), NEW text, NEW m \in Messages
    PROVE  Read(<<m>> \o s, text) = <<text[m]>> \o Read(s, text)
<1> DEFINE V == Values(text)
           t == <<m>> \o s
           a == Read(t, text)
           r == Read(s, text)
           b == <<text[m]>> \o r
<1>1. /\ t \in Seq(Messages) /\ Len(t) = Len(s) + 1 /\ Len(s) \in Nat
      /\ \A i \in 1..Len(s) + 1 : t[i] = IF i = 1 THEN m ELSE s[i - 1]
  OBVIOUS
<1>2. text[m] \in V
  BY DEF Values
<1> HIDE DEF V, t
<1>3. /\ a \in Seq(V) /\ Len(a) = Len(s) + 1
      /\ \A i \in 1..Len(s) + 1 : a[i] = text[t[i]]
  BY <1>1, ReadIs DEF V
<1>4. r \in Seq(V) /\ Len(r) = Len(s) /\ \A i \in 1..Len(s) : r[i] = text[s[i]]
  BY ReadIs DEF V
<1> HIDE DEF a, r
<1>5. /\ b \in Seq(V) /\ Len(b) = Len(s) + 1
      /\ \A i \in 1..Len(s) + 1 : b[i] = IF i = 1 THEN text[m] ELSE r[i - 1]
  BY <1>1, <1>2, <1>4
<1> HIDE DEF b
<1>6. ASSUME NEW i \in 1..Len(s) + 1 PROVE a[i] = b[i]
  <2>1. CASE i = 1
    BY <1>1, <1>3, <1>5, <2>1
  <2>2. CASE i # 1
    <3>1. i - 1 \in 1..Len(s)
      BY <1>1, <2>2
    <3>2. a[i] = text[t[i]] /\ t[i] = s[i - 1]
      BY <1>1, <1>3, <2>2
    <3>3. b[i] = r[i - 1] /\ r[i - 1] = text[s[i - 1]]
      BY <1>4, <1>5, <2>2, <3>1
    <3> QED BY <3>2, <3>3
  <2> QED BY <2>1, <2>2
<1>7. a = b
  BY <1>3, <1>5, <1>6, SameSequence
<1> QED BY <1>7 DEF a, b, r, t

\* ... and when the first is unlinked.
LEMMA ReadTail ==
    ASSUME NEW s \in Seq(Messages), NEW text, s # <<>>
    PROVE  /\ Read(Tail(s), text) = Tail(Read(s, text))
           /\ Head(Read(s, text)) = text[Head(s)] /\ Read(s, text) # <<>>
<1> DEFINE V == Values(text)
           t == Tail(s)
           a == Read(t, text)
           r == Read(s, text)
           b == Tail(r)
<1>1. /\ t \in Seq(Messages) /\ Len(t) = Len(s) - 1 /\ Len(s) \in Nat /\ Len(s) # 0
      /\ \A i \in 1..Len(t) : t[i] = s[i + 1]
      /\ Head(s) = s[1]
  OBVIOUS
<1> HIDE DEF V, t
<1>2. a \in Seq(V) /\ Len(a) = Len(t) /\ \A i \in 1..Len(t) : a[i] = text[t[i]]
  BY <1>1, ReadIs DEF V
<1>3. /\ r \in Seq(V) /\ Len(r) = Len(s) /\ \A i \in 1..Len(s) : r[i] = text[s[i]]
      /\ r # <<>>
  BY ReadIs DEF V
<1> HIDE DEF a, r
<1>4. /\ b \in Seq(V) /\ Len(b) = Len(s) - 1 /\ Head(r) = r[1]
      /\ \A i \in 1..Len(b) : b[i] = r[i + 1]
  BY <1>1, <1>3
<1> HIDE DEF b
<1>5. ASSUME NEW i \in 1..Len(t) PROVE a[i] = b[i]
  <2>1. i + 1 \in 1..Len(s) /\ i \in 1..Len(b)
    BY <1>1, <1>4
  <2> QED BY <1>1, <1>2, <1>3, <1>4, <2>1
<1>6. a = b
  BY <1>1, <1>2, <1>4, <1>5, SameSequence
<1>7. Head(r) = text[Head(s)]
  <2>1. 1 \in 1..Len(s)
    BY <1>1
  <2> QED BY <1>1, <1>3, <1>4, <2>1
<1> QED BY <1>3, <1>6, <1>7 DEF a, b, r, t

\* What a queue is as a channel.
TextsRead ==
    \A q \in Queues : \A s, f : Placed(q, s, f) => Texted(q) = Read(s, msg_text[q])

LEMMA TextsAreRead ==
    StoresOK => TextsRead
<1> SUFFICES ASSUME NEW q \in Queues, NEW s, NEW f, Placed(q, s, f)
             PROVE  Texted(q) = Read(s, msg_text[q])
  BY DEF TextsRead
<1>1. Chain(q, msg_queue_head[q]) = s
  BY ChainIs DEF Placed
<1>2. DOMAIN s = 1..Len(s)
  BY DEF Placed, Strings, Distinct
<1> QED BY <1>1, <1>2 DEF Texted, Read

\* A step of the channel, or none.
ChannelStep(q) == [QueueChannel(q)!Next]_<<Texted(q), msg_queue_got[q]>>

\* What a step does to the messages is a step of the channel.
LEMMA QueuePasses ==
    ASSUME NEW q \in Queues, NEW s, NEW s2, Passes(q, s, s2),
           Distinct(s), Distinct(s2),
           Texted(q) = Read(s, msg_text[q]), Texted(q)' = Read(s2, msg_text'[q])
    PROVE  ChannelStep(q)
<1> DEFINE text == msg_text[q]
           text2 == msg_text'[q]
<1>1. /\ s \in Seq(Messages) /\ s2 \in Seq(Messages)
      /\ Read(s, text2) = Read(s, text)
  BY ReadSame DEF Passes, Distinct
<1>2. CASE msg_queue_got'[q] = msg_queue_got[q] /\ s2 = s
  BY <1>1, <1>2 DEF ChannelStep
<1>3. CASE msg_queue_got'[q] = msg_queue_got[q] /\ s2 = <<>>
  <2>1. Texted(q)' = <<>>
    BY <1>1, <1>3, ReadIs
  <2>2. QueueChannel(q)!Clear
    BY <1>3, <2>1 DEF QueueChannel!Clear
  <2> QED BY <2>2 DEF QueueChannel!Next, ChannelStep
<1>4. CASE /\ msg_queue_got'[q] = msg_queue_got[q]
           /\ \E m \in Messages : /\ msg_text'[q][m] \in Texts
                                  /\ s2 = Append(s, m) \/ s2 = <<m>> \o s
  <2>1. PICK m \in Messages : /\ text2[m] \in Texts
                              /\ s2 = Append(s, m) \/ s2 = <<m>> \o s
    BY <1>4
  <2>2. PICK x \in Texts : x = text2[m]
    BY <2>1
  <2>3. Len(Texted(q)) < MaxMsgs
    <3>1. Len(s2) = Len(s) + 1 /\ Len(s) \in Nat
      BY <1>1, <2>1
    <3>2. Len(s2) <= MaxMsgs /\ Len(Texted(q)) = Len(s)
      BY <1>1, DistinctFits, ReadIs
    <3> QED BY <3>1, <3>2, QueueAssumption
  <2>4. CASE s2 = Append(s, m)
    <3>1. Texted(q)' = Append(Texted(q), x)
      BY <1>1, <2>2, <2>4, ReadBehind
    <3>2. QueueChannel(q)!Post(x)
      BY <1>4, <2>3, <3>1 DEF QueueChannel!Post
    <3> QED BY <3>2 DEF QueueChannel!Next, ChannelStep
  <2>5. CASE s2 = <<m>> \o s
    <3>1. Texted(q)' = <<x>> \o Texted(q)
      BY <1>1, <2>2, <2>5, ReadBefore
    <3>2. QueueChannel(q)!PostUrgent(x)
      BY <1>4, <2>3, <3>1 DEF QueueChannel!PostUrgent
    <3> QED BY <3>2 DEF QueueChannel!Next, ChannelStep
  <2> QED BY <2>1, <2>4, <2>5
<1>5. CASE s # <<>> /\ s2 = Tail(s) /\ msg_queue_got'[q] = text[Head(s)]
  <2>1. Range(s2) \subseteq Range(s)
    <3>1. /\ Len(s2) = Len(s) - 1 /\ Len(s) \in Nat
          /\ \A i \in 1..Len(s2) : s2[i] = s[i + 1] /\ i + 1 \in 1..Len(s)
      BY <1>1, <1>5
    <3> QED BY <1>1, <3>1, InRange
  <2>2. Read(s2, text2) = Read(s2, text)
    BY <1>1, <2>1, ReadSame DEF Passes
  <2>3. /\ Texted(q) # <<>> /\ Texted(q)' = Tail(Texted(q))
        /\ msg_queue_got'[q] = Head(Texted(q))
    BY <1>1, <1>5, <2>2, ReadTail
  <2>4. QueueChannel(q)!Collect
    BY <2>3 DEF QueueChannel!Collect
  <2> QED BY <2>4 DEF QueueChannel!Next, ChannelStep
<1> QED BY <1>2, <1>3, <1>4, <1>5 DEF Passes

LEMMA QueuesAreChannels ==
    ASSUME SettledInv, StoresOK, TextsRead, TextsRead', [AllNext]_vars
    PROVE  \A q \in Queues : ChannelStep(q)
<1> SUFFICES ASSUME NEW q \in Queues PROVE ChannelStep(q)
  OBVIOUS
<1>1. StoreOK(q) /\ Turns(q)
  BY StoresStep DEF StoresOK, StoreStep
<1>2. PICK s, f : Placed(q, s, f)
  BY <1>1 DEF StoreOK
<1>3. PICK s2, f2 : Placed(q, s2, f2)' /\ Passes(q, s, s2)
  BY <1>1, <1>2 DEF Turns
<1>4. Texted(q) = Read(s, msg_text[q]) /\ Texted(q)' = Read(s2, msg_text'[q])
  BY <1>2, <1>3 DEF TextsRead
<1>5. Distinct(s) /\ Distinct(s2)
  BY <1>2, <1>3 DEF Placed, Strings
<1> QED BY <1>3, <1>4, <1>5, QueuePasses

\* The channels are empty at first.
LEMMA QueuesBegin ==
    ASSUME AllInit, KInv
    PROVE  \A q \in Queues : QueueChannel(q)!Init
<1> SUFFICES ASSUME NEW q \in Queues PROVE QueueChannel(q)!Init
  OBVIOUS
<1>1. QueueInit
  BY DEF AllInit
<1>2. PICK s, f : Placed(q, s, f)
  BY StoresAtStart DEF StoresOK, StoreOK
<1>3. Len(s) = 0 /\ s \in Seq(Messages)
  BY <1>1, <1>2 DEF QueueInit, Placed, Strings, Distinct
<1>4. Texted(q) = <<>>
  <2>1. Texted(q) = Read(s, msg_text[q]) /\ s = <<>>
    BY <1>2, <1>3, StoresAtStart, TextsAreRead DEF TextsRead
  <2> QED BY <1>3, <2>1, ReadIs
<1>5. msg_queue_got[q] = NoText
  BY <1>1 DEF QueueInit
<1> QED BY <1>4, <1>5 DEF QueueChannel!Init

-----------------------------------------------------------------------------
(* A mailbox is a channel.                                                 *)

\* The remainder of less than twice the divisor.
LEMMA Remainder ==
    ASSUME NEW n \in Nat, NEW m \in Nat, m > 0, n < m + m
    PROVE  n % m = IF n < m THEN n ELSE n - m
<1>1. CASE n < m
  BY <1>1, SmallRemainder
<1>2. CASE n >= m
  <2>1. PICK k \in Nat : k = n - m
    BY <1>2
  <2>2. k < m /\ n = k + m
    BY <1>2, <2>1
  <2>3. (k + m) % m = k
    BY ONLY <2>2, k \in Nat, m \in Nat, m > 0
  <2> QED BY <1>2, <2>1, <2>2, <2>3
<1> QED BY <1>1, <1>2

\* A ring of n mails from a to b.
Ring(n, a, b) ==
    /\ n \in 0..Size /\ a \in 0..Size-1 /\ b \in 0..Size-1
    /\ b = (a + n) % Size

\* The mails of the ring.
Mailed(n, a, pool) == [i \in 1..n |-> pool[(a + i - 1) % Size]]

Slots(pool) == {pool[i] : i \in 0..Size-1}

LEMMA SizeIs ==
    /\ Size \in Nat /\ Size > 0
    /\ \A n \in Nat : n < Size + Size => n % Size = IF n < Size THEN n ELSE n - Size
<1>1. Size \in Nat /\ Size > 0
  BY MailboxAssumption
<1> QED BY <1>1, Remainder

LEMMA MailedIs ==
    ASSUME NEW n \in 0..Size, NEW a \in 0..Size-1, NEW pool
    PROVE  /\ Mailed(n, a, pool) \in Seq(Slots(pool)) /\ Len(Mailed(n, a, pool)) = n
           /\ \A i \in 1..n : /\ (a + i - 1) % Size \in 0..Size-1
                              /\ Mailed(n, a, pool)[i] = pool[(a + i - 1) % Size]
           /\ Mailed(n, a, pool) = <<>> <=> n = 0
<1> DEFINE r == Mailed(n, a, pool)
           V == Slots(pool)
<1>1. n \in Nat
  BY SizeIs
<1>2. ASSUME NEW i \in 1..n PROVE (a + i - 1) % Size \in 0..Size-1
  <2>1. a + i - 1 \in Nat /\ a + i - 1 < Size + Size
    BY SizeIs
  <2>2. (a + i - 1) % Size = IF a + i - 1 < Size THEN a + i - 1 ELSE a + i - 1 - Size
    BY <2>1, SizeIs
  <2> QED BY <2>1, <2>2, SizeIs
<1>3. \A i \in 1..n : pool[(a + i - 1) % Size] \in V
  BY <1>2 DEF Slots
<1>4. r = [i \in 1..n |-> pool[(a + i - 1) % Size]]
  BY DEF Mailed
<1> HIDE DEF r, V
<1>5. r \in Seq(V) /\ Len(r) = n /\ \A i \in 1..n : r[i] = pool[(a + i - 1) % Size]
  BY <1>1, <1>3, <1>4
<1>6. r = <<>> <=> n = 0
  BY <1>5
<1> QED BY <1>2, <1>5, <1>6 DEF r, V

\* The ring gets a mail, in a place that has none, ...
LEMMA RingPosts ==
    ASSUME NEW n, NEW a, NEW b, Ring(n, a, b), n # Size
    PROVE  /\ Ring(n + 1, a, AfterOffset(b))
           /\ \A i \in 1..n : (a + i - 1) % Size # b
           /\ n \in 0..Size /\ n + 1 \in 0..Size /\ n < Size
           /\ (a + (n + 1) - 1) % Size = b
<1>1. /\ n \in Nat /\ n < Size /\ a \in Nat /\ a < Size /\ b \in Nat /\ b < Size
      /\ Size \in Nat /\ b = (a + n) % Size
  BY SizeIs DEF Ring
<1>2. b = IF a + n < Size THEN a + n ELSE a + n - Size
  <2>1. a + n \in Nat /\ a + n < Size + Size
    BY <1>1
  <2> QED BY <1>1, <2>1, SizeIs
<1>3. (a + (n + 1) - 1) % Size = b
  <2>1. a + (n + 1) - 1 = a + n
    BY <1>1
  <2> QED BY <1>1, <2>1
<1>4. ASSUME NEW i \in 1..n PROVE (a + i - 1) % Size # b
  <2>1. PICK k \in Nat : k = a + i - 1 /\ k < a + n /\ k >= a
    BY <1>1
  <2>2. k % Size = IF k < Size THEN k ELSE k - Size
    BY <1>1, <2>1, SizeIs
  <2> QED BY <1>1, <1>2, <2>1, <2>2
<1>5. AfterOffset(b) = (a + (n + 1)) % Size /\ AfterOffset(b) \in 0..Size-1
  <2>1. PICK k \in Nat : k = a + (n + 1) /\ k = a + n + 1
    BY <1>1
  <2>2. k < Size + Size
    BY <1>1, <2>1
  <2>3. k % Size = IF k < Size THEN k ELSE k - Size
    BY <2>2, SizeIs
  <2>4. AfterOffset(b) = IF b + 1 >= Size THEN 0 ELSE b + 1
    BY DEF AfterOffset
  <2> QED BY <1>1, <1>2, <2>1, <2>3, <2>4
<1>6. n \in 0..Size /\ n + 1 \in 0..Size /\ a \in 0..Size-1
  BY <1>1
<1> QED BY <1>1, <1>3, <1>4, <1>5, <1>6 DEF Ring

\* ... and gives its first.
LEMMA RingTakes ==
    ASSUME NEW n, NEW a, NEW b, Ring(n, a, b), n # 0
    PROVE  /\ Ring(n - 1, AfterOffset(a), b)
           /\ \A i \in 1..n - 1 :
                 (AfterOffset(a) + i - 1) % Size = (a + (i + 1) - 1) % Size
           /\ n \in 0..Size /\ n - 1 \in 0..Size /\ n > 0
           /\ (a + 1 - 1) % Size = a
<1>1. /\ n \in Nat /\ n <= Size /\ a \in Nat /\ a < Size /\ b \in Nat /\ b < Size
      /\ Size \in Nat /\ b = (a + n) % Size /\ n > 0
  BY SizeIs DEF Ring
<1>2. PICK a2 \in 0..Size-1 : /\ a2 = AfterOffset(a)
                              /\ a2 = IF a + 1 < Size THEN a + 1 ELSE 0
  <2>1. AfterOffset(a) = IF a + 1 >= Size THEN 0 ELSE a + 1
    BY DEF AfterOffset
  <2> QED BY <1>1, <2>1
<1>3. ASSUME NEW i \in 1..n PROVE (a2 + i - 1) % Size = (a + i) % Size
  <2>1. PICK k \in Nat : k = a2 + i - 1
    BY <1>1, <1>2
  <2>2. PICK l \in Nat : l = a + i
    BY <1>1
  <2>3. k < Size + Size /\ l < Size + Size
    BY <1>1, <1>2, <2>1, <2>2
  <2>4. /\ k % Size = IF k < Size THEN k ELSE k - Size
        /\ l % Size = IF l < Size THEN l ELSE l - Size
    BY <2>3, SizeIs
  <2>5. k % Size = l % Size
    BY <1>1, <1>2, <2>1, <2>2, <2>4
  <2> QED BY <2>1, <2>2, <2>5
<1>4. ASSUME NEW i \in 1..n - 1
      PROVE  (AfterOffset(a) + i - 1) % Size = (a + (i + 1) - 1) % Size
  <2>1. a + (i + 1) - 1 = a + i /\ i \in 1..n
    BY <1>1
  <2> QED BY <1>2, <1>3, <2>1
<1>5. b = (a2 + (n - 1)) % Size
  <2>1. a2 + (n - 1) = a2 + n - 1 /\ n \in 1..n
    BY <1>1, <1>2
  <2> QED BY <1>1, <1>3, <2>1
<1>6. (a + 1 - 1) % Size = a
  <2>1. a + 1 - 1 = a
    BY <1>1
  <2> QED BY <1>1, <2>1, SizeIs
<1>7. n \in 0..Size /\ n - 1 \in 0..Size /\ b \in 0..Size-1
  BY <1>1
<1> QED BY <1>1, <1>2, <1>4, <1>5, <1>6, <1>7 DEF Ring

\* The mails are then one more at the end, ...
LEMMA MailedBehind ==
    ASSUME NEW n, NEW a, NEW b, Ring(n, a, b), n # Size, NEW pool, NEW pool2, NEW x,
           pool2[b] = x, \A i \in 0..Size-1 : i # b => pool2[i] = pool[i]
    PROVE  /\ Mailed(n + 1, a, pool2) = Append(Mailed(n, a, pool), x)
           /\ Len(Mailed(n, a, pool)) < Size
<1> DEFINE V == Slots(pool) \cup Slots(pool2)
           r == Mailed(n, a, pool)
           r2 == Mailed(n + 1, a, pool2)
           s == Append(r, x)
<1>1. /\ n \in 0..Size /\ n + 1 \in 0..Size /\ n < Size /\ a \in 0..Size-1 /\ b \in 0..Size-1
      /\ \A i \in 1..n : (a + i - 1) % Size # b
      /\ (a + (n + 1) - 1) % Size = b
      /\ n \in Nat
  BY RingPosts, SizeIs DEF Ring
<1>2. /\ r \in Seq(Slots(pool)) /\ Len(r) = n
      /\ \A i \in 1..n : /\ (a + i - 1) % Size \in 0..Size-1
                         /\ r[i] = pool[(a + i - 1) % Size]
  BY <1>1, MailedIs
<1>3. /\ r2 \in Seq(Slots(pool2)) /\ Len(r2) = n + 1
      /\ \A i \in 1..n + 1 : r2[i] = pool2[(a + i - 1) % Size]
  <2>1. PICK n2 \in 0..Size : n2 = n + 1
    BY <1>1
  <2>2. a \in 0..Size-1
    BY <1>1
  <2>3. /\ Mailed(n2, a, pool2) \in Seq(Slots(pool2)) /\ Len(Mailed(n2, a, pool2)) = n2
        /\ \A i \in 1..n2 : Mailed(n2, a, pool2)[i] = pool2[(a + i - 1) % Size]
    BY <2>2, MailedIs
  <2> QED BY <2>1, <2>3
<1>4. x \in V
  BY <1>1 DEF Slots
<1>5. r \in Seq(V) /\ r2 \in Seq(V)
  <2> HIDE DEF r, r2
  <2> QED BY <1>2, <1>3
<1> HIDE DEF r, r2, V
<1>6. /\ s \in Seq(V) /\ Len(s) = n + 1
      /\ \A i \in 1..n + 1 : s[i] = IF i = n + 1 THEN x ELSE r[i]
  BY <1>1, <1>2, <1>4, <1>5
<1> HIDE DEF s
<1>7. ASSUME NEW i \in 1..n + 1 PROVE r2[i] = s[i]
  <2>1. CASE i = n + 1
    BY <1>1, <1>3, <1>6, <2>1
  <2>2. CASE i # n + 1
    <3>1. i \in 1..n
      BY <1>1, <2>2
    <3>2. pool2[(a + i - 1) % Size] = pool[(a + i - 1) % Size]
      BY <1>1, <1>2, <3>1
    <3>3. s[i] = r[i]
      BY <1>6, <2>2
    <3> QED BY <1>2, <1>3, <3>1, <3>2, <3>3
  <2> QED BY <2>1, <2>2
<1>8. r2 = s
  BY <1>3, <1>5, <1>6, <1>7, SameSequence
<1> QED BY <1>1, <1>2, <1>8 DEF r, r2, s

\* ... or the first is gone.
LEMMA MailedTail ==
    ASSUME NEW n, NEW a, NEW b, Ring(n, a, b), n # 0, NEW pool
    PROVE  /\ Mailed(n - 1, AfterOffset(a), pool) = Tail(Mailed(n, a, pool))
           /\ Head(Mailed(n, a, pool)) = pool[a] /\ Mailed(n, a, pool) # <<>>
<1> DEFINE V == Slots(pool)
           r == Mailed(n, a, pool)
           r2 == Mailed(n - 1, AfterOffset(a), pool)
           s == Tail(r)
<1>1. /\ n \in 0..Size /\ n - 1 \in 0..Size /\ n > 0 /\ a \in 0..Size-1 /\ n \in Nat
      /\ \A i \in 1..n - 1 : (AfterOffset(a) + i - 1) % Size = (a + (i + 1) - 1) % Size
      /\ (a + 1 - 1) % Size = a
      /\ AfterOffset(a) \in 0..Size-1
  <2>1. n \in 0..Size /\ a \in 0..Size-1 /\ n \in Nat
    BY SizeIs DEF Ring
  <2>2. /\ Ring(n - 1, AfterOffset(a), b) /\ n - 1 \in 0..Size /\ n > 0
        /\ (a + 1 - 1) % Size = a
    BY RingTakes
  <2>3. \A i \in 1..n - 1 : (AfterOffset(a) + i - 1) % Size = (a + (i + 1) - 1) % Size
    BY RingTakes
  <2>4. AfterOffset(a) \in 0..Size-1
    BY <2>2 DEF Ring
  <2> QED BY <2>1, <2>2, <2>3, <2>4
<1>2. /\ r \in Seq(V) /\ Len(r) = n /\ r # <<>>
      /\ \A i \in 1..n : r[i] = pool[(a + i - 1) % Size]
  BY <1>1, MailedIs
<1>3. /\ r2 \in Seq(V) /\ Len(r2) = n - 1
      /\ \A i \in 1..n - 1 : r2[i] = pool[(AfterOffset(a) + i - 1) % Size]
  <2>1. PICK n2 \in 0..Size, a2 \in 0..Size-1 : n2 = n - 1 /\ a2 = AfterOffset(a)
    BY <1>1
  <2>2. /\ Mailed(n2, a2, pool) \in Seq(Slots(pool)) /\ Len(Mailed(n2, a2, pool)) = n2
        /\ \A i \in 1..n2 : Mailed(n2, a2, pool)[i] = pool[(a2 + i - 1) % Size]
    BY MailedIs
  <2> QED BY <2>1, <2>2
<1> HIDE DEF r, r2, V
<1>4. /\ s \in Seq(V) /\ Len(s) = n - 1 /\ Head(r) = r[1]
      /\ \A i \in 1..n - 1 : s[i] = r[i + 1]
  BY <1>1, <1>2
<1> HIDE DEF s
<1>5. ASSUME NEW i \in 1..n - 1 PROVE r2[i] = s[i]
  <2>1. i + 1 \in 1..n
    BY <1>1
  <2>2. s[i] = pool[(a + (i + 1) - 1) % Size]
    BY <1>2, <1>4, <2>1
  <2> QED BY <1>1, <1>3, <2>2
<1>6. r2 = s
  BY <1>3, <1>4, <1>5, SameSequence
<1>7. Head(r) = pool[a]
  <2>1. 1 \in 1..n
    BY <1>1
  <2>2. r[1] = pool[(a + 1 - 1) % Size]
    BY <1>2, <2>1
  <2> QED BY <1>1, <1>4, <2>2
<1> QED BY <1>2, <1>6, <1>7 DEF r, r2, s

\* The mailboxes that the variables are of.
RingsTyped ==
    /\ DOMAIN entry = Mailboxes /\ DOMAIN in_offset = Mailboxes
    /\ DOMAIN out_offset = Mailboxes /\ DOMAIN msg_pool = Mailboxes
    /\ DOMAIN got = Mailboxes
    /\ \A mb \in Mailboxes : DOMAIN msg_pool[mb] = 0..Size-1

\* The invariant.
RingsOK ==
    /\ RingsTyped
    /\ \A mb \in Mailboxes : Ring(entry[mb], out_offset[mb], in_offset[mb])

\* A step of the channel, or none.
BoxStep(mb) == [Channel(mb)!Next]_<<Contents(mb), got[mb]>>

\* Nothing changes in mb.
SameRing(mb) ==
    /\ entry'[mb] = entry[mb] /\ in_offset'[mb] = in_offset[mb]
    /\ out_offset'[mb] = out_offset[mb] /\ msg_pool'[mb] = msg_pool[mb]
    /\ got'[mb] = got[mb]

\* What every step does.
RingStep == RingsOK' /\ \A mb \in Mailboxes : BoxStep(mb)

LEMMA ContentsAre ==
    ASSUME NEW mb
    PROVE  /\ Contents(mb) = Mailed(entry[mb], out_offset[mb], msg_pool[mb])
           /\ Contents(mb)' = Mailed(entry'[mb], out_offset'[mb], msg_pool'[mb])
BY DEF Contents, Mailed

LEMMA RingStill ==
    ASSUME NEW mb, SameRing(mb)
    PROVE  BoxStep(mb)
BY ContentsAre DEF SameRing, BoxStep

LEMMA RingsAside ==
    ASSUME RingsOK, RingsTyped', NEW mb \in Mailboxes,
           Ring(entry'[mb], out_offset'[mb], in_offset'[mb]), BoxStep(mb),
           \A p \in Mailboxes \ {mb} : SameRing(p)
    PROVE  RingStep
<1>1. \A p \in Mailboxes : Ring(entry[p], out_offset[p], in_offset[p])
  BY DEF RingsOK
<1>2. \A p \in Mailboxes \ {mb} : Ring(entry'[p], out_offset'[p], in_offset'[p])
  BY <1>1 DEF SameRing
<1> QED BY <1>2, RingStill DEF RingsOK, RingStep

LEMMA RingsStill ==
    ASSUME RingsOK, UNCHANGED bvars
    PROVE  RingStep
<1>1. RingsOK'
  BY DEF RingsOK, RingsTyped, bvars
<1>2. \A mb \in Mailboxes : BoxStep(mb)
  BY RingStill DEF SameRing, bvars
<1> QED BY <1>1, <1>2 DEF RingStep

\* A mail is sent, by a thread or a handler, ...
LEMMA PostedStep ==
    ASSUME RingsOK, NEW mb \in Mailboxes, NEW mail \in Mails, ~Full(mb), Posted(mb, mail)
    PROVE  RingStep
<1>1. PICK n, a, b, pool, pool2 :
          /\ n = entry[mb] /\ a = out_offset[mb] /\ b = in_offset[mb]
          /\ pool = msg_pool[mb] /\ pool2 = msg_pool'[mb]
  OBVIOUS
<1>2. RingsTyped /\ Ring(n, a, b) /\ n # Size
  BY <1>1 DEF RingsOK, Full
<1>3. /\ msg_pool' = [msg_pool EXCEPT ![mb][b] = mail]
      /\ in_offset' = [in_offset EXCEPT ![mb] = AfterOffset(@)]
      /\ entry' = [entry EXCEPT ![mb] = @ + 1]
      /\ UNCHANGED <<out_offset, got>>
  BY <1>1 DEF Posted
<1>4. RingsTyped'
  BY <1>2, <1>3 DEF RingsTyped
<1>5. \A p \in Mailboxes \ {mb} : SameRing(p)
  BY <1>2, <1>3 DEF RingsTyped, SameRing
<1>6. /\ entry'[mb] = n + 1 /\ in_offset'[mb] = AfterOffset(b) /\ out_offset'[mb] = a
      /\ got'[mb] = got[mb]
  BY <1>1, <1>2, <1>3 DEF RingsTyped
<1>7. b \in 0..Size-1
  BY <1>2 DEF Ring
<1>8. pool2[b] = mail /\ \A i \in 0..Size-1 : i # b => pool2[i] = pool[i]
  BY <1>1, <1>2, <1>3, <1>7 DEF RingsTyped
<1>9. Ring(n + 1, a, AfterOffset(b))
  BY <1>2, RingPosts
<1>10. Contents(mb) = Mailed(n, a, pool) /\ Contents(mb)' = Mailed(n + 1, a, pool2)
  BY <1>1, <1>6, ContentsAre
<1>11. /\ Mailed(n + 1, a, pool2) = Append(Mailed(n, a, pool), mail)
       /\ Len(Mailed(n, a, pool)) < Size
  BY <1>2, <1>8, MailedBehind
<1>12. Channel(mb)!Post(mail)
  BY <1>6, <1>10, <1>11 DEF Channel!Post
<1>13. BoxStep(mb)
  BY <1>12 DEF BoxStep, Channel!Next
<1> QED BY <1>4, <1>5, <1>6, <1>9, <1>13, RingsAside

\* ... one is received, ...
LEMMA MailRecvRing ==
    ASSUME RingsOK, NEW mb \in Mailboxes, entry[mb] # 0,
           got' = [got EXCEPT ![mb] = msg_pool[mb][out_offset[mb]]],
           out_offset' = [out_offset EXCEPT ![mb] = AfterOffset(@)],
           entry' = [entry EXCEPT ![mb] = @ - 1],
           UNCHANGED <<in_offset, msg_pool>>
    PROVE  RingStep
<1>1. PICK n, a, b, pool :
          /\ n = entry[mb] /\ a = out_offset[mb] /\ b = in_offset[mb]
          /\ pool = msg_pool[mb]
  OBVIOUS
<1>2. RingsTyped /\ Ring(n, a, b) /\ n # 0
  BY <1>1 DEF RingsOK
<1>3. RingsTyped'
  BY <1>2 DEF RingsTyped
<1>4. \A p \in Mailboxes \ {mb} : SameRing(p)
  BY <1>2 DEF RingsTyped, SameRing
<1>5. /\ entry'[mb] = n - 1 /\ in_offset'[mb] = b /\ out_offset'[mb] = AfterOffset(a)
      /\ got'[mb] = pool[a] /\ msg_pool'[mb] = pool
  BY <1>1, <1>2 DEF RingsTyped
<1>6. Ring(n - 1, AfterOffset(a), b)
  BY <1>2, RingTakes
<1>7. /\ Contents(mb) = Mailed(n, a, pool)
      /\ Contents(mb)' = Mailed(n - 1, AfterOffset(a), pool)
  BY <1>1, <1>5, ContentsAre
<1>8. /\ Mailed(n - 1, AfterOffset(a), pool) = Tail(Mailed(n, a, pool))
      /\ Head(Mailed(n, a, pool)) = pool[a] /\ Mailed(n, a, pool) # <<>>
  BY <1>2, MailedTail
<1>9. Channel(mb)!Collect
  BY <1>5, <1>7, <1>8 DEF Channel!Collect
<1>10. BoxStep(mb)
  BY <1>9 DEF BoxStep, Channel!Next
<1> QED BY <1>3, <1>4, <1>5, <1>6, <1>10, RingsAside

LEMMA EmptyRing ==
    /\ Ring(0, 0, 0)
    /\ \A pool : Mailed(0, 0, pool) = <<>>
<1>1. 0 \in 0..Size /\ 0 \in 0..Size-1 /\ (0 + 0) % Size = 0
  BY SizeIs
<1> QED BY <1>1, MailedIs DEF Ring

\* ... or the box is reset or set up.
LEMMA MailSetUpRing ==
    ASSUME RingsOK, NEW mb \in Mailboxes, MailSetUp(mb)
    PROVE  RingStep
<1>1. RingsTyped
  BY DEF RingsOK
<1>2. RingsTyped'
  BY <1>1 DEF RingsTyped, MailSetUp
<1>3. \A p \in Mailboxes \ {mb} : SameRing(p)
  BY <1>1 DEF RingsTyped, SameRing, MailSetUp
<1>4. /\ entry'[mb] = 0 /\ in_offset'[mb] = 0 /\ out_offset'[mb] = 0
      /\ got'[mb] = got[mb]
  BY <1>1 DEF RingsTyped, MailSetUp
<1>5. Contents(mb)' = <<>>
  BY <1>4, ContentsAre, EmptyRing
<1>6. Channel(mb)!Clear
  BY <1>4, <1>5 DEF Channel!Clear
<1>7. BoxStep(mb)
  BY <1>6 DEF BoxStep, Channel!Next
<1> QED BY <1>2, <1>3, <1>4, <1>7, EmptyRing, RingsAside

LEMMA MailSendRing ==
    ASSUME KInv, RingsOK, NEW c \in Threads, MailSend(c)
    PROVE  RingStep
<1>1. Locals(c) \in Loops /\ Locals(c)[1] = "mailsend" /\ pc[c] = <<Locals(c)>>
  BY AtLoop DEF MailSend
<1>2. PICK mb \in Mailboxes : mb = Target(c)
  BY <1>1, LoopObject DEF Target, Locals
<1>3. Locals(c)[4] \in Mails
  BY <1>1, LoopObject
<1>4. \/ UNCHANGED bvars
      \/ ~Full(mb) /\ Posted(mb, Locals(c)[4])
  BY <1>2 DEF MailSend
<1> QED BY <1>3, <1>4, RingsStill, PostedStep

LEMMA MailRecvRings ==
    ASSUME KInv, RingsOK, NEW c \in Threads, MailRecv(c)
    PROVE  RingStep
<1>1. Locals(c) \in Loops /\ Locals(c)[1] = "mailrecv" /\ pc[c] = <<Locals(c)>>
  BY AtLoop DEF MailRecv
<1>2. PICK mb \in Mailboxes : mb = Target(c)
  BY <1>1, LoopObject DEF Target, Locals
<1>3. \/ UNCHANGED bvars
      \/ /\ entry[mb] # 0
         /\ got' = [got EXCEPT ![mb] = msg_pool[mb][out_offset[mb]]]
         /\ out_offset' = [out_offset EXCEPT ![mb] = AfterOffset(@)]
         /\ entry' = [entry EXCEPT ![mb] = @ - 1]
         /\ UNCHANGED <<in_offset, msg_pool>>
  BY <1>2 DEF MailRecv
<1> QED BY <1>3, RingsStill, MailRecvRing

LEMMA BoxesStep ==
    ASSUME KInv, RingsOK, MailNext
    PROVE  RingStep
<1>1. ASSUME NEW c \in Threads, NEW mb \in Mailboxes,
             MailReset(c, mb) \/ MailInitialise(c, mb) \/ MailCreate(c, mb)
      PROVE  RingStep
  <2>1. MailSetUp(mb)
    BY <1>1 DEF MailReset, MailInitialise, MailCreate, MailSetUp
  <2> QED BY <2>1, MailSetUpRing
<1>2. ASSUME NEW c \in Threads, NEW mb \in Mailboxes,
             \/ MailDetach(c, mb) \/ MailDelete(c, mb)
             \/ \E wait : MailCall(c, mb, wait)
      PROVE  RingStep
  <2>1. UNCHANGED bvars
    BY <1>2 DEF MailDetach, MailDelete, MailCall
  <2> QED BY <2>1, RingsStill
<1>3. ASSUME NEW mb \in Mailboxes, NEW mail \in Mails, IsrMailSend(mb, mail)
      PROVE  RingStep
  BY <1>3, PostedStep DEF IsrMailSend
<1> QED BY <1>1, <1>2, <1>3, MailSendRing, MailRecvRings DEF MailNext, MailStep

LEMMA BoxesAreChannels ==
    ASSUME SettledInv, RingsOK, [AllNext]_vars
    PROVE  RingStep
<1>1. MailNext \/ UNCHANGED bvars
  BY DEF AllNext, vars
<1> QED BY <1>1, BoxesStep, RingsStill DEF SettledInv

\* The channels are empty at first.
LEMMA BoxesBegin ==
    ASSUME AllInit
    PROVE  RingsOK /\ \A mb \in Mailboxes : Channel(mb)!Init
<1>1. MailInit
  BY DEF AllInit
<1>2. RingsTyped
  BY <1>1 DEF MailInit, RingsTyped
<1>3. ASSUME NEW mb \in Mailboxes
      PROVE  Ring(entry[mb], out_offset[mb], in_offset[mb]) /\ Channel(mb)!Init
  <2>1. /\ entry[mb] = 0 /\ out_offset[mb] = 0 /\ in_offset[mb] = 0 /\ got[mb] = NoMail
    BY <1>1 DEF MailInit
  <2>2. Contents(mb) = <<>>
    BY <2>1, ContentsAre, EmptyRing
  <2> QED BY <2>1, <2>2, EmptyRing DEF Channel!Init
<1> QED BY <1>2, <1>3 DEF RingsOK

\* The step of the refinement, of all mailboxes and all queues.
LEMMA ChannelsStep ==
    ASSUME SettledInv, StoresOK, TextsRead, TextsRead', RingsOK, [AllNext]_vars
    PROVE  /\ RingsOK'
           /\ [\A mb \in Mailboxes : BoxStep(mb)]_bvars
           /\ [\A q \in Queues : ChannelStep(q)]_qvars
BY BoxesAreChannels, QueuesAreChannels DEF RingStep

\* Mailboxes and message queues implement the channel of MailChannel: what is sent comes
\* out once, in the order it was sent in, urgent messages first, through all waits,
\* timeouts, handlers and resets.
THEOREM ChannelsAreFifoHolds == AllSpec /\ Settled => ChannelsAreFifo
<1>1. AllInit /\ Settled => SettledInv /\ StoresOK /\ RingsOK
  BY StartIsSettled, StoresAtStart, BoxesBegin DEF SettledInv
<1>2. SettledInv /\ StoresOK /\ [AllNext]_vars => SettledInv' /\ StoresOK'
  BY StepIsSettled, StoresStep
<1>3. StoresOK => TextsRead
  BY TextsAreRead
<1>4. SettledInv /\ StoresOK /\ TextsRead /\ TextsRead' /\ RingsOK /\ [AllNext]_vars
         => /\ RingsOK'
            /\ [\A mb \in Mailboxes : BoxStep(mb)]_bvars
            /\ [\A q \in Queues : ChannelStep(q)]_qvars
  BY ChannelsStep
<1>5. AllInit /\ Settled => /\ \A mb \in Mailboxes : Channel(mb)!Init
                            /\ \A q \in Queues : QueueChannel(q)!Init
  BY StartIsSettled, BoxesBegin, QueuesBegin DEF SettledInv
<1>6. AllSpec /\ Settled => /\ [][\A mb \in Mailboxes : BoxStep(mb)]_bvars
                            /\ [][\A q \in Queues : ChannelStep(q)]_qvars
  BY <1>1, <1>2, <1>3, <1>4, PTL DEF AllSpec
<1> QED BY <1>5, <1>6, PTL DEF AllSpec, ChannelsAreFifo, MailIsChannel, QueueIsChannel,
           BoxStep, ChannelStep
=============================================================================
