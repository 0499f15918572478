---------------------------- MODULE MessageQueue ----------------------------
(***************************************************************************)
(* The message queues of src/src/ipc.c: a pool of messages that are linked *)
(* in a free list or in the queue, and belong to a sender or a receiver    *)
(* while it copies the text with interrupts open.                          *)
(*                                                                         *)
(* msg_queue_got is a history variable, the text that was received last.   *)
(***************************************************************************)
EXTENDS IpcLists

CONSTANTS
    Queues,
    MaxMsgs,     \* mq->max_msgs
    Texts, NoText

ASSUME QueueAssumption == Queues \subseteq Objects /\ MaxMsgs \in Nat \ {0}

Messages == 1..MaxMsgs
Null == 0

VARIABLES
    msg_next,        \* message->next, of each queue
    msg_text,        \* what is behind it
    msg_queue_head, msg_queue_tail, msg_queue_free,
    msg_entry,       \* mq->entry
    msg_queue_got

links == <<msg_next, msg_queue_head, msg_queue_tail, msg_queue_free>>
qvars == <<links, msg_text, msg_entry, msg_queue_got>>

QueueInit ==
    /\ msg_next = [q \in Queues |-> [m \in Messages |-> m - 1]]
    /\ msg_text = [q \in Queues |-> [m \in Messages |-> NoText]]
    /\ msg_queue_head = [q \in Queues |-> Null]
    /\ msg_queue_tail = [q \in Queues |-> Null]
    /\ msg_queue_free = [q \in Queues |-> MaxMsgs]
    /\ msg_entry = [q \in Queues |-> 0]
    /\ msg_queue_got = [q \in Queues |-> NoText]

-----------------------------------------------------------------------------
\* rt_mq_send and rt_mq_urgent: a message is taken off the free list, ...
MsgTake(c, q, how, text) ==
    /\ Call(c, "msgsend") /\ q \in live
    /\ msg_queue_free[q] # Null
    /\ msg_queue_free' = [msg_queue_free EXCEPT ![q] = msg_next[q][@]]
    /\ Goto(c, << <<"fill", q, msg_queue_free[q], how, text>> >>)
    /\ UNCHANGED <<tcb, lists, rt_current_thread, rt_scheduler_lock_nest, isr,
                   ipcvars, msg_next, msg_queue_head, msg_queue_tail, msg_text,
                   msg_entry, msg_queue_got>>

\* rt_mq_send cuts the message off the free list, rt_mq_urgent leaves that to
\* the linking.
CutOff(q, m, how) ==
    IF how = "send" THEN [msg_next EXCEPT ![q][m] = Null] ELSE msg_next

\* ... gets its text, with interrupts open, ...
Filled(q, m, text) == msg_text' = [msg_text EXCEPT ![q][m] = text]

MsgFill(c) ==
    /\ At(c, "fill")
    /\ msg_next' = CutOff(Target(c), Locals(c)[3], Locals(c)[4])
    /\ Filled(Target(c), Locals(c)[3], Locals(c)[5])
    /\ Proceed(c, << [Locals(c) EXCEPT ![1] = "link"] >>)
    /\ UNCHANGED <<tcb, lists, rt_current_thread, rt_scheduler_lock_nest, isr,
                   ipcvars, msg_queue_head, msg_queue_tail, msg_queue_free,
                   msg_entry, msg_queue_got>>

\* ... and is linked behind the tail or before the head.
LinkedBehind(q, m, next) ==
    /\ msg_next' = IF msg_queue_tail[q] = Null THEN next
                   ELSE [next EXCEPT ![q][msg_queue_tail[q]] = m]
    /\ msg_queue_tail' = [msg_queue_tail EXCEPT ![q] = m]
    /\ msg_queue_head' = [msg_queue_head EXCEPT ![q] = IF @ = Null THEN m ELSE @]

LinkedBefore(q, m, next) ==
    /\ msg_next' = [next EXCEPT ![q][m] = msg_queue_head[q]]
    /\ msg_queue_head' = [msg_queue_head EXCEPT ![q] = m]
    /\ msg_queue_tail' = [msg_queue_tail EXCEPT ![q] = IF @ = Null THEN m ELSE @]

Linked(q, m, how, next) ==
    /\ IF how = "send" THEN LinkedBehind(q, m, next) ELSE LinkedBefore(q, m, next)
    /\ msg_entry' = [msg_entry EXCEPT ![q] = @ + 1]
    /\ FirstResumed(q)

MsgLink(c) ==
    /\ At(c, "link")
    /\ Linked(Target(c), Locals(c)[3], Locals(c)[4], msg_next)
    /\ Proceed(c, AfterResume(c, Target(c)))
    /\ UNCHANGED <<current_priority, remaining_tick, error, rt_thread_defunct,
                   rt_current_thread, rt_scheduler_lock_nest, isr, ipcvars,
                   msg_text, msg_queue_free, msg_queue_got>>

\* The same in a handler, with interrupts masked all the time.
IsrMsgSend(q, how, text) ==
    /\ Handler
    /\ q \in live /\ msg_queue_free[q] # Null
    /\ LET m == msg_queue_free[q]
       IN /\ msg_queue_free' = [msg_queue_free EXCEPT ![q] = msg_next[q][m]]
          /\ Filled(q, m, text)
          /\ Linked(q, m, how, CutOff(q, m, how))
    /\ IF suspend_thread[q] # <<>> THEN Schedule ELSE UNCHANGED rt_current_thread
    /\ UNCHANGED <<current_priority, remaining_tick, error, rt_thread_defunct,
                   rt_scheduler_lock_nest, isr, pc, ipcvars, msg_queue_got>>

-----------------------------------------------------------------------------
MsgRecvCall(c, q, wait) ==
    /\ Call(c, IF wait = "timed" THEN "timedmsg" ELSE "msgrecv") /\ q \in live
    /\ Goto(c, << <<"msgrecv", q, wait>> >>)
    /\ UNCHANGED <<tcb, lists, rt_current_thread, rt_scheduler_lock_nest, isr,
                   ipcvars, qvars>>

\* Mutant: the tail is kept when the last message goes.
UnlinkedHeadTail(q) ==
    /\ msg_queue_head' = [msg_queue_head EXCEPT ![q] = msg_next[q][@]]
    /\ UNCHANGED msg_queue_tail

UnlinkedHead(q) ==
    /\ msg_queue_head' = [msg_queue_head EXCEPT ![q] = msg_next[q][@]]
    /\ msg_queue_tail' = [msg_queue_tail EXCEPT
           ![q] = IF @ = msg_queue_head[q] THEN Null ELSE @]

\* rt_mq_recv: the first message is unlinked, ...
MsgRecv(c) ==
    /\ At(c, "msgrecv")
    /\ LET q == Target(c)
           m == msg_queue_head[q]
       IN IF msg_entry[q] = 0
          THEN LoopWaits(c, q, "ETIMEOUT") /\ UNCHANGED qvars
          ELSE /\ UnlinkedHead(q)
               /\ msg_entry' = [msg_entry EXCEPT ![q] = @ - 1]
               /\ msg_queue_got' = [msg_queue_got EXCEPT ![q] = msg_text[q][m]]
               /\ Proceed(c, << <<"copy", q, m, "recv", msg_text[q][m]>> >>)
               /\ UNCHANGED <<tcb, lists, rt_current_thread, rt_scheduler_lock_nest,
                              isr, ipcvars, msg_next, msg_text, msg_queue_free>>

\* ... its text is copied with interrupts open, and it is free again.
MsgFree(c) ==
    /\ At(c, "copy")
    /\ LET q == Target(c)
           m == Locals(c)[3]
       IN /\ msg_next' = [msg_next EXCEPT ![q][m] = msg_queue_free[q]]
          /\ msg_queue_free' = [msg_queue_free EXCEPT ![q] = m]
    /\ Return(c)
    /\ UNCHANGED <<tcb, lists, rt_current_thread, rt_scheduler_lock_nest, isr,
                   ipcvars, msg_queue_head, msg_queue_tail, msg_text, msg_entry,
                   msg_queue_got>>

-----------------------------------------------------------------------------
\* The messages from m on, by their links.
Chain(q, m) ==
    LET upTo[n \in 0..MaxMsgs + 1] ==
            IF n = 0 THEN <<>>
            ELSE LET before == upTo[n - 1]
                     after  == IF before = <<>> THEN m ELSE msg_next[q][Last(before)]
                 IN IF after = Null THEN before ELSE Append(before, after)
    IN upTo[MaxMsgs + 1]

\* rt_mq_control with RT_IPC_CMD_RESET: the messages go to the free list one by
\* one.
MsgReset(c, q) ==
    LET queued == Chain(q, msg_queue_head[q])
        before(i) == IF i = 1 THEN msg_queue_free[q] ELSE queued[i - 1]
    IN /\ ResetObject(c, q)
       /\ msg_next' = [msg_next EXCEPT ![q] = [m \in Messages |->
              IF m \in Range(queued) THEN before(CHOOSE i \in DOMAIN queued : queued[i] = m)
              ELSE @[m]]]
       /\ msg_queue_free' = [msg_queue_free EXCEPT
              ![q] = IF queued = <<>> THEN @ ELSE Last(queued)]
       /\ msg_queue_head' = [msg_queue_head EXCEPT ![q] = Null]
       /\ msg_queue_tail' = [msg_queue_tail EXCEPT ![q] =
              IF @ \in Range(queued) THEN Null ELSE @]
       /\ msg_entry' = [msg_entry EXCEPT ![q] = 0]
       /\ UNCHANGED <<msg_text, msg_queue_got>>

\* rt_mq_init and rt_mq_create: all messages are free.
QueueSetUp(q) ==
    /\ msg_next' = [msg_next EXCEPT ![q] = [m \in Messages |-> m - 1]]
    /\ msg_queue_head' = [msg_queue_head EXCEPT ![q] = Null]
    /\ msg_queue_tail' = [msg_queue_tail EXCEPT ![q] = Null]
    /\ msg_queue_free' = [msg_queue_free EXCEPT ![q] = MaxMsgs]
    /\ msg_entry' = [msg_entry EXCEPT ![q] = 0]
    /\ UNCHANGED <<msg_text, msg_queue_got>>

QueueInitialise(c, q) == InitObject(c, q) /\ QueueSetUp(q)
QueueCreate(c, q)     == CreateObject(c, q) /\ QueueSetUp(q)

\* rt_mq_detach and rt_mq_delete.
QueueDetach(c, q) == DetachObject(c, q) /\ UNCHANGED qvars
QueueDelete(c, q) == DeleteObject(c, q) /\ UNCHANGED qvars

QueueStep(c) ==
    \/ MsgFill(c) \/ MsgLink(c) \/ MsgRecv(c) \/ MsgFree(c)
    \/ \E q \in Queues :
          \/ MsgReset(c, q) \/ QueueInitialise(c, q) \/ QueueCreate(c, q)
          \/ QueueDetach(c, q) \/ QueueDelete(c, q)
          \/ \E how \in {"send", "urgent"}, text \in Texts : MsgTake(c, q, how, text)
          \/ \E wait \in {"try", "ever", "timed"} : MsgRecvCall(c, q, wait)

QueueNext ==
    \/ \E c \in Threads : QueueStep(c)
    \/ \E q \in Queues, how \in {"send", "urgent"}, text \in Texts :
          IsrMsgSend(q, how, text)

-----------------------------------------------------------------------------
(* Properties.                                                             *)

\* The threads that own a message between two masked sections.
Carriers(q) == {t \in Threads : \E i \in DOMAIN pc[t] :
                   pc[t][i][1] \in {"fill", "link", "copy"} /\ pc[t][i][2] = q}

Carried(t) == CHOOSE e \in Range(pc[t]) : e[1] \in {"fill", "link", "copy"}

\* Every message is in the queue, in the free list or with one thread, once,
\* whatever threads are preempted while they copy; the tail is the last of the
\* queue, entry its length, and a text is not overwritten while it is received.
MessagesAreSomewhere ==
    \A q \in Queues :
        LET queued  == Chain(q, msg_queue_head[q])
            places  == queued \o Chain(q, msg_queue_free[q])
            carried == {Carried(t)[3] : t \in Carriers(q)}
        IN /\ Cardinality(Carriers(q)) = Cardinality(carried)
           /\ Cardinality(Range(places)) = Len(places)
           /\ Range(places) = Messages \ carried
           /\ msg_entry[q] = Len(queued)
           /\ msg_queue_tail[q] = IF queued = <<>> THEN Null ELSE Last(queued)
           /\ \A t \in Carriers(q) : Carried(t)[1] = "copy" =>
                  msg_text[q][Carried(t)[3]] = Carried(t)[5]

\* A message queue is a channel: messages come out in the order in which they
\* were linked, urgent ones first.
Texted(q) == [i \in DOMAIN Chain(q, msg_queue_head[q]) |->
                    msg_text[q][Chain(q, msg_queue_head[q])[i]]]

QueueChannel(q) == INSTANCE MailChannel WITH
    box <- Texted(q), got <- msg_queue_got[q], Capacity <- MaxMsgs, Mails <- Texts, NoMail <- NoText

QueueIsChannel ==
    /\ \A q \in Queues : QueueChannel(q)!Init
    /\ [][\A q \in Queues :
             [QueueChannel(q)!Next]_<<Texted(q), msg_queue_got[q]>>]_qvars

\* Receivers wait only for messages that nobody has been resumed to receive.
ReadersWait ==
    \A q \in Queues : suspend_thread[q] # <<>> =>
        msg_entry[q] <= Cardinality(ToLookAgain(q, "msgrecv"))

=============================================================================
