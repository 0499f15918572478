------------------------------ MODULE Mailbox ------------------------------
(***************************************************************************)
(* The mailboxes of src/src/ipc.c: a ring of mails, receivers that wait    *)
(* while it is empty and senders that wait while it is full, each in a     *)
(* loop, for another thread may come first when they have been resumed.    *)
(*                                                                         *)
(* got is a history variable, the mail that was received last.             *)
(***************************************************************************)
EXTENDS IpcLists

CONSTANTS
    Mailboxes,
    SenderList,  \* [Mailboxes -> suspend_sender_thread]
    Size,        \* mb->size
    Mails, NoMail

ASSUME MailboxAssumption ==
    /\ Mailboxes \subseteq Objects
    /\ Size \in Nat \ {0}
    /\ \A mb \in Mailboxes : ListsOf[mb] = <<mb, SenderList[mb]>>

VARIABLES
    entry, in_offset, out_offset, msg_pool,
    got

bvars == <<entry, in_offset, out_offset, msg_pool, got>>

MailInit ==
    /\ entry = [mb \in Mailboxes |-> 0]
    /\ in_offset = [mb \in Mailboxes |-> 0]
    /\ out_offset = [mb \in Mailboxes |-> 0]
    /\ msg_pool = [mb \in Mailboxes |-> [i \in 0..Size-1 |-> NoMail]]
    /\ got = [mb \in Mailboxes |-> NoMail]

-----------------------------------------------------------------------------
AfterOffset(i) == IF i + 1 >= Size THEN 0 ELSE i + 1

\* The calls; their loops are entered with the next step.
MailCall(c, mb, wait) ==
    /\ mb \in live
    /\ \/ Call(c, IF wait = "timed" THEN "timedmail" ELSE "mailrecv")
          /\ Goto(c, << <<"mailrecv", mb, wait>> >>)
       \/ \E mail \in Mails :
             /\ Call(c, IF wait = "timed" THEN "timedmail" ELSE "mailsend")
             /\ Goto(c, << <<"mailsend", mb, wait, mail>> >>)
    /\ UNCHANGED <<tcb, lists, rt_current_thread, rt_scheduler_lock_nest, isr,
                   ipcvars, bvars>>

\* Mutant: a full box is written.
FullNever(mb) == FALSE

Full(mb) == entry[mb] = Size

\* The end of rt_mb_send_wait, once there is room.
Posted(mb, mail) ==
    /\ msg_pool' = [msg_pool EXCEPT ![mb][in_offset[mb]] = mail]
    /\ in_offset' = [in_offset EXCEPT ![mb] = AfterOffset(@)]
    /\ entry' = [entry EXCEPT ![mb] = @ + 1]
    /\ FirstResumed(mb)
    /\ UNCHANGED <<out_offset, got>>

MailSend(c) ==
    /\ At(c, "mailsend")
    /\ LET mb == Target(c) IN
       IF Full(mb)
       THEN LoopWaits(c, SenderList[mb], "EOK") /\ UNCHANGED bvars
       ELSE /\ Posted(mb, Locals(c)[4])
            /\ Proceed(c, AfterResume(c, mb))
            /\ UNCHANGED <<current_priority, remaining_tick, error, rt_thread_defunct,
                           rt_current_thread, rt_scheduler_lock_nest, isr, ipcvars>>

\* rt_mb_send in a handler; its rt_schedule runs with interrupts masked.
IsrMailSend(mb, mail) ==
    /\ Handler
    /\ mb \in live /\ ~Full(mb)
    /\ Posted(mb, mail)
    /\ IF suspend_thread[mb] # <<>> THEN Schedule ELSE UNCHANGED rt_current_thread
    /\ UNCHANGED <<current_priority, remaining_tick, error, rt_thread_defunct,
                   rt_scheduler_lock_nest, isr, pc, ipcvars>>

MailRecv(c) ==
    /\ At(c, "mailrecv")
    /\ LET mb == Target(c) IN
       IF entry[mb] = 0
       THEN LoopWaits(c, mb, "ETIMEOUT") /\ UNCHANGED bvars
       ELSE /\ got' = [got EXCEPT ![mb] = msg_pool[mb][out_offset[mb]]]
            /\ out_offset' = [out_offset EXCEPT ![mb] = AfterOffset(@)]
            /\ entry' = [entry EXCEPT ![mb] = @ - 1]
            /\ FirstResumed(SenderList[mb])
            /\ Proceed(c, AfterResume(c, SenderList[mb]))
            /\ UNCHANGED <<current_priority, remaining_tick, error, rt_thread_defunct,
                           rt_current_thread, rt_scheduler_lock_nest, isr, ipcvars,
                           in_offset, msg_pool>>

\* rt_mb_control with RT_IPC_CMD_RESET.
MailReset(c, mb) ==
    /\ ResetObject(c, mb)
    /\ entry' = [entry EXCEPT ![mb] = 0]
    /\ in_offset' = [in_offset EXCEPT ![mb] = 0]
    /\ out_offset' = [out_offset EXCEPT ![mb] = 0]
    /\ UNCHANGED <<msg_pool, got>>

\* rt_mb_init and rt_mb_create: an empty ring, which begins at its first place.
MailSetUp(mb) ==
    /\ entry' = [entry EXCEPT ![mb] = 0]
    /\ in_offset' = [in_offset EXCEPT ![mb] = 0]
    /\ out_offset' = [out_offset EXCEPT ![mb] = 0]
    /\ UNCHANGED <<msg_pool, got>>

MailInitialise(c, mb) == InitObject(c, mb) /\ MailSetUp(mb)
MailCreate(c, mb)     == CreateObject(c, mb) /\ MailSetUp(mb)

\* rt_mb_detach and rt_mb_delete: the receivers are resumed and then the senders.
MailDetach(c, mb) == DetachObject(c, mb) /\ UNCHANGED bvars
MailDelete(c, mb) == DeleteObject(c, mb) /\ UNCHANGED bvars

MailStep(c) ==
    \/ MailSend(c) \/ MailRecv(c)
    \/ \E mb \in Mailboxes :
          \/ MailReset(c, mb) \/ MailInitialise(c, mb) \/ MailCreate(c, mb)
          \/ MailDetach(c, mb) \/ MailDelete(c, mb)
          \/ \E wait \in {"try", "ever", "timed"} : MailCall(c, mb, wait)

MailNext ==
    \/ \E c \in Threads : MailStep(c)
    \/ \E mb \in Mailboxes, mail \in Mails : IsrMailSend(mb, mail)

-----------------------------------------------------------------------------
(* Properties.                                                             *)

\* The mails of the ring from out_offset on.
Contents(mb) == [i \in 1..entry[mb] |-> msg_pool[mb][(out_offset[mb] + i - 1) % Size]]

\* A mailbox is a channel: whatever threads and handlers send and receive, wait,
\* time out and come too late, no mail is lost, repeated or overtaken.
Channel(mb) == INSTANCE MailChannel WITH
    box <- Contents(mb), got <- got[mb], Capacity <- Size

MailIsChannel ==
    /\ \A mb \in Mailboxes : Channel(mb)!Init
    /\ [][\A mb \in Mailboxes :
             [Channel(mb)!Next]_<<Contents(mb), got[mb]>>]_bvars

\* Receivers wait only for mails that nobody has been resumed to receive, and
\* senders only for room that nobody has been resumed to fill: no wake-up is
\* lost although it is the one resumed that has to look again.
PostmenWait ==
    \A mb \in Mailboxes :
        /\ suspend_thread[mb] # <<>> =>
              entry[mb] <= Cardinality(ToLookAgain(mb, "mailrecv"))
        /\ suspend_thread[SenderList[mb]] # <<>> =>
              Size - entry[mb] <= Cardinality(ToLookAgain(mb, "mailsend"))

=============================================================================
