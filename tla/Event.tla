------------------------------- MODULE Event -------------------------------
(* The events of src/src/ipc.c: a set of bits, sent by threads and         *)
(* handlers, that threads wait for all or any of and may clear.            *)
EXTENDS IpcLists

CONSTANTS Events, Bits

ASSUME EventAssumption == Events \subseteq Objects

VARIABLES
    set,         \* event->set
    event_set,   \* thread->event_set
    event_info   \* thread->event_info: "AND" or "OR", and whether "CLEAR"

evars == <<set, event_set, event_info>>

Options == {"AND", "OR"} \X {"CLEAR", "KEEP"}

EventInit ==
    /\ set = [e \in Events |-> {}]
    /\ event_set = [t \in Threads |-> {}]
    /\ event_info = [t \in Threads |-> <<"OR", "KEEP">>]

-----------------------------------------------------------------------------
\* The condition of rt_event_recv and rt_event_send.
Satisfies(bits, asked, option) ==
    IF option[1] = "AND" THEN asked \subseteq bits ELSE asked \cap bits # {}

\* rt_event_recv of what is there.  (What it returns is in the state already.)
EventRecv(c, e, asked, option) ==
    /\ Call(c, "eventrecv") /\ e \in live
    /\ Satisfies(set[e], asked, option)
    /\ set' = IF option[2] = "CLEAR" THEN [set EXCEPT ![e] = @ \ asked] ELSE set
    /\ error' = [error EXCEPT ![c] = "EOK"]
    /\ UNCHANGED <<stat, current_priority, remaining_tick, armed, lists,
                   rt_current_thread, rt_scheduler_lock_nest, isr, pc, ipcvars,
                   event_set, event_info>>

\* rt_event_recv of what is not, without a waiting time ...
EventTry(c, e, asked, option) ==
    /\ Call(c, "tryrecv") /\ e \in live
    /\ ~Satisfies(set[e], asked, option)
    /\ error' = [error EXCEPT ![c] = "ETIMEOUT"]
    /\ UNCHANGED <<stat, current_priority, remaining_tick, armed, lists,
                   rt_current_thread, rt_scheduler_lock_nest, isr, pc, ipcvars, evars>>

\* ... and with one.
EventWait(c, e, asked, option, timed) ==
    /\ Call(c, IF timed THEN "timedrecv" ELSE "eventrecv") /\ e \in live
    /\ ~Satisfies(set[e], asked, option)
    /\ event_set' = [event_set EXCEPT ![c] = asked]
    /\ event_info' = [event_info EXCEPT ![c] = option]
    /\ Wait(c, e, timed)
    /\ Goto(c, << <<"sched", c>>, <<"received", e>> >>)
    /\ UNCHANGED <<current_priority, remaining_tick, rt_thread_defunct,
                   rt_current_thread, rt_scheduler_lock_nest, isr, ipcvars, set>>

\* It returns thread->error and, when that is RT_EOK, thread->event_set, which
\* nobody reads after that: the model forgets it.
EventReturn(c) ==
    /\ At(c, "received")
    /\ event_set' = [event_set EXCEPT ![c] = {}]
    /\ event_info' = [event_info EXCEPT ![c] = <<"OR", "KEEP">>]
    /\ Return(c)
    /\ UNCHANGED <<tcb, lists, rt_current_thread, rt_scheduler_lock_nest, isr,
                   ipcvars, set>>

\* One waiter that is satisfied: what it gets, ...
Got(bits, t) ==
    IF event_info[t][1] = "AND" THEN event_set[t] ELSE event_set[t] \cap bits

\* ... and what it leaves to those behind it.
Served(bits, t) == IF event_info[t][2] = "CLEAR" THEN bits \ Got(bits, t) ELSE bits

\* The loop of rt_event_send over the waiters: the bits that are left after i of
\* them, ...
Left(bits, waiters) ==
    LET left[i \in 0..Len(waiters)] ==
            IF i = 0 THEN bits
            ELSE LET t == waiters[i] IN
                 IF Satisfies(left[i - 1], event_set[t], event_info[t])
                 THEN Served(left[i - 1], t) ELSE left[i - 1]
    IN left

\* ... and those of them that are satisfied by what the others left.
Satisfied(bits, waiters) ==
    {i \in DOMAIN waiters : LET t == waiters[i] IN
        Satisfies(Left(bits, waiters)[i - 1], event_set[t], event_info[t])}

SendBits(e, bits) ==
    LET q     == suspend_thread[e]
        sent  == set[e] \cup bits
        woken == {q[i] : i \in Satisfied(sent, q)}
    IN /\ set' = [set EXCEPT ![e] = Left(sent, q)[Len(q)]]
       /\ event_set' = [t \in Threads |->
              IF t \in woken
              THEN Got(Left(sent, q)[(CHOOSE i \in DOMAIN q : q[i] = t) - 1], t)
              ELSE event_set[t]]
       /\ SomeResumed(q, woken)
       /\ suspend_thread' = [suspend_thread EXCEPT ![e] = Among(@, Threads \ woken)]
       /\ UNCHANGED <<current_priority, remaining_tick, error, rt_thread_defunct,
                      rt_scheduler_lock_nest, isr, ipcvars, event_info>>

\* rt_event_send by a thread, ...
EventSend(c, e, bits) ==
    /\ Call(c, "send") /\ e \in live
    /\ SendBits(e, bits)
    /\ Goto(c, IF Satisfied(set[e] \cup bits, suspend_thread[e]) # {}
               THEN << <<"sched", c>> >> ELSE <<>>)
    /\ UNCHANGED rt_current_thread

\* ... and by a handler, where its rt_schedule runs with interrupts masked.
IsrEventSend(e, bits) ==
    /\ Handler
    /\ e \in live
    /\ SendBits(e, bits)
    /\ IF Satisfied(set[e] \cup bits, suspend_thread[e]) # {}
       THEN Schedule ELSE UNCHANGED rt_current_thread
    /\ UNCHANGED pc

\* rt_event_control with RT_IPC_CMD_RESET.
EventReset(c, e) ==
    /\ ResetObject(c, e)
    /\ set' = [set EXCEPT ![e] = {}]
    /\ UNCHANGED <<event_set, event_info>>

\* rt_event_init and rt_event_create.
EventSetUp(e) ==
    /\ set' = [set EXCEPT ![e] = {}]
    /\ UNCHANGED <<event_set, event_info>>

EventInitialise(c, e) == InitObject(c, e) /\ EventSetUp(e)
EventCreate(c, e)     == CreateObject(c, e) /\ EventSetUp(e)

\* rt_event_detach and rt_event_delete.
EventDetach(c, e) == DetachObject(c, e) /\ UNCHANGED evars
EventDelete(c, e) == DeleteObject(c, e) /\ UNCHANGED evars

Asked == SUBSET Bits \ {{}}

EventStep(c) ==
    \/ EventReturn(c)
    \/ \E e \in Events :
          \/ EventReset(c, e) \/ EventInitialise(c, e) \/ EventCreate(c, e)
          \/ EventDetach(c, e) \/ EventDelete(c, e)
          \/ \E bits \in Asked :
                \/ EventSend(c, e, bits)
                \/ \E option \in Options :
                      \/ EventRecv(c, e, bits, option) \/ EventTry(c, e, bits, option)
                      \/ \E timed \in BOOLEAN : EventWait(c, e, bits, option, timed)

EventNext ==
    \/ \E c \in Threads : EventStep(c)
    \/ \E e \in Events, bits \in Asked : IsrEventSend(e, bits)

-----------------------------------------------------------------------------
(* Properties.                                                             *)

\* Nobody waits for bits that are set: also a waiter behind one that cleared
\* some of them has been looked at.
ReceiversWaitForBits ==
    \A e \in Events : \A t \in Range(suspend_thread[e]) :
        ~Satisfies(set[e], event_set[t], event_info[t])

=============================================================================
