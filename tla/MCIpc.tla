------------------------------- MODULE MCIpc -------------------------------
(* Instances of Ipc for TLC: the three threads of MCKernel, which are       *)
(* running when the application starts, and one object of each kind.  An    *)
(* application uses one of them, or none and then it is one of MCKernel's.  *)
EXTENDS Ipc, MCKernel

CONSTANTS sem, mutex, event, mailbox, senders, queue, pool

StartQueues == [p \in Prios |-> CASE p = 0 -> <<high>> [] p = 1 -> <<Main, peer>>
                                  [] p = 2 -> <<Idle>>]

AllLists == [o \in Objects |-> IF o = mailbox THEN <<mailbox, senders>> ELSE <<o>>]

MailSenders == [mb \in {mailbox} |-> senders]

\* The object is deleted and made again, under one thread that uses it.
Remade(mainCalls, highCalls) ==
    [Given({"deleteipc", "makeipc"} \cup mainCalls, {}) EXCEPT ![high] = highCalls]

\* One token, as for a lock; an interrupt handler may add tokens.
OneToken == [s \in {sem} |-> 1]

\* Takes, timed takes and releases; reset and, at last, deletion under waiters.
SemUse == Given({"take", "release", "yield"}, {"take", "timedtake", "release"})
SemUses == {SemUse, Given({"reset", "deleteipc", "sleep"}, {"take", "release"}),
            Remade({"take"}, {"take"})}

\* The mutex, recursively and with time limits; deletion under waiters.
MutexUses == {Given({"mutex", "trylock", "unlock", "yield"}, {"mutex", "timedlock", "unlock", "sleep"}),
              Given({"mutex", "unlock", "deleteipc"}, {"mutex", "unlock", "sleep"}),
              Remade({}, {"mutex", "sleep"})}

\* Events, sent by threads and handlers.
EventUse == [Given({"tryrecv"}, {"timedrecv"}) EXCEPT ![high] = {"eventrecv"}]
EventUses == {EventUse, Given({"reset", "deleteipc", "send"}, {"eventrecv"}),
              Remade({"send"}, {"eventrecv"})}

\* Mails, sent by threads and handlers.
MailUse == [Given({"mailsend"}, {"timedmail"}) EXCEPT ![high] = {"mailrecv"}]
MailUses == {MailUse, [Given({"reset", "deleteipc"}, {"mailrecv", "mailsend"})
                         EXCEPT ![high] = {"mailsend"}],
             Remade({}, {"mailsend"})}

\* Messages.
QueueUse == [Given({"msgsend"}, {"timedmsg"}) EXCEPT ![high] = {"msgrecv"}]
QueueUses == {QueueUse,
              Given({"reset", "deleteipc"}, {"msgrecv", "msgsend"}),
              Remade({"msgsend"}, {"msgrecv"})}

\* Blocks of a pool, also of handlers; deletion under waiters.
PoolUse == [Given({"mpalloc", "mpfree"}, {"timedalloc", "mpfree"})
              EXCEPT ![high] = {"mpalloc", "mpfree"}]
PoolUses == {PoolUse, Given({"deleteipc", "mpfree"}, {"mpalloc"}),
             Remade({"mpalloc"}, {"mpalloc"})}

Applications == KernelUses \cup SemUses \cup MutexUses \cup EventUses \cup MailUses
                \cup QueueUses \cup PoolUses

HandlersToo == {SemUse, EventUse, MailUse, QueueUse, PoolUse} \cap Applications

UsedObjects == [f \in Applications |->
    CASE f \in SemUses -> {sem} [] f \in MutexUses -> {mutex} [] f \in EventUses -> {event}
      [] f \in MailUses -> {mailbox} [] f \in QueueUses -> {queue}
      [] f \in PoolUses -> {pool} [] OTHER -> {}]
=============================================================================
