-------------------------------- MODULE Ipc --------------------------------
(* The IPC objects of src/src/ipc.c and the memory pools of mempool.c       *)
(* together, under the threads, timeouts and handlers of Kernel.            *)
EXTENDS Semaphore, Mutex, Event, Mailbox, MessageQueue, MemPool

\* An object is of one kind, and only a mailbox has two lists.
ASSUME KindsAssumption ==
    /\ \A o \in Objects \ Mailboxes : ListsOf[o] = <<o>>
    /\ Semaphores \cap (Mutexes \cup Events \cup Mailboxes \cup Queues \cup Pools) = {}
    /\ Mutexes \cap (Events \cup Mailboxes \cup Queues \cup Pools) = {}
    /\ Events \cap (Mailboxes \cup Queues \cup Pools) = {}
    /\ Mailboxes \cap (Queues \cup Pools) = {} /\ Queues \cap Pools = {}

vars == <<kvars, api, ipcvars, svars, mvars, evars, bvars, qvars, pvars>>

AllInit == IpcInit /\ SemInit /\ MutexInit /\ EventInit /\ MailInit /\ QueueInit
           /\ PoolInit

AllNext ==
    \/ Next /\ UNCHANGED <<ipcvars, svars, mvars, evars, bvars, qvars, pvars>>
    \/ /\ \E c \in Threads : IpcStep(c) \/ Woken(c)
       /\ UNCHANGED <<api, svars, mvars, evars, bvars, qvars, pvars>>
    \/ SemNext /\ UNCHANGED <<api, mvars, evars, bvars, qvars, pvars>>
    \/ /\ \E c \in Threads : MutexStep(c)
       /\ UNCHANGED <<api, svars, evars, bvars, qvars, pvars>>
    \/ EventNext /\ UNCHANGED <<api, svars, mvars, bvars, qvars, pvars>>
    \/ MailNext /\ UNCHANGED <<api, svars, mvars, evars, qvars, pvars>>
    \/ QueueNext /\ UNCHANGED <<api, svars, mvars, evars, bvars, pvars>>
    \/ PoolNext /\ UNCHANGED <<api, svars, mvars, evars, bvars, qvars>>

AllSpec == AllInit /\ [][AllNext]_vars

-----------------------------------------------------------------------------
\* No thread waits for what is there: for a token in the semaphore, bits that
\* are set, or a mail, a message, room or a block that no other thread has been
\* resumed to take.
NobodyWaitsInVain ==
    /\ TakersWaitForTokens /\ ReceiversWaitForBits /\ PostmenWait /\ ReadersWait
    /\ AllocatorsWait

\* Mailboxes and message queues are FIFO channels, in which urgent messages come
\* first: with receivers and senders that wait, time out and come too late
\* nothing is lost, repeated, made up or overtaken.
ChannelsAreFifo == MailIsChannel /\ QueueIsChannel

=============================================================================
