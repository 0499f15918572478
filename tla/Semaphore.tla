----------------------------- MODULE Semaphore -----------------------------
(***************************************************************************)
(* The semaphores of src/src/ipc.c: a value and a suspend list, release    *)
(* from threads and from interrupt handlers, and reset.                    *)
(*                                                                         *)
(* tokens and supply are history variables: the tokens each thread holds   *)
(* by the return values of rt_sem_take, and the tokens the application has *)
(* put into the semaphore.                                                 *)
(***************************************************************************)
EXTENDS IpcLists

CONSTANTS
    Semaphores,
    InitValue,   \* [Semaphores -> the value given to rt_sem_init]
    ValueMod,    \* 65536: value is an rt_uint16_t
    MaxSupply    \* bound on the tokens put into one semaphore

ASSUME SemaphoreAssumption ==
    /\ Semaphores \subseteq Objects
    /\ ValueMod \in Nat \ {0} /\ MaxSupply \in Nat
    /\ InitValue \in [Semaphores -> 0..ValueMod-1]

VARIABLES
    value,       \* sem->value
    tokens,      \* tokens[s][t]: what t has taken and not given back
    supply       \* supply[s]: tokens in circulation

svars == <<value, tokens, supply>>

SemInit ==
    /\ value = InitValue
    /\ tokens = [s \in Semaphores |-> [t \in Threads |-> 0]]
    /\ supply = InitValue

-----------------------------------------------------------------------------
\* rt_sem_take with a token to be had.
Take(c, s) ==
    /\ Call(c, "take") /\ s \in live
    /\ value[s] > 0
    /\ value' = [value EXCEPT ![s] = @ - 1]
    /\ tokens' = [tokens EXCEPT ![s][c] = @ + 1]
    /\ UNCHANGED <<kvars, ipcvars, supply>>

\* rt_sem_take without: the thread waits, for ever or until its timer expires.
\* (rt_sem_trytake then returns at once and changes nothing.)
TakeWait(c, s, timed) ==
    /\ Call(c, IF timed THEN "timedtake" ELSE "take") /\ s \in live
    /\ value[s] = 0
    /\ Wait(c, s, timed)
    /\ Goto(c, << <<"sched", c>>, <<"taken", s>> >>)
    /\ UNCHANGED <<current_priority, remaining_tick, rt_thread_defunct,
                   rt_current_thread, rt_scheduler_lock_nest, isr, ipcvars, svars>>

\* rt_sem_take returns thread->error.
TakeReturn(c) ==
    /\ At(c, "taken")
    /\ tokens' = IF error[c] = "EOK"
                 THEN [tokens EXCEPT ![Target(c)][c] = @ + 1] ELSE tokens
    /\ Return(c)
    /\ UNCHANGED <<tcb, lists, rt_current_thread, rt_scheduler_lock_nest, isr,
                   ipcvars, value, supply>>

\* The masked section of rt_sem_release: a waiter is resumed and has the token,
\* or the semaphore has one more.
Released(s) ==
    /\ FirstResumed(s)
    /\ value' = IF suspend_thread[s] # <<>> THEN value
                ELSE [value EXCEPT ![s] = (@ + 1) % ValueMod]

\* A thread gives back a token.
Release(c, s) ==
    /\ Call(c, "release") /\ s \in live
    /\ tokens[s][c] > 0
    /\ tokens' = [tokens EXCEPT ![s][c] = @ - 1]
    /\ Goto(c, AfterResume(c, s))
    /\ Released(s)
    /\ UNCHANGED <<current_priority, remaining_tick, error, rt_thread_defunct,
                   rt_current_thread, rt_scheduler_lock_nest, isr, ipcvars, supply>>

\* An interrupt handler puts a token in: its rt_sem_release and rt_schedule run
\* with interrupts masked (uart_isr).
IsrRelease(s) ==
    /\ Handler
    /\ s \in live /\ supply[s] < MaxSupply
    /\ supply' = [supply EXCEPT ![s] = @ + 1]
    /\ Released(s)
    /\ IF suspend_thread[s] # <<>> THEN Schedule ELSE UNCHANGED rt_current_thread
    /\ UNCHANGED <<current_priority, remaining_tick, error, rt_thread_defunct,
                   rt_scheduler_lock_nest, isr, pc, ipcvars, tokens>>

\* rt_sem_control with RT_IPC_CMD_RESET.
SemReset(c, s, v) ==
    /\ ResetObject(c, s)
    /\ supply[s] - value[s] + v <= MaxSupply
    /\ value' = [value EXCEPT ![s] = v]
    /\ supply' = [supply EXCEPT ![s] = @ - value[s] + v]
    /\ UNCHANGED tokens

\* rt_sem_init and rt_sem_create of a semaphore that is not in use: no thread
\* holds a token of it.
SemSetUp(s, v) ==
    /\ value' = [value EXCEPT ![s] = v]
    /\ supply' = [supply EXCEPT ![s] = v]
    /\ tokens' = [tokens EXCEPT ![s] = [t \in Threads |-> 0]]

SemInitialise(c, s, v) == InitObject(c, s) /\ SemSetUp(s, v)
SemCreate(c, s, v)     == CreateObject(c, s) /\ SemSetUp(s, v)

\* rt_sem_detach and rt_sem_delete.
SemDetach(c, s) == DetachObject(c, s) /\ UNCHANGED svars
SemDelete(c, s) == DeleteObject(c, s) /\ UNCHANGED svars

SemStep(c) ==
    \/ TakeReturn(c)
    \/ \E s \in Semaphores :
          \/ SemInitialise(c, s, InitValue[s]) \/ SemCreate(c, s, InitValue[s])
          \/ SemDetach(c, s) \/ SemDelete(c, s)
          \/ Take(c, s) \/ Release(c, s)
          \/ \E timed \in BOOLEAN : TakeWait(c, s, timed)
          \/ \E v \in 0..1 : SemReset(c, s, v)

SemNext == (\E c \in Threads : SemStep(c)) \/ \E s \in Semaphores : IsrRelease(s)

-----------------------------------------------------------------------------
(* Properties.                                                             *)

\* t is in rt_sem_take of s and has not returned.
Taking(t, s) == \E i \in DOMAIN pc[t] : pc[t][i] = <<"taken", s>>

\* Threads that rt_sem_release has resumed and that have not run since.
Granted(s) == {t \in Threads : /\ Taking(t, s) /\ error[t] = "EOK"
                               /\ t \notin Range(suspend_thread[s])}

\* The tokens that threads have taken and not given back, one by one.
Held(s) == UNION {{t} \X (1..tokens[s][t]) : t \in Threads}

\* No token is lost or made up by any interleaving of takes, timeouts, releases
\* from threads and interrupts and resets: each is in the value, with a thread,
\* or on its way to a thread that was resumed to have it.
TokensConserved ==
    \A s \in Semaphores :
        supply[s] = value[s] + Cardinality(Granted(s)) + Cardinality(Held(s))

\* Nobody waits while there is a token to be had.
TakersWaitForTokens == \A s \in Semaphores : value[s] > 0 => suspend_thread[s] = <<>>

=============================================================================
