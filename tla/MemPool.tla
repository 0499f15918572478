------------------------------ MODULE MemPool ------------------------------
(***************************************************************************)
(* The memory pools of src/src/mempool.c: blocks of one size in a free     *)
(* list, and threads that wait for one, the newest first.                  *)
(*                                                                         *)
(* The word in front of a block links the free block to the next one, and  *)
(* a block in use to its pool.  held is a history variable, the blocks     *)
(* that rt_mp_alloc has returned and nobody has freed.                     *)
(***************************************************************************)
EXTENDS IpcLists

CONSTANTS
    Pools,
    BlockCount,  \* mp->block_total_count
    CountMod,    \* 2^32: suspend_thread_count is an rt_size_t
    MaxPended    \* bound on suspend_thread_count, which timeouts leave too high

ASSUME PoolAssumption ==
    /\ Pools \subseteq Objects /\ Pools \subseteq Newest
    /\ BlockCount \in Nat \ {0}
    /\ MaxPended \in Nat /\ CountMod \in Nat /\ MaxPended < CountMod

Blocks == 1..BlockCount
NoBlock == 0

VARIABLES
    block_list, block_free_count,
    block_word,            \* the word in front of each block
    suspend_thread_count,
    held

blocks == <<block_list, block_free_count, block_word, held>>
pvars  == <<blocks, suspend_thread_count>>

\* All blocks are linked, in the order of their addresses.
InOrder == [b \in Blocks |-> IF b = BlockCount THEN NoBlock ELSE b + 1]

PoolInit ==
    /\ block_list = [mp \in Pools |-> 1]
    /\ block_free_count = [mp \in Pools |-> BlockCount]
    /\ block_word = [mp \in Pools |-> InOrder]
    /\ suspend_thread_count = [mp \in Pools |-> 0]
    /\ held = [mp \in Pools |-> {}]

-----------------------------------------------------------------------------
\* rt_mp_alloc; its loop is entered with the next step.
PoolCall(c, mp, wait) ==
    /\ Call(c, IF wait = "timed" THEN "timedalloc" ELSE "mpalloc") /\ mp \in live
    /\ wait = "timed" => suspend_thread_count[mp] < MaxPended
    /\ Goto(c, << <<"mpalloc", mp, wait>> >>)
    /\ UNCHANGED <<tcb, lists, rt_current_thread, rt_scheduler_lock_nest, isr,
                   ipcvars, pvars>>

\* A free block: the head of the list is unlinked and points to its pool.
BlockTaken(mp) ==
    LET b == block_list[mp] IN
    /\ block_free_count' = [block_free_count EXCEPT ![mp] = @ - 1]
    /\ block_list' = [block_list EXCEPT ![mp] = block_word[mp][b]]
    /\ block_word' = [block_word EXCEPT ![mp][b] = mp]
    /\ held' = [held EXCEPT ![mp] = @ \cup {b}]
    /\ UNCHANGED suspend_thread_count

\* No free block: a turn of the loop waits, and counts the thread; or the time
\* is used up.
PoolWaits(c, mp) ==
    /\ UNCHANGED blocks
    /\ IF Locals(c)[3] \in {"ever", "timed"}
       THEN /\ LoopWaits(c, mp, "ETIMEOUT")
            /\ suspend_thread_count' =
                   [suspend_thread_count EXCEPT ![mp] = (@ + 1) % CountMod]
       ELSE /\ error' = [error EXCEPT ![c] = "ETIMEOUT"]
            /\ Return(c)
            /\ UNCHANGED <<stat, current_priority, remaining_tick, armed, lists,
                           rt_current_thread, rt_scheduler_lock_nest, isr, ipcvars,
                           suspend_thread_count>>

PoolAlloc(c) ==
    /\ At(c, "mpalloc")
    /\ LET mp == Target(c) IN
       IF block_free_count[mp] = 0
       THEN PoolWaits(c, mp)
       ELSE /\ BlockTaken(mp)
            /\ Return(c)
            /\ UNCHANGED <<tcb, lists, rt_current_thread, rt_scheduler_lock_nest,
                           isr, ipcvars>>

\* Mutant: the freed block keeps the word that points to its pool.
FreeLinkedNot(mp, b) == UNCHANGED block_word

FreeLinked(mp, b) == block_word' = [block_word EXCEPT ![mp][b] = block_list[mp]]

\* The count of waiting threads goes down, whether one was resumed or not.
Uncounted(mp) == suspend_thread_count' =
    [suspend_thread_count EXCEPT ![mp] = (@ + CountMod - 1) % CountMod]

\* rt_mp_free: the block is linked, and the head of the suspend list resumed if
\* there are threads by the count.  When there are none the list head is taken
\* for a thread.
Freed(mp, b) ==
    /\ block_free_count' = [block_free_count EXCEPT ![mp] = @ + 1]
    /\ FreeLinked(mp, b)
    /\ block_list' = [block_list EXCEPT ![mp] = b]
    /\ held' = [held EXCEPT ![mp] = @ \ {b}]
    /\ IF suspend_thread_count[mp] = 0
       THEN NobodyResumed /\ UNCHANGED <<error, wild, suspend_thread_count>>
       ELSE /\ Uncounted(mp)
            /\ IF suspend_thread[mp] = <<>>
               THEN wild' = TRUE /\ NobodyResumed /\ UNCHANGED error
               ELSE /\ error' = [error EXCEPT ![Head(suspend_thread[mp])] = "EOK"]
                    /\ HeadResumed(mp)
                    /\ UNCHANGED wild

PoolFree(c, mp, b) ==
    /\ Call(c, "mpfree") /\ mp \in live /\ b \in held[mp]
    /\ Freed(mp, b)
    /\ Goto(c, IF suspend_thread_count[mp] > 0 THEN << <<"sched", c>> >> ELSE <<>>)
    /\ UNCHANGED <<current_priority, remaining_tick, rt_thread_defunct,
                   rt_current_thread, rt_scheduler_lock_nest, isr, live, static>>

\* A handler takes a block without waiting, or frees one; its rt_schedule runs
\* with interrupts masked.
IsrPoolAlloc(mp) ==
    /\ Handler
    /\ mp \in live /\ block_free_count[mp] > 0
    /\ BlockTaken(mp)
    /\ UNCHANGED <<tcb, lists, pc, rt_current_thread, rt_scheduler_lock_nest, isr,
                   ipcvars>>

IsrPoolFree(mp, b) ==
    /\ Handler
    /\ mp \in live /\ b \in held[mp]
    /\ Freed(mp, b)
    /\ IF suspend_thread_count[mp] > 0 THEN Schedule ELSE UNCHANGED rt_current_thread
    /\ UNCHANGED <<current_priority, remaining_tick, rt_thread_defunct,
                   rt_scheduler_lock_nest, isr, pc, live, static>>

PoolSetUp(mp) ==
    /\ block_list' = [block_list EXCEPT ![mp] = 1]
    /\ block_free_count' = [block_free_count EXCEPT ![mp] = BlockCount]
    /\ block_word' = [block_word EXCEPT ![mp] = InOrder]
    /\ suspend_thread_count' = [suspend_thread_count EXCEPT ![mp] = 0]
    /\ held' = [held EXCEPT ![mp] = {}]

\* rt_mp_init and rt_mp_create.
PoolInitialise(c, mp) == InitObject(c, mp) /\ PoolSetUp(mp)
PoolCreate(c, mp)     == CreateObject(c, mp) /\ PoolSetUp(mp)

\* rt_mp_detach and rt_mp_delete: their loop, whose section also counts the
\* thread it resumes, is that of rt_ipc_list_resume_all.
PoolDetach(c, mp) == DetachObject(c, mp) /\ UNCHANGED pvars
PoolDelete(c, mp) == DeleteObject(c, mp) /\ UNCHANGED pvars

PoolResumeOne(c) == ResumeOne(c) /\ Target(c) \in Pools /\ Uncounted(Target(c))
                    /\ UNCHANGED blocks

PoolStep(c) ==
    \/ PoolAlloc(c) \/ PoolResumeOne(c)
    \/ \E mp \in Pools :
          \/ PoolInitialise(c, mp) \/ PoolCreate(c, mp)
          \/ PoolDetach(c, mp) \/ PoolDelete(c, mp)
          \/ \E wait \in {"try", "ever", "timed"} : PoolCall(c, mp, wait)
          \/ \E b \in Blocks : PoolFree(c, mp, b)

PoolNext ==
    \/ \E c \in Threads : PoolStep(c)
    \/ \E mp \in Pools : IsrPoolAlloc(mp) \/ \E b \in Blocks : IsrPoolFree(mp, b)

-----------------------------------------------------------------------------
(* Properties.                                                             *)

\* The blocks of the free list in its order, as far as the count goes, and what
\* comes after them.
FreeBlocks(mp) ==
    LET at[n \in 1..BlockCount + 1] ==
            IF n = 1 THEN block_list[mp]
            ELSE IF at[n - 1] \in Blocks THEN block_word[mp][at[n - 1]] ELSE NoBlock
    IN [n \in 1..block_free_count[mp] + 1 |-> at[n]]

\* Each block is in the free list once or with one user and points to its pool:
\* waits, timeouts, frees from handlers and the deletion of the pool neither lose
\* a block nor hand one out twice, and the count is the length of the list.
BlocksAreConserved ==
    \A mp \in Pools :
        LET free == Front(FreeBlocks(mp)) IN
        /\ ToSet(free) = Blocks \ held[mp] /\ IsInjective(free)
        /\ Last(FreeBlocks(mp)) = NoBlock
        /\ \A b \in held[mp] : block_word[mp][b] = mp

\* Threads wait only for blocks that others have been resumed to take.
AllocatorsWait ==
    \A mp \in Pools : suspend_thread[mp] # <<>> =>
        block_free_count[mp] <= Cardinality(ToLookAgain(mp, "mpalloc"))

\* suspend_thread_count is the "numbers of thread pended on this resource"
\* (include/rtdef.h): rt_mp_free, which looks at the count and not at the list,
\* finds a thread when it resumes one.
CountIsPended ==
    \A mp \in Pools : suspend_thread_count[mp] = Len(suspend_thread[mp])

=============================================================================
