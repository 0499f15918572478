-------------------------------- MODULE Heap --------------------------------
(***************************************************************************)
(* The heap of src/src/mem.c: first fit from the lowest free block, blocks *)
(* linked by offsets in both directions, and the semaphore that serializes *)
(* the threads that allocate and free.                                     *)
(*                                                                         *)
(* Memory is the offsets from heap_ptr.  An offset holds the header of a   *)
(* block while next[b] is an offset; what a merge makes of a header is     *)
(* data, and reading it an error.  One step is what a thread does to the   *)
(* heap in one turn of a loop, or in a call of rt_sem_take or              *)
(* rt_sem_release; threads are preempted between any two.                  *)
(***************************************************************************)
EXTENDS HeapCalls

CONSTANTS
    SIZEOF_STRUCT_MEM,
    MIN_SIZE,          \* MIN_SIZE and MIN_SIZE_ALIGNED: it is a multiple
    mem_size_aligned

heap_end == mem_size_aligned + SIZEOF_STRUCT_MEM
Offsets  == 0..heap_end

HeapAssumption ==
    /\ SIZEOF_STRUCT_MEM \in Nat \ {0}
    /\ MIN_SIZE \in Nat \ {0} /\ mem_size_aligned \in Nat
    /\ MIN_SIZE <= mem_size_aligned

-----------------------------------------------------------------------------
(* Headers.                                                                *)

AtLeastMin(n) == IF n < MIN_SIZE THEN MIN_SIZE ELSE n

Blocks(h) == {b \in Offsets : h.next[b] # NoBlock}

\* The user data size of a block.
Room(h, b) == h.next[b] - (b + SIZEOF_STRUCT_MEM)

\* Cut block b behind its first n bytes; what is left becomes a free block.
SplitAt(h, b, n) ==
    LET rest == b + SIZEOF_STRUCT_MEM + n
        end  == h.next[b]
    IN [h EXCEPT !.used[rest] = FALSE,
                 !.next[rest] = end, !.next[b] = rest,
                 !.prev = [o \in Offsets |->
                     CASE o = rest                   -> b
                       [] o = end /\ end # heap_end  -> rest
                       [] OTHER                      -> h.prev[o]]]

\* Mutant: lfree stays with the block that is no more.
AbsorbedStale(h, b) ==
    LET n == h.next[b]
    IN [h EXCEPT !.next = [@ EXCEPT ![b] = h.next[n], ![n] = NoBlock],
                 !.prev = [@ EXCEPT ![h.next[n]] = b, ![n] = NoBlock]]

\* Block b takes in the block behind it.
Absorbed(h, b) ==
    LET n == h.next[b]
    IN [h EXCEPT !.next = [@ EXCEPT ![b] = h.next[n], ![n] = NoBlock],
                 !.prev = [@ EXCEPT ![h.next[n]] = b, ![n] = NoBlock],
                 !.lfree = IF @ = n THEN b ELSE @]

\* plug_holes, forward and backward.
Forward(h, mem) ==
    LET nmem == h.next[mem]
    IN IF nmem # mem /\ ~h.used[nmem] /\ nmem # heap_end
       THEN Absorbed(h, mem) ELSE h

Backward(h, mem) ==
    LET pmem == h.prev[mem]
    IN IF pmem # mem /\ ~h.used[pmem] THEN Absorbed(h, pmem) ELSE h

PlugHoles(h, mem) == Backward(Forward(h, mem), mem)

-----------------------------------------------------------------------------
\* rt_system_heap_init: one free block, and heap_end.
Init ==
    /\ CallsInit
    /\ heap = [used  |-> [b \in Offsets |-> b = heap_end],
               next  |-> [b \in Offsets |->
                             IF b \in {0, heap_end} THEN heap_end ELSE NoBlock],
               prev  |-> [b \in Offsets |-> IF b \in {0, heap_end} THEN b ELSE NoBlock],
               lfree |-> 0, used_mem |-> 0]
    /\ heap_sem = <<>>

Take(t) == TakeAt(t, {"malloc", "free", "realloc"})

\* rt_malloc and rt_realloc return RT_NULL at once to other requests.
InReach(n) == Aligned(n) <= mem_size_aligned

\* rt_malloc up to rt_sem_take.
MallocCall(t, n) ==
    /\ Ready(t) /\ InReach(n) /\ MoreAreas
    /\ size' = [size EXCEPT ![t] = AtLeastMin(Aligned(n))]
    /\ Goto(t, "malloc")
    /\ UNCHANGED <<heap, heap_sem, ptr, old, given>>

\* The start of the search: lfree is read.
Search(t) ==
    /\ pc[t] = "malloc" /\ Holds(t)
    /\ ptr' = [ptr EXCEPT ![t] = heap.lfree]
    /\ Goto(t, "scan")
    /\ UNCHANGED <<heap, heap_sem, size, old, given>>

\* Mutant: the search has no end.
ScanningOn(t) == pc[t] = "scan"

Scanning(t) == pc[t] = "scan" /\ ptr[t] < mem_size_aligned - size[t]

\* Mutant: the room of the block is not tested.
SuitsAny(t, b) == ~heap.used[b]

Suits(t, b) == ~heap.used[b] /\ Room(heap, b) >= size[t]

Skip(t) ==
    /\ Scanning(t) /\ ~Suits(t, ptr[t])
    /\ ptr' = [ptr EXCEPT ![t] = heap.next[ptr[t]]]
    /\ UNCHANGED <<heap, heap_sem, pc, size, old, given>>

Splits(h, b, n) == Room(h, b) >= n + SIZEOF_STRUCT_MEM + MIN_SIZE

\* Mutant: the header is not counted.
TakenSplitShort(h, b, n) ==
    [SplitAt(h, b, n) EXCEPT !.used[b] = TRUE, !.used_mem = @ + n]

TakenSplit(h, b, n) ==
    [SplitAt(h, b, n) EXCEPT !.used[b] = TRUE,
                             !.used_mem = @ + n + SIZEOF_STRUCT_MEM]

TakenWhole(h, b) ==
    [h EXCEPT !.used[b] = TRUE, !.used_mem = @ + (h.next[b] - b)]

\* A block that suits is cut, or taken whole when the rest would be too small.
Allocate(t) ==
    LET b == ptr[t]
    IN /\ Scanning(t) /\ Suits(t, b)
       /\ heap' = IF Splits(heap, b, size[t])
                  THEN TakenSplit(heap, b, size[t]) ELSE TakenWhole(heap, b)
       /\ Goto(t, IF b = heap.lfree THEN "lowest" ELSE "done")
       /\ UNCHANGED <<heap_sem, size, ptr, old, given>>

\* The loop that looks for the next free block, for lfree.
LowestIsUsed == heap.used[heap.lfree] /\ heap.lfree # heap_end

Advance(t) ==
    /\ pc[t] = "lowest" /\ LowestIsUsed
    /\ heap' = [heap EXCEPT !.lfree = heap.next[heap.lfree]]
    /\ UNCHANGED <<heap_sem, pc, size, ptr, old, given>>

LowestFound(t) == pc[t] = "done" \/ (pc[t] = "lowest" /\ ~LowestIsUsed)

\* The block is returned; rt_realloc goes on to free the old one, once it has
\* copied its bytes.
MallocReturn(t) ==
    LET a == ptr[t] + SIZEOF_STRUCT_MEM
    IN /\ LowestFound(t)
       /\ Release
       /\ HandOver(a, size[t])
       /\ IF old[t] = NoBlock
          THEN Leave(t) ELSE Goto(t, "copied") /\ UNCHANGED <<size, ptr, old>>
       /\ UNCHANGED heap

\* rt_malloc, and with it rt_realloc, returns RT_NULL.
MallocFails(t) ==
    /\ pc[t] = "scan" /\ ~Scanning(t)
    /\ Release
    /\ Leave(t)
    /\ UNCHANGED <<heap, given>>

-----------------------------------------------------------------------------
\* rt_free up to rt_sem_take, by whoever has the area, ...
FreeCall(t, a) ==
    /\ Ready(t)
    /\ Surrender(a)
    /\ ptr' = [ptr EXCEPT ![t] = a - SIZEOF_STRUCT_MEM]
    /\ Goto(t, "free")
    /\ UNCHANGED <<heap, heap_sem, size, old>>

\* ... and by rt_realloc, of the old block.
FreeOld(t) ==
    /\ pc[t] = "copied"
    /\ Surrender(old[t])
    /\ ptr' = [ptr EXCEPT ![t] = old[t] - SIZEOF_STRUCT_MEM]
    /\ old' = [old EXCEPT ![t] = NoBlock]
    /\ Goto(t, "free")
    /\ UNCHANGED <<heap, heap_sem, size>>

Unused(h, mem) ==
    [h EXCEPT !.used[mem] = FALSE,
              !.lfree = IF mem < @ THEN mem ELSE @,
              !.used_mem = @ - (h.next[mem] - mem)]

Free(t) ==
    /\ pc[t] = "free" /\ Holds(t)
    /\ heap' = PlugHoles(Unused(heap, ptr[t]), ptr[t])
    /\ Release
    /\ Leave(t)
    /\ UNCHANGED given

-----------------------------------------------------------------------------
\* What rt_realloc tests, on the block of area a.
RoomOf(a) == Room(heap, a - SIZEOF_STRUCT_MEM)
ReallocSplits(a, n) == n + SIZEOF_STRUCT_MEM + MIN_SIZE < RoomOf(a)

\* rt_realloc up to rt_sem_take.  A null area or size is rt_malloc or rt_free.
ReallocCall(t, a, n) ==
    /\ Ready(t) /\ InReach(n)
    /\ size' = [size EXCEPT ![t] = Aligned(n)]
    /\ old' = [old EXCEPT ![t] = a]
    /\ Goto(t, "realloc")
    /\ UNCHANGED <<heap, heap_sem, ptr, given>>

Resized(t) == given' = [given EXCEPT ![old[t]] = size[t]]

InRealloc(t) == pc[t] = "realloc" /\ Holds(t)

ReallocSame(t) ==
    /\ InRealloc(t) /\ RoomOf(old[t]) = size[t]
    /\ Resized(t)
    /\ Release
    /\ Leave(t)
    /\ UNCHANGED heap

\* The rest becomes a free block; lfree is as it was, unless it was the block
\* behind the rest.
ReallocShrinks(t) ==
    LET b == old[t] - SIZEOF_STRUCT_MEM
    IN /\ InRealloc(t) /\ ReallocSplits(old[t], size[t])
       /\ heap' = PlugHoles([SplitAt(heap, b, size[t]) EXCEPT
                                 !.used_mem = @ - (Room(heap, b) - size[t])],
                            b + SIZEOF_STRUCT_MEM + size[t])
       /\ Resized(t)
       /\ Release
       /\ Leave(t)

\* The call of rt_malloc.
ReallocMoves(t) ==
    /\ InRealloc(t) /\ RoomOf(old[t]) # size[t] /\ ~ReallocSplits(old[t], size[t])
    /\ Release
    /\ size' = [size EXCEPT ![t] = AtLeastMin(@)]
    /\ Goto(t, "malloc")
    /\ UNCHANGED <<heap, ptr, old, given>>

-----------------------------------------------------------------------------
Call(t) ==
    \/ \E n \in app.asks[t] : MallocCall(t, n) \/ \E a \in Idle : ReallocCall(t, a, n)
    \/ \E a \in Idle : FreeCall(t, a)

Step(t) ==
    \/ Take(t) \/ Search(t) \/ Skip(t) \/ Allocate(t) \/ Advance(t)
    \/ MallocReturn(t) \/ MallocFails(t) \/ FreeOld(t) \/ Free(t)
    \/ ReallocSame(t) \/ ReallocShrinks(t) \/ ReallocMoves(t)

Next == (\E t \in Threads : Call(t) \/ Step(t)) /\ UNCHANGED app

\* A thread in a call of the heap gets the hart in the end.
Fairness == \A t \in Threads : WF_vars(Step(t))

Spec == Init /\ [][Next]_vars /\ Fairness

-----------------------------------------------------------------------------
(* Properties.                                                             *)

Headers == [used  : [Offsets -> BOOLEAN],
            next  : [Offsets -> Offsets \cup {NoBlock}],
            prev  : [Offsets -> Offsets \cup {NoBlock}],
            lfree : Offsets, used_mem : Int]

TypeOK ==
    /\ heap \in Headers
    /\ heap_sem \in Seq(Threads)
    /\ pc \in [Threads -> {"ready", "malloc", "scan", "lowest", "done", "copied",
                           "free", "realloc"}]
    /\ size \in [Threads -> 0..mem_size_aligned]
    /\ ptr \in [Threads -> Offsets \cup {NoBlock}]
    /\ old \in [Threads -> Offsets \cup {NoBlock}]
    /\ DOMAIN given \subseteq Offsets
    /\ given \in [DOMAIN given -> 1..mem_size_aligned]

\* The blocks tile the heap: the next block of each begins where it ends, and
\* points back to it.
Tiled(h) ==
    /\ {0, heap_end} \subseteq Blocks(h)
    /\ h.used[heap_end]
    /\ \A b \in Blocks(h) \ {heap_end} :
          /\ h.next[b] \in Blocks(h) /\ Room(h, b) > 0
          /\ h.next[b] # heap_end => h.prev[h.next[b]] = b
          /\ \A c \in Blocks(h) : c <= b \/ h.next[b] <= c

\* No two neighbours are free: plug_holes leaves no hole in pieces.
Merged(h) ==
    \A b \in Blocks(h) \ {heap_end} : h.used[b] \/ h.used[h.next[b]]

\* An area is the start of the data of a block in use.
AreasFit(h) ==
    \A a \in DOMAIN given :
        LET b == a - SIZEOF_STRUCT_MEM
        IN b \in Blocks(h) /\ h.used[b] /\ given[a] <= Room(h, b)

\* The assertion of rt_malloc (mem.c), whoever moved lfree.
LfreeIsFree(h) ==
    h.lfree \in Blocks(h) /\ (h.lfree = heap_end \/ ~h.used[h.lfree])

\* Whatever the order of the calls of the threads, the headers tile the heap
\* without unmerged holes, the areas of the callers are inside the data of
\* blocks in use, and between two calls lfree is a free block.
HeapIsSound ==
    /\ TypeOK
    /\ Tiled(heap) /\ Merged(heap) /\ AreasFit(heap)
    /\ heap_sem = <<>> => LfreeIsFree(heap)

\* used_mem, which list_mem reports, is what the blocks in use take.
UsedMemIsExact ==
    heap.used_mem = MapThenSumSet(LAMBDA b : heap.next[b] - b,
                        {b \in Blocks(heap) \ {heap_end} : heap.used[b]})

\* Callers have areas inside the heap that do not overlap, each from the return
\* of rt_malloc to the call of rt_free, with rt_realloc in between.
Abstract == INSTANCE Allocator WITH
    Memory <- 0..heap_end - 1, Sizes <- 1..mem_size_aligned

IsAllocator == Abstract!Spec

\* Every call returns: searches end, and the token is not lost.
CallsReturn == \A t \in Threads : pc[t] # "ready" ~> pc[t] = "ready"
=============================================================================
