------------------------------- MODULE Memory -------------------------------
(* The heap of the system: rt_malloc, rt_realloc and rt_free as mem.c, slab.c *)
(* or memheap.c define them.  rtconfig.h chooses one of the files; here the   *)
(* application names it (app.heap), and all share the callers and what they   *)
(* are promised.                                                              *)
EXTENDS HeapCalls

CONSTANTS
    SIZEOF_STRUCT_MEM, MIN_SIZE, mem_size_aligned,
    RT_MM_PAGE_SIZE, SIZEOF_MEMUSAGE, SIZEOF_SLAB_ZONE, ZoneSize,
    ZALLOC_ZONE_LIMIT, ZONE_RELEASE_THRESH,
    start_addr, pool_size, RT_MEMHEAP_SIZE, RT_MEMHEAP_MINIALLOC

Small == INSTANCE Heap
Slab  == INSTANCE Slab
Pools == INSTANCE MemHeap

ASSUME MemoryAssumption ==
    Small!HeapAssumption /\ Slab!SlabAssumption /\ Pools!MemHeapAssumption

Uses(f) == app.heap = f

Init == \/ Small!Init /\ Uses("mem")
        \/ Slab!Init /\ Uses("slab")
        \/ Pools!Init /\ Uses("memheap")

Call(t) == \/ Uses("mem") /\ Small!Call(t)
           \/ Uses("slab") /\ Slab!Call(t)
           \/ Uses("memheap") /\ Pools!Call(t)

Step(t) == \/ Uses("mem") /\ Small!Step(t)
           \/ Uses("slab") /\ Slab!Step(t)
           \/ Uses("memheap") /\ Pools!Step(t)

Next == (\E t \in Threads : Call(t) \/ Step(t)) /\ UNCHANGED app

\* A thread in a call of the heap gets the hart in the end.
Fairness == \A t \in Threads : WF_vars(Step(t) /\ UNCHANGED app)

Spec == Init /\ [][Next]_vars /\ Fairness

-----------------------------------------------------------------------------
(* Properties.                                                             *)

\* Whatever the order of the calls of the threads, what mem.c keeps tiles its
\* memory without unmerged holes, and areas are inside blocks in use, ...
HeapIsSound == Uses("mem") => Small!HeapIsSound

\* ... each chunk of slab.c is free once or with one caller, on the list it
\* belongs to, and so are pages, although they are asked for without the lock, ...
SlabIsSound == Uses("slab") => Slab!SlabIsSound

\* ... and the items of memheap.c tile its memory heaps, through merges to both
\* sides and reallocation in place.
MemHeapIsSound == Uses("memheap") => Pools!MemHeapIsSound

\* used_mem, or available_size, which the listing commands report and memheap.c
\* decides by, is exact, for blocks cut, grown, shrunk and taken whole.
UsedMemIsExact ==
    /\ Uses("mem") => Small!UsedMemIsExact
    /\ Uses("slab") => Slab!SlabUsedIsExact
    /\ Uses("memheap") => Pools!AvailableIsExact

\* The memory application f runs on.
Addresses(f) ==
    CASE f.heap = "mem"     -> 0..mem_size_aligned + SIZEOF_STRUCT_MEM - 1
      [] f.heap = "slab"    -> 0..f.pages * RT_MM_PAGE_SIZE - 1
      [] f.heap = "memheap" -> UNION {start_addr[m]..start_addr[m] + pool_size[m] - 1
                                         : m \in DOMAIN start_addr}

Abstract(f) == INSTANCE Allocator WITH Memory <- Addresses(f), Sizes <- Nat \ {0}

\* Callers have areas inside the heap that do not overlap, each from the return
\* of rt_malloc to the call of rt_free, with rt_realloc in between: all three
\* files implement Allocator.
IsAllocator ==
    /\ \A f \in Applications : Abstract(f)!Init
    /\ [][\A f \in Applications : f = app => Abstract(f)!Next]_given

\* Every call returns: searches end, and no way out keeps the semaphore.
CallsReturn == \A t \in Threads : pc[t] # "ready" ~> pc[t] = "ready"
=============================================================================
