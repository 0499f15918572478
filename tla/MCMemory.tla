------------------------------ MODULE MCMemory ------------------------------
(* Instances of Memory for TLC.  For slab.c two threads ask for chunks and    *)
(* pages, and one thread fills three zones, so that one goes back to the page *)
(* allocator; for memheap.c the second memory heap serves what the first      *)
(* cannot.                                                                    *)
EXTENDS Memory

CONSTANTS t1, t2

Ask(heapName, sizes1, sizes2, areas, pages) ==
    [heap |-> heapName, asks |-> [t \in Threads |-> IF t = t1 THEN sizes1 ELSE sizes2],
     areas |-> areas, pages |-> pages]

Demands == {Ask("mem", {3, 11, 40}, {3, 11, 40}, 9, 0),
            Ask("slab", {250}, {300}, 2, 10), Ask("slab", {250}, {250}, 2, 10),
            Ask("slab", {250}, {}, 7, 13), Ask("slab", {230, 300}, {}, 2, 10),
            Ask("memheap", {3, 9, 16}, {3, 9}, 2, 0)}

Starts == <<0, 40>>
PoolSizes == <<28, 20>>
=============================================================================
