------------------------------ MODULE MemHeap ------------------------------
(***************************************************************************)
(* The heap of src/src/memheap.c: memory heaps, each with its lock, a ring *)
(* of items and a list of the free ones, and the rt_malloc that tries one  *)
(* after the other.                                                        *)
(*                                                                         *)
(* Memory heaps are numbered from 1, the _heap of the system, in the order *)
(* rt_malloc tries them.  heap.items is what stands at the addresses that  *)
(* hold an item: what a merge makes of one is data.  While rt_malloc asks, *)
(* ptr[t] is the memory heap it asks.                                      *)
(***************************************************************************)
EXTENDS HeapCalls, SequencesExt

CONSTANTS
    start_addr,            \* of each memory heap, and
    pool_size,             \*   its size
    RT_MEMHEAP_SIZE,
    RT_MEMHEAP_MINIALLOC

MemHeaps == DOMAIN start_addr
System == 1

\* The memories that boards hand to rt_memheap_init have room for an item and a tail,
\* and do not overlap.
MemHeapAssumption ==
    /\ start_addr \in Seq(Nat) /\ pool_size \in [MemHeaps -> Nat] /\ System \in MemHeaps
    /\ RT_MEMHEAP_SIZE \in Nat \ {0} /\ RT_MEMHEAP_MINIALLOC \in Nat \ {0}
    /\ \A m \in MemHeaps : pool_size[m] > 2 * RT_MEMHEAP_SIZE
    /\ \A m, n \in MemHeaps : \/ m = n
                               \/ start_addr[m] + pool_size[m] <= start_addr[n]
                               \/ start_addr[n] + pool_size[n] <= start_addr[m]

TailOf(m) == start_addr[m] + pool_size[m] - RT_MEMHEAP_SIZE

AtLeastMin(n) == IF n < RT_MEMHEAP_MINIALLOC THEN RT_MEMHEAP_MINIALLOC ELSE n

\* What is at the address of an item.
Item(used, next, prev, m) == [used |-> used, next |-> next, prev |-> prev, pool |-> m]

MemItemSize(h, i) == h.items[i].next - i - RT_MEMHEAP_SIZE

-----------------------------------------------------------------------------
\* rt_memheap_init of all: one free item, and a tail in use.
Init ==
    /\ CallsInit
    /\ heap = [items |-> [i \in {start_addr[m] : m \in MemHeaps}
                                \cup {TailOf(m) : m \in MemHeaps} |->
                             LET m == CHOOSE n \in MemHeaps : i \in {start_addr[n], TailOf(n)}
                             IN IF i = TailOf(m)
                                THEN Item(TRUE, start_addr[m], start_addr[m], m)
                                ELSE Item(FALSE, TailOf(m), TailOf(m), m)],
               free  |-> [m \in MemHeaps |-> <<start_addr[m]>>],
               available |-> [m \in MemHeaps |-> pool_size[m] - 2 * RT_MEMHEAP_SIZE]]
    /\ heap_sem = [m \in MemHeaps |-> <<>>]

\* The memory heap that t is at.
PoolOf(t) == CASE pc[t] = "alloc" -> ptr[t]
               [] pc[t] = "free"  -> heap.items[ptr[t]].pool
               [] OTHER           -> heap.items[old[t] - RT_MEMHEAP_SIZE].pool

At(t, labels, m) == pc[t] \in labels /\ PoolOf(t) = m

\* rt_sem_take and rt_sem_release of the lock of memory heap m.
Take(t, m) ==
    /\ At(t, {"alloc", "ownalloc", "grow", "shrink", "free"}, m)
    /\ pc[t] \in {"alloc", "ownalloc"} => size[t] < heap.available[m]
    /\ t \notin Range(heap_sem[m])
    /\ heap_sem' = [heap_sem EXCEPT ![m] = Append(@, t)]
    /\ UNCHANGED <<heap, pc, size, ptr, old, given>>

HasLock(t, m) == heap_sem[m] # <<>> /\ Head(heap_sem[m]) = t
Unlock(m) == heap_sem' = [heap_sem EXCEPT ![m] = Tail(@)]

-----------------------------------------------------------------------------
(* The ring of items.                                                      *)

\* The item i is cut behind n bytes, and what is left of it is a free item at the
\* head of the free list.
CutBehind(h, i, n) ==
    LET new == i + RT_MEMHEAP_SIZE + n
        m   == h.items[i].pool
        end == h.items[i].next
    IN [h EXCEPT !.items = [a \in DOMAIN h.items \cup {new} |->
                     CASE a = new -> Item(FALSE, end, i, m)
                       [] a = i   -> [h.items[i] EXCEPT !.next = new]
                       [] a = end -> [h.items[end] EXCEPT !.prev = new]
                       [] OTHER   -> h.items[a]],
                 !.free[m] = <<new>> \o @]

\* Mutant: the item taken in stays in the free list.
TakenInListed(h, i) ==
    LET n == h.items[i].next
    IN [h EXCEPT !.items = [a \in DOMAIN h.items \ {n} |->
                     CASE a = i               -> [h.items[i] EXCEPT !.next = h.items[n].next]
                       [] a = h.items[n].next -> [h.items[a] EXCEPT !.prev = i]
                       [] OTHER               -> h.items[a]]]

\* The item i takes in the next one, which leaves the free list if it is there.
TakenIn(h, i) ==
    LET n == h.items[i].next
        m == h.items[i].pool
    IN [h EXCEPT !.items = [a \in DOMAIN h.items \ {n} |->
                     CASE a = i               -> [h.items[i] EXCEPT !.next = h.items[n].next]
                       [] a = h.items[n].next -> [h.items[a] EXCEPT !.prev = i]
                       [] OTHER               -> h.items[a]],
                 !.free[m] = RemoveFirst(@, n)]

Counted(h, m, n) == [h EXCEPT !.available[m] = @ + n]

-----------------------------------------------------------------------------
\* rt_malloc asks the heap of the system first.
MallocCall(t, n) ==
    /\ Ready(t) /\ MoreAreas
    /\ size' = [size EXCEPT ![t] = AtLeastMin(Aligned(n))]
    /\ ptr' = [ptr EXCEPT ![t] = System]
    /\ Goto(t, "alloc")
    /\ UNCHANGED <<heap, heap_sem, old, given>>

\* The first item of the free list that is large enough, or 0.
FirstFit(m, n) == SelectInSeq(heap.free[m], LAMBDA i : MemItemSize(heap, i) >= n)

\* It is cut, or taken whole when the rest would be too small.
AllocFrom(m, i, n) ==
    LET cut  == MemItemSize(heap, i) >= n + RT_MEMHEAP_SIZE + RT_MEMHEAP_MINIALLOC
        left == IF cut
                THEN Counted(CutBehind(heap, i, n), m, 0 - n - RT_MEMHEAP_SIZE)
                ELSE Counted(heap, m, 0 - MemItemSize(heap, i))
    IN [left EXCEPT !.free[m] = RemoveFirst(@, i), !.items[i].used = TRUE]

\* rt_memheap_alloc finds an item.  rt_realloc goes on to copy and to free.
Alloc(t, m) ==
    /\ At(t, {"alloc", "ownalloc"}, m)
    /\ HasLock(t, m) /\ FirstFit(m, size[t]) # 0
    /\ LET i == heap.free[m][FirstFit(m, size[t])]
       IN /\ heap' = AllocFrom(m, i, size[t])
          /\ HandOver(i + RT_MEMHEAP_SIZE, size[t])
    /\ IF old[t] = NoBlock
       THEN Leave(t) ELSE Goto(t, "copied") /\ UNCHANGED <<size, ptr, old>>
    /\ Unlock(m)

\* It does not, or sees in available_size, before it takes the lock, that it will
\* not: the next memory heap is asked, and after the last RT_NULL is returned.
\* rt_memheap_realloc asks its own only, and rt_realloc then all of them.
AskNext(t, m) ==
    /\ At(t, {"alloc", "ownalloc"}, m)
    /\ IF t \in Range(heap_sem[m])
       THEN HasLock(t, m) /\ FirstFit(m, size[t]) = 0 /\ Unlock(m)
       ELSE size[t] >= heap.available[m] /\ UNCHANGED heap_sem
    /\ IF pc[t] = "ownalloc" \/ m + 1 \in MemHeaps
       THEN /\ ptr' = [ptr EXCEPT ![t] = IF pc[t] = "ownalloc" THEN System ELSE m + 1]
            /\ Goto(t, "alloc")
            /\ UNCHANGED <<size, old>>
       ELSE Leave(t)
    /\ UNCHANGED <<heap, given>>

-----------------------------------------------------------------------------
\* rt_free up to the lock, by whoever has the area or by rt_realloc.
FreeArea(t, a) ==
    /\ Surrender(a)
    /\ ptr' = [ptr EXCEPT ![t] = a - RT_MEMHEAP_SIZE]
    /\ Goto(t, "free")
    /\ UNCHANGED <<heap, heap_sem, size>>

FreeCall(t, a) == Ready(t) /\ FreeArea(t, a) /\ UNCHANGED old

FreeOld(t) ==
    /\ pc[t] = "copied"
    /\ FreeArea(t, old[t])
    /\ old' = [old EXCEPT ![t] = NoBlock]

\* The item joins a free one before it, which is in the free list already, or is
\* linked there itself; then it takes in a free one behind it.
Freed(h, i) ==
    LET m    == h.items[i].pool
        prev == h.items[i].prev
        left == ~h.items[prev].used
        at   == IF left THEN prev ELSE i
        one  == Counted([h EXCEPT !.items[i].used = FALSE], m, MemItemSize(h, i))
        two  == IF left THEN Counted(TakenIn(one, prev), m, RT_MEMHEAP_SIZE) ELSE one
        all  == IF ~two.items[two.items[at].next].used
                THEN Counted(TakenIn(two, at), m, RT_MEMHEAP_SIZE) ELSE two
    IN IF left THEN all ELSE [all EXCEPT !.free[m] = <<i>> \o @]

Free(t, m) ==
    /\ At(t, {"free"}, m) /\ HasLock(t, m)
    /\ heap' = Freed(heap, ptr[t])
    /\ Unlock(m)
    /\ Leave(t)
    /\ UNCHANGED given

-----------------------------------------------------------------------------
\* rt_memheap_realloc: the size of the item is read without the lock.  Nothing is
\* done when less than an item would be left.
ReallocCall(t, a, n) ==
    LET i    == a - RT_MEMHEAP_SIZE
        new  == AtLeastMin(Aligned(n))
        have == MemItemSize(heap, i)
    IN /\ Ready(t)
       /\ IF new <= have /\ new + RT_MEMHEAP_SIZE + RT_MEMHEAP_MINIALLOC >= have
          THEN /\ given' = [given EXCEPT ![a] = new]
               /\ UNCHANGED <<pc, size, old>>
          ELSE /\ MoreAreas
               /\ size' = [size EXCEPT ![t] = new]
               /\ old' = [old EXCEPT ![t] = a]
               /\ Goto(t, IF new > have THEN "grow" ELSE "shrink")
               /\ UNCHANGED given
       /\ UNCHANGED <<heap, heap_sem, ptr>>

\* A free item behind it that leaves one more than the minimal size.
Grows(h, i, n) ==
    LET next == h.items[i].next
    IN /\ ~h.items[next].used
       /\ MemItemSize(h, next) + MemItemSize(h, i) > n + RT_MEMHEAP_MINIALLOC

Resized(t) == given' = [given EXCEPT ![old[t]] = size[t]]

\* The free item is taken in and what is not needed of it is made a new one.
ReallocGrows(t, m) ==
    LET i == old[t] - RT_MEMHEAP_SIZE
    IN /\ At(t, {"grow"}, m) /\ HasLock(t, m) /\ Grows(heap, i, size[t])
       /\ heap' = CutBehind(TakenIn(Counted(heap, m, MemItemSize(heap, i) - size[t]), i),
                            i, size[t])
       /\ Resized(t)
       /\ Unlock(m)
       /\ Leave(t)

ReallocMoves(t, m) ==
    /\ At(t, {"grow"}, m) /\ HasLock(t, m)
    /\ ~Grows(heap, old[t] - RT_MEMHEAP_SIZE, size[t])
    /\ Unlock(m)
    /\ Goto(t, "ownalloc")
    /\ UNCHANGED <<heap, size, ptr, old, given>>

\* The item is cut, and the rest takes in a free item behind it.
ReallocShrinks(t, m) ==
    LET i    == old[t] - RT_MEMHEAP_SIZE
        new  == i + RT_MEMHEAP_SIZE + size[t]
        cut  == CutBehind(heap, i, size[t])
        next == cut.items[new].next
        all  == IF cut.items[next].used THEN cut
                ELSE Counted(TakenIn(cut, new), m, 0 - MemItemSize(cut, next))
    IN /\ At(t, {"shrink"}, m) /\ HasLock(t, m)
       /\ heap' = Counted(all, m, MemItemSize(all, new))
       /\ Resized(t)
       /\ Unlock(m)
       /\ Leave(t)

-----------------------------------------------------------------------------
Call(t) ==
    \/ \E n \in app.asks[t] : MallocCall(t, n) \/ \E a \in Idle : ReallocCall(t, a, n)
    \/ \E a \in Idle : FreeCall(t, a)

Step(t) ==
    \/ FreeOld(t)
    \/ \E m \in MemHeaps : \/ Take(t, m) \/ Alloc(t, m) \/ AskNext(t, m) \/ Free(t, m)
                           \/ ReallocGrows(t, m) \/ ReallocMoves(t, m)
                           \/ ReallocShrinks(t, m)

Next == (\E t \in Threads : Call(t) \/ Step(t)) /\ UNCHANGED app

Spec == Init /\ [][Next]_vars

-----------------------------------------------------------------------------
(* Properties.                                                             *)

ItemsOf(h, m) == {i \in DOMAIN h.items : h.items[i].pool = m}

\* The items of a memory heap are a ring that tiles its memory, ...
Tiled(h, m) ==
    \A i \in ItemsOf(h, m) :
        LET item == h.items[i] IN
        /\ item.next \in ItemsOf(h, m) /\ h.items[item.next].prev = i
        /\ i = TailOf(m) \/ \A j \in ItemsOf(h, m) : j <= i \/ item.next <= j

\* ... no two free ones are neighbours, and the free list has each free one once.
FreeListed(h, m) ==
    /\ IsInjective(h.free[m])
    /\ Range(h.free[m]) = {i \in ItemsOf(h, m) : ~h.items[i].used}
    /\ \A i \in Range(h.free[m]) : h.items[h.items[i].next].used

\* Whatever the calls of the threads and the memory heap they are served by, its
\* items are sound and an area of a caller is inside an item in use.
MemHeapIsSound ==
    /\ \A m \in MemHeaps : Tiled(heap, m) /\ FreeListed(heap, m)
    /\ \A a \in DOMAIN given :
          LET i == a - RT_MEMHEAP_SIZE
          IN /\ i \in DOMAIN heap.items /\ heap.items[i].used
             /\ given[a] <= MemItemSize(heap, i)

\* available_size, by which a call decides without the lock, is what is free.
AvailableIsExact ==
    \A m \in MemHeaps : heap.available[m] =
        MapThenSumSet(LAMBDA i : MemItemSize(heap, i), Range(heap.free[m]))
=============================================================================
