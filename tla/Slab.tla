-------------------------------- MODULE Slab --------------------------------
(***************************************************************************)
(* The heap of src/src/slab.c: a page allocator, and zones of pages that   *)
(* are cut into chunks of one size.  Requests of zone_limit bytes and more *)
(* get pages.                                                              *)
(*                                                                         *)
(* heap.pages is rt_page_list, <<address, pages>> by address; the lists of *)
(* zones and of free chunks are sequences.  One step is what a thread does *)
(* between a call of rt_sem_take and the next of rt_sem_release; rt_malloc *)
(* and rt_free release the semaphore before they call the page allocator,  *)
(* which takes it again.                                                   *)
(***************************************************************************)
EXTENDS HeapCalls, SequencesExt

CONSTANTS
    RT_MM_PAGE_SIZE,
    SIZEOF_MEMUSAGE,
    SIZEOF_SLAB_ZONE,
    ZoneSize,            \* ZALLOC_MIN_ZONE_SIZE: the heap is a small one
    ZALLOC_ZONE_LIMIT,
    ZONE_RELEASE_THRESH

zone_page_cnt == ZoneSize \div RT_MM_PAGE_SIZE
zone_limit == Min({ZoneSize \div 4, ZALLOC_ZONE_LIMIT})
NZONES == 72
MIN_CHUNK_SIZE == 8

NPages == app.pages      \* the pages of the heap
Pages == {p * RT_MM_PAGE_SIZE : p \in 0..NPages - 1}

SlabAssumption ==
    /\ RT_MM_PAGE_SIZE \in Nat \ {0}
    /\ ZoneSize % RT_MM_PAGE_SIZE = 0 /\ zone_page_cnt > 0
    /\ SIZEOF_MEMUSAGE \in Nat /\ SIZEOF_SLAB_ZONE \in Nat
    /\ ZONE_RELEASE_THRESH \in Nat

-----------------------------------------------------------------------------
(* The page allocator.                                                     *)

PageEnd(b) == b[1] + b[2] * RT_MM_PAGE_SIZE

\* rt_page_alloc, inside the lock: the address of the first fit or NoBlock, ...
FirstFit(pages, n) == SelectInSeq(pages, LAMBDA b : b[2] >= n)

PageOf(pages, n) ==
    LET i == FirstFit(pages, n) IN IF i = 0 THEN NoBlock ELSE pages[i][1]

\* ... and what it leaves.
PagesWithout(pages, n) ==
    LET i == FirstFit(pages, n) IN
    IF i = 0 THEN pages
    ELSE IF pages[i][2] = n THEN RemoveAt(pages, i)
    ELSE [pages EXCEPT ![i] = <<@[1] + n * RT_MM_PAGE_SIZE, @[2] - n>>]

\* rt_page_free, inside the lock: n pages at a are joined to those that end
\* there, and these to the next ones, or joined to those that begin behind them,
\* or linked in their place.
PagesWith(pages, a, n) ==
    LET new    == <<a, n>>
        before == SelectInSeq(pages, LAMBDA b : PageEnd(b) = a)
        behind == SelectInSeq(pages, LAMBDA b : b[1] >= PageEnd(new))
    IN IF before # 0
       THEN LET grown == [pages EXCEPT ![before] = <<@[1], @[2] + n>>]
            IN IF before < Len(pages) /\ PageEnd(grown[before]) = pages[before + 1][1]
               THEN RemoveAt([grown EXCEPT ![before] =
                                  <<@[1], @[2] + pages[before + 1][2]>>], before + 1)
               ELSE grown
       ELSE IF behind = 0 THEN Append(pages, new)
       ELSE IF pages[behind][1] = PageEnd(new)
            THEN [pages EXCEPT ![behind] = <<a, n + @[2]>>]
            ELSE InsertAt(pages, behind, new)

-----------------------------------------------------------------------------
(* Chunk sizes and zones.                                                  *)

\* The branches of zoneindex: sizes below the first number are rounded up to the
\* second; the zones of a branch are counted from the third.
Classes == << <<128, 8, -1>>, <<256, 16, 7>>, <<512, 32, 15>>, <<1024, 64, 23>>,
              <<2048, 128, 31>>, <<4096, 256, 39>>, <<8192, 512, 47>>,
              <<16384, 1024, 55>> >>

Class(n) == Classes[SelectInSeq(Classes, LAMBDA c : n < c[1])]

ChunkSize(n) == Up(n, Class(n)[2])
ZoneIndex(n) == ChunkSize(n) \div Class(n)[2] + Class(n)[3]

PowerOfTwo(n) == \E k \in 0..14 : n = 2^k

\* Where the chunks of a zone begin.
Offset(n) == Up(SIZEOF_SLAB_ZONE, IF PowerOfTwo(n) THEN n ELSE MIN_CHUNK_SIZE)

NMax(n) == (ZoneSize - Offset(n)) \div n

\* A new zone z for chunks of n bytes, whose first chunk is taken.
FreshZone(z, n) == [nfree |-> NMax(n) - 1, nmax |-> NMax(n), baseptr |-> z + Offset(n),
                    uindex |-> 0, chunksize |-> n, freechunk |-> <<>>]

\* Links it to its zone array.
WithZone(h, z, n) ==
    [h EXCEPT !.zones = [x \in DOMAIN @ \cup {z} |->
                            IF x = z THEN FreshZone(z, n) ELSE @[x]],
              !.zone_array[ZoneIndex(n)] = <<z>> \o @,
              !.used_mem = @ + n]

\* What btokup(z) says of the pages of a zone.
InZone(usage, z) ==
    [p \in Pages |-> IF z <= p /\ p < z + ZoneSize
                     THEN <<"small", (p - z) \div RT_MM_PAGE_SIZE>> ELSE usage[p]]

Unused(usage, z) ==
    [p \in Pages |-> IF z <= p /\ p < z + ZoneSize THEN <<"free", 0>> ELSE usage[p]]

PageAt(a) == a - (a % RT_MM_PAGE_SIZE)

ZoneOf(a) == PageAt(a) - heap.usage[PageAt(a)][2] * RT_MM_PAGE_SIZE

-----------------------------------------------------------------------------
\* rt_system_heap_init: all pages are free, but those of memusage.
MemusagePages == Up(NPages * SIZEOF_MEMUSAGE, RT_MM_PAGE_SIZE) \div RT_MM_PAGE_SIZE

Init ==
    /\ CallsInit
    /\ heap = [pages      |-> PagesWithout(PagesWith(<<>>, 0, NPages), MemusagePages),
               usage      |-> [p \in Pages |-> <<"free", 0>>],
               zones      |-> [z \in {} |-> 0],
               zone_array |-> [i \in 0..NZONES - 1 |-> <<>>],
               zone_free  |-> <<>>, zone_free_cnt |-> 0, used_mem |-> 0]
    /\ heap_sem = <<>>

Take(t) == TakeAt(t, {"pages", "large", "chunk", "zonepages", "zone",
                      "freelarge", "freechunk", "freepages"})

\* rt_malloc with n bytes up to the first rt_sem_take.
Malloc(t, n) ==
    IF n >= zone_limit
    THEN /\ size' = [size EXCEPT ![t] = Up(n, RT_MM_PAGE_SIZE)]
         /\ Goto(t, "pages")
    ELSE /\ size' = [size EXCEPT ![t] = ChunkSize(n)]
         /\ Goto(t, "chunk")

MallocCall(t, n) ==
    /\ Ready(t) /\ MoreAreas
    /\ Malloc(t, n)
    /\ UNCHANGED <<heap, heap_sem, ptr, old, given>>

\* The pages of a large request, or of a zone, come from rt_page_alloc; memusage
\* of a large one is written before the semaphore is taken again.
PageAlloc(t) ==
    /\ pc[t] \in {"pages", "zonepages"} /\ Holds(t)
    /\ LET n == IF pc[t] = "pages" THEN size[t] \div RT_MM_PAGE_SIZE ELSE zone_page_cnt
           a == PageOf(heap.pages, n)
       IN IF a = NoBlock
          THEN Leave(t) /\ UNCHANGED heap
          ELSE /\ heap' = [heap EXCEPT !.pages = PagesWithout(@, n),
                              !.usage = IF pc[t] = "pages"
                                        THEN [@ EXCEPT ![a] = <<"large", n>>] ELSE @]
               /\ ptr' = [ptr EXCEPT ![t] = a]
               /\ Goto(t, IF pc[t] = "pages" THEN "large" ELSE "zone")
               /\ UNCHANGED <<size, old>>
    /\ Release
    /\ UNCHANGED given

\* rt_malloc returns area a; rt_realloc copies to it and frees the old one.
MallocReturn(t, a) ==
    /\ HandOver(a, size[t])
    /\ IF old[t] = NoBlock
       THEN Leave(t) ELSE Goto(t, "copied") /\ UNCHANGED <<size, ptr, old>>

CountLarge(t) ==
    /\ pc[t] = "large" /\ Holds(t)
    /\ heap' = [heap EXCEPT !.used_mem = @ + size[t]]
    /\ MallocReturn(t, ptr[t])
    /\ Release

\* Mutant: a full zone stays in the array.
ArrayAfterUseKeeps(i) == heap.zone_array

\* A zone that has no more free chunk leaves its array.
ArrayAfterUse(i) ==
    IF heap.zones[Head(heap.zone_array[i])].nfree = 1
    THEN [heap.zone_array EXCEPT ![i] = Tail(@)] ELSE heap.zone_array

\* The first zone of the array has a chunk: never used before, ...
FreshChunk(t) ==
    /\ pc[t] = "chunk" /\ Holds(t)
    /\ LET i    == ZoneIndex(size[t])
           z    == Head(heap.zone_array[i])
           zone == heap.zones[z]
       IN /\ heap.zone_array[i] # <<>> /\ zone.uindex + 1 # zone.nmax
          /\ heap' = [heap EXCEPT !.zone_array = ArrayAfterUse(i),
                                  !.zones[z].nfree = @ - 1, !.zones[z].uindex = @ + 1,
                                  !.used_mem = @ + zone.chunksize]
          /\ MallocReturn(t, zone.baseptr + (zone.uindex + 1) * size[t])
    /\ Release

\* ... or freed before.
UsedChunk(t) ==
    /\ pc[t] = "chunk" /\ Holds(t)
    /\ LET i    == ZoneIndex(size[t])
           z    == Head(heap.zone_array[i])
           zone == heap.zones[z]
       IN /\ heap.zone_array[i] # <<>> /\ zone.uindex + 1 = zone.nmax
          /\ heap' = [heap EXCEPT !.zone_array = ArrayAfterUse(i),
                                  !.zones[z].nfree = @ - 1, !.zones[z].freechunk = Tail(@),
                                  !.used_mem = @ + zone.chunksize]
          /\ MallocReturn(t, Head(zone.freechunk))
    /\ Release

\* There is no such zone: a free one is taken, ...
ZoneReused(t) ==
    /\ pc[t] = "chunk" /\ Holds(t)
    /\ heap.zone_array[ZoneIndex(size[t])] = <<>> /\ heap.zone_free # <<>>
    /\ LET z == Head(heap.zone_free) IN
       /\ heap' = WithZone([heap EXCEPT !.zone_free = Tail(@), !.zone_free_cnt = @ - 1],
                           z, size[t])
       /\ MallocReturn(t, z + Offset(size[t]))
    /\ Release

\* ... or one is asked of the page allocator, ...
ZoneWanted(t) ==
    /\ pc[t] = "chunk" /\ Holds(t)
    /\ heap.zone_array[ZoneIndex(size[t])] = <<>> /\ heap.zone_free = <<>>
    /\ Goto(t, "zonepages")
    /\ Release
    /\ UNCHANGED <<heap, size, ptr, old, given>>

\* ... whatever other threads have linked meanwhile.
ZoneNew(t) ==
    /\ pc[t] = "zone" /\ Holds(t)
    /\ heap' = WithZone([heap EXCEPT !.usage = InZone(@, ptr[t])], ptr[t], size[t])
    /\ MallocReturn(t, ptr[t] + Offset(size[t]))
    /\ Release

-----------------------------------------------------------------------------
\* rt_free up to rt_sem_take, by whoever has the area or by rt_realloc: what it
\* is, is read without the semaphore.
FreeArea(t, a) ==
    /\ Surrender(a)
    /\ ptr' = [ptr EXCEPT ![t] = a]
    /\ Goto(t, IF heap.usage[PageAt(a)][1] = "large" THEN "freelarge" ELSE "freechunk")
    /\ UNCHANGED <<heap, heap_sem, size>>

FreeCall(t, a) == Ready(t) /\ FreeArea(t, a) /\ UNCHANGED old

FreeOld(t) ==
    /\ pc[t] = "copied"
    /\ FreeArea(t, old[t])
    /\ old' = [old EXCEPT ![t] = NoBlock]

\* Pages at a go back to the page allocator with the next lock.
GiveBack(t, a, n) ==
    /\ ptr' = [ptr EXCEPT ![t] = a]
    /\ size' = [size EXCEPT ![t] = n * RT_MM_PAGE_SIZE]
    /\ Goto(t, "freepages")
    /\ UNCHANGED old

FreeLarge(t) ==
    /\ pc[t] = "freelarge" /\ Holds(t)
    /\ LET n == heap.usage[ptr[t]][2] IN
       /\ heap' = [heap EXCEPT !.usage[ptr[t]] = <<"large", 0>>,
                               !.used_mem = @ - n * RT_MM_PAGE_SIZE]
       /\ GiveBack(t, ptr[t], n)
    /\ Release
    /\ UNCHANGED given

FreePages(t) ==
    /\ pc[t] = "freepages" /\ Holds(t)
    /\ heap' = [heap EXCEPT !.pages = PagesWith(@, ptr[t], size[t] \div RT_MM_PAGE_SIZE)]
    /\ Release
    /\ Leave(t)
    /\ UNCHANGED given

\* A chunk is linked to its zone z and z to its array if it was full.
ChunkFreed(t, z) ==
    [heap.zones[z] EXCEPT !.freechunk = <<ptr[t]>> \o @, !.nfree = @ + 1]

\* A zone that is all free is spare when its array has others.
Spare(z) ==
    /\ heap.zones[z].nfree + 1 = heap.zones[z].nmax
    /\ Len(heap.zone_array[ZoneIndex(heap.zones[z].chunksize)]) > 1

FreeChunk(t) ==
    /\ pc[t] = "freechunk" /\ Holds(t) /\ ~Spare(ZoneOf(ptr[t]))
    /\ LET z    == ZoneOf(ptr[t])
           zone == heap.zones[z]
       IN heap' = [heap EXCEPT
                      !.zones[z] = ChunkFreed(t, z),
                      !.zone_array[ZoneIndex(zone.chunksize)] =
                          IF zone.nfree = 0 THEN <<z>> \o @ ELSE @,
                      !.used_mem = @ - zone.chunksize]
    /\ Leave(t)
    /\ Release
    /\ UNCHANGED given

\* A spare zone goes to the free zones, or to the page allocator when there are
\* enough of these.
FreeZone(t) ==
    /\ pc[t] = "freechunk" /\ Holds(t) /\ Spare(ZoneOf(ptr[t]))
    /\ LET z    == ZoneOf(ptr[t])
           n    == heap.zones[z].chunksize
           kept == heap.zone_free_cnt < ZONE_RELEASE_THRESH
       IN /\ heap' = [heap EXCEPT
                         !.zone_array[ZoneIndex(n)] = RemoveFirst(@, z),
                         !.zones = Restrict(@, DOMAIN @ \ {z}),
                         !.zone_free = IF kept THEN <<z>> \o @ ELSE @,
                         !.zone_free_cnt = IF kept THEN @ + 1 ELSE @,
                         !.usage = IF kept THEN @ ELSE Unused(@, z),
                         !.used_mem = @ - n]
          /\ IF kept THEN Leave(t) ELSE GiveBack(t, z, zone_page_cnt)
    /\ Release
    /\ UNCHANGED given

-----------------------------------------------------------------------------
\* rt_realloc: a chunk of the same size stays, else it is rt_malloc, a copy and
\* rt_free.
ReallocCall(t, a, n) ==
    /\ Ready(t)
    /\ LET small == heap.usage[PageAt(a)][1] = "small" IN
       IF small /\ heap.zones[ZoneOf(a)].chunksize = ChunkSize(n)
       THEN UNCHANGED <<pc, size, old>>
       ELSE /\ MoreAreas
            /\ Malloc(t, IF small THEN ChunkSize(n) ELSE n)
            /\ old' = [old EXCEPT ![t] = a]
    /\ UNCHANGED <<heap, heap_sem, ptr, given>>

Call(t) ==
    \/ \E n \in app.asks[t] : MallocCall(t, n) \/ \E a \in Idle : ReallocCall(t, a, n)
    \/ \E a \in Idle : FreeCall(t, a)

Step(t) ==
    \/ Take(t) \/ PageAlloc(t) \/ CountLarge(t) \/ FreshChunk(t) \/ UsedChunk(t)
    \/ ZoneReused(t) \/ ZoneWanted(t) \/ ZoneNew(t) \/ FreeOld(t) \/ FreeLarge(t) \/ FreePages(t)
    \/ FreeChunk(t) \/ FreeZone(t)

Next == (\E t \in Threads : Call(t) \/ Step(t)) /\ UNCHANGED app

Spec == Init /\ [][Next]_vars

-----------------------------------------------------------------------------
(* Properties.                                                             *)

\* The free chunks of a zone: never used, or in its list.
FreshChunks(zone) ==
    {zone.baseptr + i * zone.chunksize : i \in zone.uindex + 1..zone.nmax - 1}

Chunks(zone) == {zone.baseptr + i * zone.chunksize : i \in 0..zone.nmax - 1}

\* Areas a thread still has to take back, or is about to return.
Leaving == {ptr[t] : t \in {u \in Threads : pc[u] = "freechunk"}}

\* A zone has each of its chunks once: free, in the hands of a caller or on its
\* way back; nfree counts the free ones and decides which list the zone is on.
ZonesAreSound(h) ==
    /\ \A z \in DOMAIN h.zones :
          LET zone == h.zones[z]
              free == FreshChunks(zone) \cup Range(zone.freechunk)
          IN /\ IsInjective(zone.freechunk)
             /\ FreshChunks(zone) \cap Range(zone.freechunk) = {}
             /\ free = Chunks(zone) \ (DOMAIN given \cup Leaving)
             /\ zone.nfree = Cardinality(free)
             /\ zone.nfree > 0 <=>
                    z \in Range(h.zone_array[ZoneIndex(zone.chunksize)])
    /\ \A i \in DOMAIN h.zone_array :
          /\ IsInjective(h.zone_array[i])
          /\ \A z \in Range(h.zone_array[i]) : ZoneIndex(h.zones[z].chunksize) = i
    /\ h.zone_free_cnt = Len(h.zone_free) /\ h.zone_free_cnt <= ZONE_RELEASE_THRESH

\* The free pages are in order, apart and joined, and not of a zone.
PagesAreSound(h) ==
    /\ \A i \in 1..Len(h.pages) - 1 : PageEnd(h.pages[i]) < h.pages[i + 1][1]
    /\ \A i \in DOMAIN h.pages :
          \A z \in DOMAIN h.zones \cup Range(h.zone_free) \cup DOMAIN given :
              z < h.pages[i][1] \/ PageEnd(h.pages[i]) <= z
    /\ \A a \in DOMAIN given : heap.usage[PageAt(a)][1] # "free"

\* Whatever the order of the calls of the threads, and although the semaphore is
\* released to ask for pages, chunks and pages are somewhere once.
SlabIsSound == ZonesAreSound(heap) /\ PagesAreSound(heap)

\* used_mem, which list_mem reports, is what the callers have when no call is
\* under way.
SlabUsedIsExact ==
    (\A t \in Threads : pc[t] = "ready") =>
        heap.used_mem = MapThenSumSet(LAMBDA a : given[a], DOMAIN given)
=============================================================================
