--------------------------- MODULE Memory_proofs ---------------------------
(***************************************************************************)
(* The heap of the system, when rtconfig.h chooses mem.c or memheap.c for  *)
(* it, for any threads, requests and sizes of the memory, the headers and  *)
(* the smallest block: it is sound, its count is exact, and it implements  *)
(* Allocator.                                                              *)
(*                                                                         *)
(* The first part is about what an operation of mem.c does to the headers  *)
(* h, whoever does it: Sound(h), and which block its change of used_mem    *)
(* accounts for.  The second adds where the threads are in their calls     *)
(* (IInv): who is inside the search has the token, and a block in use      *)
(* belongs to one caller or to one call.  The third and the fourth are the *)
(* same for memheap.c: ItemsOK(h) and Off(h, m) of the items, PoolInv with *)
(* the calls.  The last carries both to Memory, whose steps are then those *)
(* of Heap or of MemHeap.                                                  *)
(***************************************************************************)
EXTENDS Memory, TLAPS, FiniteSetTheorems, SequenceTheorems, WellFoundedInduction

-----------------------------------------------------------------------------
(* Headers.                                                                *)

LEMMA Sizes ==
    ASSUME Small!HeapAssumption
    PROVE  /\ SIZEOF_STRUCT_MEM \in Nat \ {0} /\ MIN_SIZE \in Nat \ {0}
           /\ mem_size_aligned \in Nat /\ MIN_SIZE <= mem_size_aligned
           /\ Small!heap_end = mem_size_aligned + SIZEOF_STRUCT_MEM
           /\ Small!heap_end \in Nat /\ Small!Offsets = 0..Small!heap_end
           /\ Small!NoBlock = -1 /\ Small!NoBlock \notin Small!Offsets
BY DEF Small!HeapAssumption, Small!heap_end, Small!Offsets, Small!NoBlock

\* The first block points to itself, every other to one that points to it.
Linked(h) ==
    /\ h.prev[0] = 0
    /\ \A b \in Small!Blocks(h) \ {0, Small!heap_end} :
          h.prev[b] \in Small!Blocks(h) \ {Small!heap_end} /\ h.next[h.prev[b]] = b

Sound(h) == h \in Small!Headers /\ Small!Tiled(h) /\ Linked(h)

\* What a sound h says of a block b, in plain arithmetic.
LEMMA BlockFacts ==
    ASSUME Small!HeapAssumption, NEW h, Sound(h), NEW b \in Small!Blocks(h), b # Small!heap_end
    PROVE  /\ b \in Nat /\ b < Small!heap_end /\ h.next[b] \in Small!Blocks(h)
           /\ h.next[b] \in Nat /\ h.next[b] <= Small!heap_end
           /\ b + SIZEOF_STRUCT_MEM < h.next[b]
           /\ Small!Room(h, b) = h.next[b] - b - SIZEOF_STRUCT_MEM
           /\ \A c \in Small!Blocks(h) : c \in Nat /\ (c <= b \/ h.next[b] <= c)
<1>1. /\ SIZEOF_STRUCT_MEM \in Nat /\ Small!heap_end \in Nat /\ Small!Offsets
           = 0..Small!heap_end
  BY Sizes
<1>2. /\ h.next[b] \in Small!Blocks(h) /\ Small!Room(h, b) > 0
      /\ \A c \in Small!Blocks(h) : c <= b \/ h.next[b] <= c
  BY DEF Sound, Small!Tiled
<1>3. \A c \in Small!Blocks(h) : c \in 0..Small!heap_end
  BY <1>1 DEF Small!Blocks
<1>4. b \in 0..Small!heap_end /\ h.next[b] \in 0..Small!heap_end
  BY <1>2, <1>3
<1> QED BY <1>1, <1>2, <1>3, <1>4 DEF Small!Room

\* No two blocks have the same one behind them.
LEMMA NextIsInjective ==
    ASSUME Small!HeapAssumption, NEW h, Sound(h),
           NEW b \in Small!Blocks(h) \ {Small!heap_end},
             NEW c \in Small!Blocks(h) \ {Small!heap_end},
           h.next[b] = h.next[c]
    PROVE  b = c
<1>1. b \in Nat /\ c \in Nat /\ b < h.next[b] /\ c < h.next[c]
  BY BlockFacts, Sizes
<1>2. (c <= b \/ h.next[b] <= c) /\ (b <= c \/ h.next[c] <= b)
  BY BlockFacts
<1>3. h.next[b] \in Nat
  BY BlockFacts
<1> QED BY <1>1, <1>2, <1>3

-----------------------------------------------------------------------------
(* A block is cut.                                                         *)

\* g is h with block b cut at rest.
IsSplit(h, g, b, rest) ==
    LET end == h.next[b]
    IN /\ g \in Small!Headers
       /\ rest \in Small!Offsets /\ rest \notin Small!Blocks(h) /\ rest # 0
       /\ rest # Small!heap_end
       /\ b < rest /\ rest + SIZEOF_STRUCT_MEM < end
       /\ g.lfree = h.lfree /\ g.used_mem = h.used_mem
       /\ \A o \in Small!Offsets :
             /\ g.used[o] = IF o = rest THEN FALSE ELSE h.used[o]
             /\ g.next[o] = IF o = b THEN rest ELSE IF o = rest THEN end ELSE h.next[o]
             /\ g.prev[o] = IF o = rest THEN b
                            ELSE IF o = end /\ end # Small!heap_end THEN rest
                            ELSE h.prev[o]
       /\ Small!Blocks(g) = Small!Blocks(h) \cup {rest}

LEMMA SplitIsSplit ==
    ASSUME Small!HeapAssumption, NEW h, Sound(h), NEW b \in Small!Blocks(h),
             b # Small!heap_end,
           NEW n \in Nat \ {0}, n + SIZEOF_STRUCT_MEM < Small!Room(h, b)
    PROVE  IsSplit(h, Small!SplitAt(h, b, n), b, b + SIZEOF_STRUCT_MEM + n)
<1> DEFINE g    == Small!SplitAt(h, b, n)
           rest == b + SIZEOF_STRUCT_MEM + n
           end  == h.next[b]
<1>1. /\ SIZEOF_STRUCT_MEM \in Nat \ {0} /\ Small!heap_end \in Nat /\ Small!Offsets
           = 0..Small!heap_end
      /\ Small!NoBlock \notin Small!Offsets
  BY Sizes
<1>2. /\ b \in Nat /\ b < Small!heap_end /\ end \in Nat /\ end <= Small!heap_end
      /\ end \in Small!Blocks(h)
      /\ Small!Room(h, b) = end - b - SIZEOF_STRUCT_MEM
      /\ \A c \in Small!Blocks(h) : c \in Nat /\ (c <= b \/ end <= c)
  BY BlockFacts
<1>3. /\ rest \in Nat /\ b < rest /\ rest + SIZEOF_STRUCT_MEM < end
  BY <1>1, <1>2
<1>4. rest \in Small!Offsets /\ rest \notin Small!Blocks(h) /\ rest # 0
      /\ rest # Small!heap_end
  BY <1>1, <1>2, <1>3
<1>5. /\ h.used \in [Small!Offsets -> BOOLEAN]
      /\ h.next \in [Small!Offsets -> Small!Offsets \cup {Small!NoBlock}]
      /\ h.prev \in [Small!Offsets -> Small!Offsets \cup {Small!NoBlock}]
      /\ h.lfree \in Small!Offsets
      /\ h.used_mem \in Int
      /\ h = [used |-> h.used, next |-> h.next, prev |-> h.prev, lfree |-> h.lfree,
              used_mem |-> h.used_mem]
  BY DEF Sound, Small!Headers
<1>6. b \in Small!Offsets /\ end \in Small!Offsets /\ h.next[b] # Small!NoBlock
      /\ h.next[end] # Small!NoBlock
  BY <1>2 DEF Small!Blocks
<1> DEFINE prev == [o \in Small!Offsets |-> IF o = rest THEN b
                                      ELSE IF o = end /\ end # Small!heap_end THEN rest
                                      ELSE h.prev[o]]
<1>7. g = [used |-> [h.used EXCEPT ![rest] = FALSE],
           next |-> [[h.next EXCEPT ![rest] = end] EXCEPT ![b] = rest],
           prev |-> prev, lfree |-> h.lfree, used_mem |-> h.used_mem]
  <2>1. rest # end
    BY <1>1, <1>3
  <2> HIDE DEF rest, end
  <2>2. \A o \in Small!Offsets : (CASE o = rest                  -> b
                             [] o = end /\ end # Small!heap_end -> rest
                             [] OTHER                     -> h.prev[o]) = prev[o]
    BY <2>1
  <2>3. [o \in Small!Offsets |-> CASE o = rest                  -> b
                             [] o = end /\ end # Small!heap_end -> rest
                             [] OTHER                     -> h.prev[o]] = prev
    BY <2>2
  <2> HIDE DEF prev
  <2>4. g = [[[[h EXCEPT !.used[rest] = FALSE] EXCEPT !.next[rest] = end]
                EXCEPT !.next[b] = rest] EXCEPT !.prev = prev]
    BY <2>3 DEF Small!SplitAt, rest, end
  <2> QED BY <1>5, <2>4
<1> HIDE DEF g, rest, end
<1>8. g \in Small!Headers
  BY <1>4, <1>5, <1>6, <1>7 DEF Small!Headers
<1>9. \A o \in Small!Offsets :
        /\ g.used[o] = IF o = rest THEN FALSE ELSE h.used[o]
        /\ g.next[o] = IF o = b THEN rest ELSE IF o = rest THEN end ELSE h.next[o]
        /\ g.prev[o] = IF o = rest THEN b
                       ELSE IF o = end /\ end # Small!heap_end THEN rest
                       ELSE h.prev[o]
  BY <1>4, <1>5, <1>6, <1>7
<1>10. g.lfree = h.lfree /\ g.used_mem = h.used_mem
  BY <1>7
<1>11. Small!Blocks(g) = Small!Blocks(h) \cup {rest}
  <2>1. rest # Small!NoBlock /\ end # Small!NoBlock /\ rest \in Small!Offsets
    BY <1>1, <1>4, <1>6
  <2>2. \A o \in Small!Offsets : g.next[o] # Small!NoBlock <=> (o = rest
          \/ h.next[o] # Small!NoBlock)
    BY <1>4, <1>9, <2>1 DEF Small!Blocks
  <2> QED BY <2>1, <2>2 DEF Small!Blocks
<1>12. IsSplit(h, g, b, rest)
  BY <1>3, <1>4, <1>8, <1>9, <1>10, <1>11 DEF IsSplit, end
<1> QED BY <1>12 DEF g, rest

\* A block in use that keeps its place and its room.
Keeps(h, g, b) == b \in Small!Blocks(g) /\ g.used[b] = h.used[b] /\ g.next[b] = h.next[b]

\* Cutting a block leaves the tiling sound and the other blocks alone.
IsCut(h, g, b, n, rest) ==
    /\ Sound(g)
    /\ rest \in Small!Blocks(g) /\ rest # Small!heap_end /\ rest \notin Small!Blocks(h)
    /\ ~g.used[rest] /\ g.next[rest] = h.next[b]
    /\ b \in Small!Blocks(g) /\ g.used[b] = h.used[b] /\ g.next[b] = rest
    /\ Small!Room(g, b) = n
    /\ \A c \in Small!Blocks(h) \ {b} : Keeps(h, g, c)
    /\ Small!Blocks(g) = Small!Blocks(h) \cup {rest}
    /\ g.lfree = h.lfree /\ g.used_mem = h.used_mem

LEMMA SplitIsCut ==
    ASSUME Small!HeapAssumption, NEW h, Sound(h), NEW b \in Small!Blocks(h),
             b # Small!heap_end,
           NEW n \in Nat \ {0}, n + SIZEOF_STRUCT_MEM < Small!Room(h, b)
    PROVE  IsCut(h, Small!SplitAt(h, b, n), b, n, b + SIZEOF_STRUCT_MEM + n)
<1> DEFINE g    == Small!SplitAt(h, b, n)
           rest == b + SIZEOF_STRUCT_MEM + n
           end  == h.next[b]
<1>1. /\ SIZEOF_STRUCT_MEM \in Nat \ {0} /\ Small!heap_end \in Nat /\ Small!Offsets
           = 0..Small!heap_end
  BY Sizes
<1>2. /\ b \in Nat /\ b < Small!heap_end /\ end \in Nat /\ end <= Small!heap_end
      /\ end \in Small!Blocks(h)
      /\ \A c \in Small!Blocks(h) : c \in Nat /\ (c <= b \/ end <= c)
  BY BlockFacts
<1>3. /\ g \in Small!Headers
      /\ rest \in Small!Offsets /\ rest \notin Small!Blocks(h) /\ rest # 0
      /\ rest # Small!heap_end
      /\ b < rest /\ rest + SIZEOF_STRUCT_MEM < end
      /\ g.lfree = h.lfree /\ g.used_mem = h.used_mem
      /\ Small!Blocks(g) = Small!Blocks(h) \cup {rest}
  <2>1. IsSplit(h, g, b, rest)
    BY SplitIsSplit
  <2> QED BY <2>1 DEF IsSplit
<1>4. \A o \in Small!Offsets :
        /\ g.used[o] = IF o = rest THEN FALSE ELSE h.used[o]
        /\ g.next[o] = IF o = b THEN rest ELSE IF o = rest THEN end ELSE h.next[o]
        /\ g.prev[o] = IF o = rest THEN b
                       ELSE IF o = end /\ end # Small!heap_end THEN rest
                       ELSE h.prev[o]
  <2>1. IsSplit(h, g, b, rest)
    BY SplitIsSplit
  <2> QED BY <2>1 DEF IsSplit
<1>5. rest \in Nat /\ rest = b + SIZEOF_STRUCT_MEM + n
  BY <1>1, <1>2
<1> HIDE DEF g, rest, end
<1>6. \A c \in Small!Blocks(h) : c \in Small!Offsets /\ c # rest
  BY <1>3 DEF Small!Blocks
<1>7. b \in Small!Offsets /\ end \in Small!Offsets /\ b # rest /\ rest # end /\ b # end
  BY <1>1, <1>2, <1>3, <1>5, <1>6
<1>8. \A c \in Small!Blocks(h) \ {b} : Keeps(h, g, c)
  BY <1>3, <1>4, <1>6 DEF Keeps
<1>9. /\ rest \in Small!Blocks(g) /\ ~g.used[rest] /\ g.next[rest] = end
      /\ b \in Small!Blocks(g) /\ g.used[b] = h.used[b] /\ g.next[b] = rest
  BY <1>3, <1>4, <1>7
<1>10. Small!Room(g, b) = n
  BY <1>1, <1>2, <1>5, <1>9 DEF Small!Room
<1>11. Small!Tiled(g)
  <2>1. {0, Small!heap_end} \subseteq Small!Blocks(g) /\ g.used[Small!heap_end]
    <3>1. {0, Small!heap_end} \subseteq Small!Blocks(h) /\ h.used[Small!heap_end]
          /\ Small!heap_end \in Small!Offsets
      BY <1>1 DEF Sound, Small!Tiled
    <3> QED BY <1>3, <1>4, <3>1
  <2>2. ASSUME NEW c \in Small!Blocks(g) \ {Small!heap_end}
        PROVE  /\ g.next[c] \in Small!Blocks(g) /\ Small!Room(g, c) > 0
               /\ g.next[c] # Small!heap_end => g.prev[g.next[c]] = c
               /\ \A d \in Small!Blocks(g) : d <= c \/ g.next[c] <= d
    <3>1. CASE c = rest
      <4>1. Small!Room(g, c) > 0
        BY <1>1, <1>2, <1>3, <1>5, <1>9, <3>1 DEF Small!Room
      <4>2. \A d \in Small!Blocks(g) : d <= rest \/ end <= d
        BY <1>2, <1>3, <1>5
      <4> QED BY <1>2, <1>3, <1>4, <1>7, <1>9, <3>1, <4>1, <4>2
    <3>2. CASE c = b
      <4>1. Small!Room(g, c) > 0
        BY <1>10, <3>2
      <4>2. \A d \in Small!Blocks(g) : d <= b \/ rest <= d
        BY <1>1, <1>2, <1>3, <1>5
      <4> QED BY <1>3, <1>4, <1>9, <3>2, <4>1, <4>2
    <3>3. CASE c # rest /\ c # b
      <4>1. c \in Small!Blocks(h) \ {Small!heap_end} /\ g.next[c] = h.next[c]
        BY <1>3, <1>8, <3>3 DEF Keeps
      <4>2. /\ h.next[c] \in Small!Blocks(h) /\ Small!Room(h, c) > 0
            /\ h.next[c] # Small!heap_end => h.prev[h.next[c]] = c
            /\ \A d \in Small!Blocks(h) : d <= c \/ h.next[c] <= d
        BY <4>1 DEF Sound, Small!Tiled
      <4>3. h.next[c] # end
        BY <1>2, <3>3, <4>1, NextIsInjective DEF end
      <4>4. c \in Nat /\ h.next[c] \in Nat
        BY <1>2, <4>1, <4>2
      <4>5. rest <= c \/ h.next[c] <= rest
        <5>1. (b <= c \/ h.next[c] <= b) /\ (c <= b \/ end <= c)
          BY <1>2, <4>1, <4>2
        <5>2. b # c
          BY <3>3
        <5> QED BY <1>2, <1>3, <1>1, <1>5, <4>4, <5>1, <5>2
      <4>6. Small!Room(g, c) = Small!Room(h, c)
        BY <4>1 DEF Small!Room
      <4>7. g.next[c] # Small!heap_end => g.prev[g.next[c]] = c
        BY <1>4, <1>6, <4>1, <4>2, <4>3
      <4>8. \A d \in Small!Blocks(g) : d <= c \/ g.next[c] <= d
        BY <1>3, <1>5, <4>1, <4>2, <4>4, <4>5
      <4> QED BY <1>3, <4>1, <4>2, <4>6, <4>7, <4>8
    <3> QED BY <3>1, <3>2, <3>3
  <2> QED BY <2>1, <2>2 DEF Small!Tiled
<1>12. Linked(g)
  <2>1. g.prev[0] = 0
    <3>1. h.prev[0] = 0 /\ 0 \in Small!Offsets /\ 0 # rest /\ 0 # end
      BY <1>1, <1>2, <1>3, <1>5 DEF Sound, Linked
    <3> QED BY <1>4, <3>1
  <2>2. ASSUME NEW c \in Small!Blocks(g) \ {0, Small!heap_end}
        PROVE  g.prev[c] \in Small!Blocks(g) \ {Small!heap_end} /\ g.next[g.prev[c]] = c
    <3>1. CASE c = rest
      BY <1>2, <1>3, <1>4, <1>9, <3>1
    <3>2. CASE c = end
      BY <1>2, <1>3, <1>4, <1>7, <1>9, <3>2
    <3>3. CASE c # rest /\ c # end
      <4>1. c \in Small!Blocks(h) \ {0, Small!heap_end}
        BY <1>3, <3>3
      <4>2. h.prev[c] \in Small!Blocks(h) \ {Small!heap_end} /\ h.next[h.prev[c]] = c
        BY <4>1 DEF Sound, Linked
      <4>3. h.prev[c] # b
        BY <3>3, <4>2 DEF end
      <4>4. g.prev[c] = h.prev[c]
        BY <1>4, <1>6, <3>3, <4>1
      <4> QED BY <1>3, <1>8, <4>2, <4>3, <4>4 DEF Keeps
    <3> QED BY <3>1, <3>2, <3>3
  <2> QED BY <2>1, <2>2 DEF Linked
<1>13. IsCut(h, g, b, n, rest)
  BY <1>3, <1>8, <1>9, <1>10, <1>11, <1>12 DEF Sound, IsCut, end
<1> QED BY <1>13 DEF g, rest

-----------------------------------------------------------------------------
(* A block takes in the one behind it.                                     *)

\* g is h with the block behind b in b.
IsAbsorbed(h, g, b) ==
    LET n == h.next[b]
    IN /\ g \in Small!Headers
       /\ g.used_mem = h.used_mem
       /\ g.lfree = IF h.lfree = n THEN b ELSE h.lfree
       /\ \A o \in Small!Offsets :
             /\ g.used[o] = h.used[o]
             /\ g.next[o] = IF o = b THEN h.next[n] ELSE IF o = n THEN Small!NoBlock
                  ELSE h.next[o]
             /\ g.prev[o] = IF o = n THEN Small!NoBlock ELSE IF o = h.next[n] THEN b
                  ELSE h.prev[o]
       /\ Small!Blocks(g) = Small!Blocks(h) \ {n}

LEMMA AbsorbedIsAbsorbed ==
    ASSUME Small!HeapAssumption, NEW h, Sound(h), NEW b \in Small!Blocks(h),
             b # Small!heap_end,
           h.next[b] # Small!heap_end
    PROVE  IsAbsorbed(h, Small!Absorbed(h, b), b)
<1> DEFINE g   == Small!Absorbed(h, b)
           n   == h.next[b]
           end == h.next[n]
<1>1. /\ Small!heap_end \in Nat /\ Small!Offsets = 0..Small!heap_end
      /\ Small!NoBlock \notin Small!Offsets
  BY Sizes
<1>2. n \in Small!Blocks(h) /\ end \in Small!Blocks(h) /\ b < n /\ n < end /\ b \in Nat
      /\ n \in Nat
  <2>1. n \in Small!Blocks(h) /\ n # Small!heap_end /\ b \in Nat /\ n \in Nat
        /\ b + SIZEOF_STRUCT_MEM < n
    BY BlockFacts
  <2>2. end \in Small!Blocks(h) /\ end \in Nat /\ n + SIZEOF_STRUCT_MEM < end
    BY <2>1, BlockFacts
  <2> QED BY <2>1, <2>2, Sizes
<1>3. /\ h.used \in [Small!Offsets -> BOOLEAN]
      /\ h.next \in [Small!Offsets -> Small!Offsets \cup {Small!NoBlock}]
      /\ h.prev \in [Small!Offsets -> Small!Offsets \cup {Small!NoBlock}]
      /\ h.lfree \in Small!Offsets
      /\ h.used_mem \in Int
      /\ h = [used |-> h.used, next |-> h.next, prev |-> h.prev, lfree |-> h.lfree,
              used_mem |-> h.used_mem]
  BY DEF Sound, Small!Headers
<1>4. /\ b \in Small!Offsets /\ n \in Small!Offsets /\ end \in Small!Offsets /\ b # n
      /\ n # end
      /\ h.next[end] # Small!NoBlock
  BY <1>2 DEF Small!Blocks
<1> HIDE DEF n, end
<1>5. g = [used |-> h.used,
           next |-> [[h.next EXCEPT ![b] = end] EXCEPT ![n] = Small!NoBlock],
           prev |-> [[h.prev EXCEPT ![end] = b] EXCEPT ![n] = Small!NoBlock],
           lfree |-> IF h.lfree = n THEN b ELSE h.lfree, used_mem |-> h.used_mem]
  <2>1. g = [[[h EXCEPT !.next = [[h.next EXCEPT ![b] = end] EXCEPT ![n] = Small!NoBlock]]
                EXCEPT !.prev = [[h.prev EXCEPT ![end] = b] EXCEPT ![n] = Small!NoBlock]]
                EXCEPT !.lfree = IF h.lfree = n THEN b ELSE h.lfree]
    BY <1>3 DEF Small!Absorbed, n, end
  <2> QED BY <1>3, <2>1
<1> HIDE DEF g
<1>6. g \in Small!Headers
  BY <1>3, <1>4, <1>5 DEF Small!Headers
<1>7. \A o \in Small!Offsets :
         /\ g.used[o] = h.used[o]
         /\ g.next[o] = IF o = b THEN end ELSE IF o = n THEN Small!NoBlock ELSE h.next[o]
         /\ g.prev[o] = IF o = n THEN Small!NoBlock ELSE IF o = end THEN b ELSE h.prev[o]
  BY <1>3, <1>4, <1>5
<1>8. Small!Blocks(g) = Small!Blocks(h) \ {n}
  BY <1>1, <1>4, <1>7 DEF Small!Blocks
<1>9. IsAbsorbed(h, g, b)
  BY <1>5, <1>6, <1>7, <1>8 DEF IsAbsorbed, n, end
<1> QED BY <1>9 DEF g

LEMMA AbsorbedKeeps ==
    ASSUME Small!HeapAssumption, NEW h, Sound(h), NEW b \in Small!Blocks(h),
             b # Small!heap_end,
           h.next[b] # Small!heap_end
    PROVE  LET g == Small!Absorbed(h, b)
               n == h.next[b]
           IN /\ Sound(g)
              /\ Small!Blocks(g) = Small!Blocks(h) \ {n}
              /\ n # b /\ n \in Small!Blocks(h)
              /\ b \in Small!Blocks(g) /\ g.used[b] = h.used[b] /\ g.next[b] = h.next[n]
              /\ \A c \in Small!Blocks(h) \ {b, n} : Keeps(h, g, c)
              /\ g.lfree = IF h.lfree = n THEN b ELSE h.lfree
<1> DEFINE g   == Small!Absorbed(h, b)
           n   == h.next[b]
           end == h.next[n]
<1>1. /\ Small!heap_end \in Nat /\ Small!Offsets = 0..Small!heap_end
      /\ Small!NoBlock \notin Small!Offsets
      /\ SIZEOF_STRUCT_MEM \in Nat
  BY Sizes
<1>2. n \in Small!Blocks(h) /\ end \in Small!Blocks(h) /\ b < n /\ n < end /\ b \in Nat
      /\ n \in Nat
      /\ end \in Nat
      /\ b + SIZEOF_STRUCT_MEM < n /\ n + SIZEOF_STRUCT_MEM < end
      /\ \A c \in Small!Blocks(h) : c \in Nat /\ (c <= b \/ n <= c) /\ (c <= n \/ end <= c)
  <2>1. /\ n \in Small!Blocks(h) /\ b \in Nat /\ n \in Nat /\ b + SIZEOF_STRUCT_MEM < n
        /\ \A c \in Small!Blocks(h) : c \in Nat /\ (c <= b \/ n <= c)
    BY BlockFacts
  <2>2. n \in Small!Blocks(h) /\ n # Small!heap_end
    BY <2>1
  <2> HIDE DEF n
  <2>3. /\ end \in Small!Blocks(h) /\ end \in Nat /\ n + SIZEOF_STRUCT_MEM < end
        /\ \A c \in Small!Blocks(h) : c <= n \/ end <= c
    BY <2>2, BlockFacts
  <2> HIDE DEF end
  <2>4. b < n /\ n < end
    BY <2>1, <2>3, Sizes
  <2> QED BY <2>1, <2>3, <2>4
<1>3. /\ g \in Small!Headers
      /\ g.lfree = IF h.lfree = n THEN b ELSE h.lfree
      /\ Small!Blocks(g) = Small!Blocks(h) \ {n}
  <2>1. IsAbsorbed(h, g, b)
    BY AbsorbedIsAbsorbed
  <2> QED BY <2>1 DEF IsAbsorbed
<1>4. \A o \in Small!Offsets :
         /\ g.used[o] = h.used[o]
         /\ g.next[o] = IF o = b THEN end ELSE IF o = n THEN Small!NoBlock ELSE h.next[o]
         /\ g.prev[o] = IF o = n THEN Small!NoBlock ELSE IF o = end THEN b ELSE h.prev[o]
  <2>1. IsAbsorbed(h, g, b)
    BY AbsorbedIsAbsorbed
  <2> QED BY <2>1 DEF IsAbsorbed
<1>5. n # Small!heap_end
  OBVIOUS
<1> HIDE DEF g, n, end
<1>6. \A c \in Small!Blocks(h) : c \in Small!Offsets
  BY DEF Small!Blocks
<1>7. b # n /\ n # end /\ b # end
  BY <1>2
<1>8. \A c \in Small!Blocks(h) \ {b, n} : Keeps(h, g, c)
  BY <1>3, <1>4, <1>6 DEF Keeps
<1>9. b \in Small!Blocks(g) /\ g.used[b] = h.used[b] /\ g.next[b] = end
  BY <1>3, <1>4, <1>6, <1>7
<1>10. Small!Tiled(g)
  <2>1. {0, Small!heap_end} \subseteq Small!Blocks(g) /\ g.used[Small!heap_end]
    <3>1. {0, Small!heap_end} \subseteq Small!Blocks(h) /\ h.used[Small!heap_end]
      BY DEF Sound, Small!Tiled
    <3>2. n # 0
      BY <1>2
    <3> QED BY <1>3, <1>4, <1>5, <1>6, <3>1, <3>2
  <2>2. ASSUME NEW c \in Small!Blocks(g) \ {Small!heap_end}
        PROVE  /\ g.next[c] \in Small!Blocks(g) /\ Small!Room(g, c) > 0
               /\ g.next[c] # Small!heap_end => g.prev[g.next[c]] = c
               /\ \A d \in Small!Blocks(g) : d <= c \/ g.next[c] <= d
    <3>1. CASE c = b
      <4>1. Small!Room(g, c) > 0
        BY <1>1, <1>2, <1>9, <3>1 DEF Small!Room
      <4>2. \A d \in Small!Blocks(g) : d <= b \/ end <= d
        BY <1>2, <1>3
      <4>3. g.prev[end] = b
        BY <1>2, <1>4, <1>6, <1>7
      <4> QED BY <1>2, <1>3, <1>7, <1>9, <3>1, <4>1, <4>2, <4>3
    <3>2. CASE c # b
      <4>1. c \in Small!Blocks(h) \ {Small!heap_end, b, n} /\ g.next[c] = h.next[c]
        BY <1>3, <1>8, <3>2 DEF Keeps
      <4>2. /\ h.next[c] \in Small!Blocks(h) /\ Small!Room(h, c) > 0
            /\ h.next[c] # Small!heap_end => h.prev[h.next[c]] = c
            /\ \A d \in Small!Blocks(h) : d <= c \/ h.next[c] <= d
        BY <4>1 DEF Sound, Small!Tiled
      <4>3. h.next[c] # n
        BY <1>5, <4>1, NextIsInjective DEF n
      <4>4. h.next[c] # end
        BY <1>2, <1>5, <4>1, NextIsInjective DEF end
      <4>5. Small!Room(g, c) = Small!Room(h, c)
        BY <4>1 DEF Small!Room
      <4>6. g.next[c] # Small!heap_end => g.prev[g.next[c]] = c
        BY <1>4, <1>6, <4>1, <4>2, <4>3, <4>4
      <4> QED BY <1>3, <4>1, <4>2, <4>3, <4>5, <4>6
    <3> QED BY <3>1, <3>2
  <2> QED BY <2>1, <2>2 DEF Small!Tiled
<1>11. Linked(g)
  <2>1. g.prev[0] = 0
    <3>1. h.prev[0] = 0 /\ 0 \in Small!Offsets /\ 0 # n /\ 0 # end
      BY <1>1, <1>2 DEF Sound, Linked
    <3> QED BY <1>4, <3>1
  <2>2. ASSUME NEW c \in Small!Blocks(g) \ {0, Small!heap_end}
        PROVE  g.prev[c] \in Small!Blocks(g) \ {Small!heap_end} /\ g.next[g.prev[c]] = c
    <3>1. c \in Small!Blocks(h) \ {0, Small!heap_end} /\ c # n /\ c \in Small!Offsets
      BY <1>3, <1>6
    <3>2. CASE c = end
      BY <1>4, <1>7, <1>9, <3>1, <3>2
    <3>3. CASE c # end
      <4>1. h.prev[c] \in Small!Blocks(h) \ {Small!heap_end} /\ h.next[h.prev[c]] = c
        BY <3>1 DEF Sound, Linked
      <4>2. h.prev[c] # b /\ h.prev[c] # n
        BY <3>1, <3>3, <4>1 DEF n, end
      <4>3. g.prev[c] = h.prev[c]
        BY <1>4, <3>1, <3>3
      <4> QED BY <1>3, <1>8, <4>1, <4>2, <4>3 DEF Keeps
    <3> QED BY <3>2, <3>3
  <2> QED BY <2>1, <2>2 DEF Linked
<1> QED BY <1>2, <1>3, <1>7, <1>8, <1>9, <1>10, <1>11 DEF Sound, g, n, end

-----------------------------------------------------------------------------
(* plug_holes.                                                             *)

\* Blocks in use stay as they are.
UsedKept(h, g) == \A c \in Small!Blocks(h) : h.used[c] => Keeps(h, g, c)

\* Holes are in one piece but around block m, ...
MergedBut(h, m) ==
    \A b \in Small!Blocks(h) \ {Small!heap_end} :
        h.used[b] \/ h.used[h.next[b]] \/ b = m \/ h.next[b] = m

\* ... or in front of it only.
MergedBehind(h, m) ==
    /\ h.used[h.next[m]]
    /\ \A b \in Small!Blocks(h) \ {Small!heap_end} :
          h.used[b] \/ h.used[h.next[b]] \/ h.next[b] = m

LEMMA ForwardMerges ==
    ASSUME Small!HeapAssumption, NEW h, Sound(h), NEW m \in Small!Blocks(h),
             m # Small!heap_end,
           ~h.used[m], MergedBut(h, m), Small!LfreeIsFree(h)
    PROVE  LET g == Small!Forward(h, m)
           IN /\ Sound(g) /\ m \in Small!Blocks(g) /\ ~g.used[m]
              /\ MergedBehind(g, m) /\ UsedKept(h, g) /\ Small!LfreeIsFree(g)
<1> DEFINE g == Small!Forward(h, m)
           n == h.next[m]
<1>1. n \in Small!Blocks(h) /\ m < n /\ m \in Nat /\ n \in Nat
  BY BlockFacts, Sizes
<1>2. CASE n # Small!heap_end /\ ~h.used[n]
  <2>1. g = Small!Absorbed(h, m)
    BY <1>1, <1>2 DEF Small!Forward
  <2> DEFINE end == h.next[n]
  <2>2. /\ Sound(g) /\ Small!Blocks(g) = Small!Blocks(h) \ {n} /\ n # m
        /\ m \in Small!Blocks(g) /\ g.used[m] = h.used[m] /\ g.next[m] = end
        /\ \A c \in Small!Blocks(h) \ {m, n} : Keeps(h, g, c)
        /\ g.lfree = IF h.lfree = n THEN m ELSE h.lfree
    BY <1>2, <2>1, AbsorbedKeeps
  <2>3. end \in Small!Blocks(h) /\ n < end /\ end \in Nat
    BY <1>1, <1>2, BlockFacts, Sizes
  <2> HIDE DEF g, n, end
  <2>4. end # m /\ end # n
    BY <1>1, <2>3
  <2>5. h.used[end]
    BY <1>1, <1>2, <2>2, <2>4 DEF MergedBut, end
  <2>6. g.used[end]
    BY <2>2, <2>3, <2>4, <2>5 DEF Keeps
  <2>7. ASSUME NEW b \in Small!Blocks(g) \ {Small!heap_end}, b # m
        PROVE  g.used[b] \/ g.used[g.next[b]] \/ g.next[b] = m
    <3>1. b \in Small!Blocks(h) \ {Small!heap_end, m, n} /\ g.used[b] = h.used[b]
          /\ g.next[b] = h.next[b]
      BY <2>2, <2>7 DEF Keeps
    <3>2. h.next[b] \in Small!Blocks(h)
      BY <3>1, BlockFacts
    <3>3. h.next[b] # n
      BY <3>1, NextIsInjective DEF n
    <3>4. h.used[b] \/ h.used[h.next[b]] \/ h.next[b] = m
      BY <3>1 DEF MergedBut
    <3> QED BY <2>2, <3>1, <3>2, <3>3, <3>4 DEF Keeps
  <2>8. MergedBehind(g, m)
    BY <2>2, <2>6, <2>7 DEF MergedBehind
  <2>9. UsedKept(h, g)
    BY <1>2, <2>2 DEF UsedKept
  <2>10. Small!LfreeIsFree(g)
    BY <1>2, <2>2 DEF Small!LfreeIsFree, Keeps
  <2> QED BY <2>2, <2>8, <2>9, <2>10 DEF g
<1>3. CASE n = Small!heap_end \/ h.used[n]
  <2>1. g = h
    BY <1>1, <1>3 DEF Small!Forward
  <2>2. h.used[n]
    BY <1>3 DEF Sound, Small!Tiled
  <2>3. MergedBehind(h, m)
    BY <2>2 DEF MergedBehind, MergedBut
  <2>4. UsedKept(h, h)
    BY DEF UsedKept, Keeps
  <2> QED BY <2>1, <2>3, <2>4
<1> QED BY <1>2, <1>3

LEMMA BackwardMerges ==
    ASSUME Small!HeapAssumption, NEW h, Sound(h), NEW m \in Small!Blocks(h),
             m # Small!heap_end,
           ~h.used[m], MergedBehind(h, m), Small!LfreeIsFree(h)
    PROVE  LET g == Small!Backward(h, m)
           IN Sound(g) /\ Small!Merged(g) /\ UsedKept(h, g) /\ Small!LfreeIsFree(g)
<1> DEFINE g == Small!Backward(h, m)
           p == h.prev[m]
<1>1. m = 0 => p = m
  BY DEF Sound, Linked
<1>2. m # 0 => p \in Small!Blocks(h) \ {Small!heap_end} /\ h.next[p] = m
  BY DEF Sound, Linked
<1>3. CASE p # m /\ ~h.used[p]
  <2>1. p \in Small!Blocks(h) /\ p # Small!heap_end /\ h.next[p] = m
        /\ h.next[p] # Small!heap_end
    BY <1>1, <1>2, <1>3
  <2>2. g = Small!Absorbed(h, p)
    BY <1>3 DEF Small!Backward
  <2> DEFINE end == h.next[m]
  <2>3. /\ Sound(g) /\ Small!Blocks(g) = Small!Blocks(h) \ {m}
        /\ p \in Small!Blocks(g) /\ g.used[p] = h.used[p] /\ g.next[p] = end
        /\ \A c \in Small!Blocks(h) \ {p, m} : Keeps(h, g, c)
        /\ g.lfree = IF h.lfree = m THEN p ELSE h.lfree
    BY <2>1, <2>2, AbsorbedKeeps
  <2>4. end \in Small!Blocks(h) /\ m < end /\ m \in Nat /\ end \in Nat
    BY BlockFacts, Sizes
  <2>5. p < m /\ p \in Nat
    BY <2>1, BlockFacts, Sizes
  <2> HIDE DEF g, end, p
  <2>6. end # m /\ end # p
    BY <2>4, <2>5
  <2>7. g.used[end]
    BY <2>3, <2>4, <2>6 DEF MergedBehind, Keeps, end
  <2>8. ASSUME NEW b \in Small!Blocks(g) \ {Small!heap_end}, b # p
        PROVE  g.used[b] \/ g.used[g.next[b]]
    <3>1. b \in Small!Blocks(h) \ {Small!heap_end, p, m} /\ g.used[b] = h.used[b]
          /\ g.next[b] = h.next[b]
      BY <2>3, <2>8 DEF Keeps
    <3>2. h.next[b] \in Small!Blocks(h)
      BY <3>1, BlockFacts
    <3>3. h.next[b] # m
      BY <2>1, <3>1, NextIsInjective
    <3>4. h.used[b] \/ h.used[h.next[b]]
      BY <3>1, <3>3 DEF MergedBehind
    <3> QED BY <1>3, <2>3, <3>1, <3>2, <3>3, <3>4 DEF Keeps
  <2>9. Small!Merged(g)
    BY <2>3, <2>7, <2>8 DEF Small!Merged
  <2>10. UsedKept(h, g)
    BY <1>3, <2>3 DEF UsedKept
  <2>11. Small!LfreeIsFree(g)
    BY <1>3, <2>3 DEF Small!LfreeIsFree, Keeps
  <2> QED BY <2>3, <2>9, <2>10, <2>11 DEF g
<1>4. CASE p = m \/ h.used[p]
  <2>1. g = h
    BY <1>4 DEF Small!Backward
  <2>2. ASSUME NEW b \in Small!Blocks(h) \ {Small!heap_end}, h.next[b] = m PROVE h.used[b]
    <3>1. b < m /\ b \in Nat /\ m \in Nat
      BY <2>2, BlockFacts, Sizes
    <3>2. m # 0
      BY <3>1
    <3>3. b = p
      BY <1>2, <2>2, <3>2, NextIsInjective
    <3> QED BY <1>4, <3>1, <3>3
  <2>3. Small!Merged(h)
    BY <2>2 DEF Small!Merged, MergedBehind
  <2>4. UsedKept(h, h)
    BY DEF UsedKept, Keeps
  <2> QED BY <2>1, <2>3, <2>4
<1> QED BY <1>3, <1>4

\* What it leaves has no hole in pieces, whatever the neighbours of the block.
LEMMA PlugHolesMerges ==
    ASSUME Small!HeapAssumption, NEW h, Sound(h), NEW m \in Small!Blocks(h),
             m # Small!heap_end,
           ~h.used[m], MergedBut(h, m), Small!LfreeIsFree(h)
    PROVE  LET g == Small!PlugHoles(h, m)
           IN Sound(g) /\ Small!Merged(g) /\ UsedKept(h, g) /\ Small!LfreeIsFree(g)
<1> DEFINE f == Small!Forward(h, m)
           g == Small!Backward(f, m)
<1>1. /\ Sound(f) /\ m \in Small!Blocks(f) /\ ~f.used[m]
      /\ MergedBehind(f, m) /\ UsedKept(h, f) /\ Small!LfreeIsFree(f)
  BY ForwardMerges
<1> HIDE DEF f
<1>2. Sound(g) /\ Small!Merged(g) /\ UsedKept(f, g) /\ Small!LfreeIsFree(g)
  BY <1>1, BackwardMerges
<1> HIDE DEF g
<1>3. UsedKept(h, g)
  BY <1>1, <1>2 DEF UsedKept, Keeps
<1>4. Small!PlugHoles(h, m) = g
  BY DEF Small!PlugHoles, f, g
<1> QED BY <1>2, <1>3, <1>4

-----------------------------------------------------------------------------
(* What rt_malloc, rt_free and rt_realloc do to a sound heap.              *)

\* The tiling is one of links: flags, lfree and used_mem are no part of it.
LEMMA SameLinks ==
    ASSUME Small!HeapAssumption, NEW h, Sound(h), NEW g \in Small!Headers,
           g.next = h.next, g.prev = h.prev, g.used[Small!heap_end]
    PROVE  Sound(g) /\ Small!Blocks(g) = Small!Blocks(h) /\ \A b : Small!Room(g, b)
             = Small!Room(h, b)
<1>1. Small!Blocks(g) = Small!Blocks(h) /\ \A b : Small!Room(g, b) = Small!Room(h, b)
  BY DEF Small!Blocks, Small!Room
<1> QED BY <1>1 DEF Sound, Small!Tiled, Linked

LEMMA HeapEnd ==
    ASSUME Small!HeapAssumption, NEW h, Sound(h)
    PROVE  Small!heap_end \in Small!Offsets /\ Small!heap_end \in Small!Blocks(h)
           /\ h.used[Small!heap_end]
BY DEF Sound, Small!Tiled, Small!Blocks

\* g is h with n bytes of the free block b in use.
IsTaken(h, g, b, n) ==
    /\ Sound(g) /\ Small!Merged(g) /\ UsedKept(h, g)
    /\ b \in Small!Blocks(g) /\ g.used[b] /\ n <= Small!Room(g, b)
    /\ h.lfree \in Small!Blocks(h) => g.lfree \in Small!Blocks(g)
    /\ Small!LfreeIsFree(h) /\ h.lfree # b => Small!LfreeIsFree(g)

LEMMA TakenWholeIsTaken ==
    ASSUME Small!HeapAssumption, NEW h, Sound(h), Small!Merged(h),
             NEW b \in Small!Blocks(h), b # Small!heap_end,
           ~h.used[b], NEW n \in Nat, n <= Small!Room(h, b)
    PROVE  IsTaken(h, Small!TakenWhole(h, b), b, n)
<1> DEFINE g == Small!TakenWhole(h, b)
<1>1. h \in Small!Headers /\ b \in Small!Offsets /\ h.next[b] - b \in Int
  BY BlockFacts DEF Sound, Small!Blocks
<1>2. /\ g \in Small!Headers /\ g.next = h.next /\ g.prev = h.prev /\ g.lfree = h.lfree
      /\ \A o \in Small!Offsets : g.used[o] = IF o = b THEN TRUE ELSE h.used[o]
  <2>1. g = [[h EXCEPT !.used[b] = TRUE] EXCEPT !.used_mem = @ + (h.next[b] - b)]
    BY DEF Small!TakenWhole
  <2> HIDE DEF g
  <2>2. h.used_mem + (h.next[b] - b) \in Int
    BY <1>1 DEF Small!Headers
  <2> QED BY <1>1, <2>1, <2>2 DEF Small!Headers
<1> HIDE DEF g
<1>3. Small!heap_end \in Small!Offsets /\ g.used[Small!heap_end]
  BY <1>2, HeapEnd
<1>4. Sound(g) /\ Small!Blocks(g) = Small!Blocks(h) /\ \A c : Small!Room(g, c)
        = Small!Room(h, c)
  BY <1>2, <1>3, SameLinks
<1>5. \A c \in Small!Blocks(h) : c \in Small!Offsets
  BY DEF Small!Blocks
<1>6. \A c \in Small!Blocks(h) \ {Small!heap_end} : h.next[c] \in Small!Blocks(h)
  BY BlockFacts
<1>7. Small!Merged(g)
  BY <1>2, <1>4, <1>5, <1>6 DEF Small!Merged
<1>8. UsedKept(h, g)
  BY <1>2, <1>4, <1>5 DEF UsedKept, Keeps
<1>9. Small!LfreeIsFree(h) /\ h.lfree # b => Small!LfreeIsFree(g)
  BY <1>2, <1>4, <1>5 DEF Small!LfreeIsFree
<1> QED BY <1>1, <1>2, <1>4, <1>7, <1>8, <1>9 DEF IsTaken, g

LEMMA TakenSplitIsTaken ==
    ASSUME Small!HeapAssumption, NEW h, Sound(h), Small!Merged(h),
             NEW b \in Small!Blocks(h), b # Small!heap_end,
           ~h.used[b], NEW n \in Nat \ {0}, Small!Splits(h, b, n)
    PROVE  IsTaken(h, Small!TakenSplit(h, b, n), b, n)
<1> DEFINE f    == Small!SplitAt(h, b, n)
           g    == Small!TakenSplit(h, b, n)
           rest == b + SIZEOF_STRUCT_MEM + n
<1>1. Small!Room(h, b) \in Int /\ n + SIZEOF_STRUCT_MEM < Small!Room(h, b)
  <2>1. Small!Room(h, b) = h.next[b] - b - SIZEOF_STRUCT_MEM /\ b \in Nat /\ h.next[b] \in Nat
    BY BlockFacts
  <2> QED BY <2>1, Sizes DEF Small!Splits
<1>2. /\ Sound(f) /\ rest \in Small!Blocks(f) /\ rest # Small!heap_end
      /\ rest \notin Small!Blocks(h)
      /\ ~f.used[rest] /\ f.next[rest] = h.next[b]
      /\ b \in Small!Blocks(f) /\ f.used[b] = h.used[b] /\ f.next[b] = rest /\ Small!Room(f,
           b) = n
      /\ \A c \in Small!Blocks(h) \ {b} : Keeps(h, f, c)
      /\ Small!Blocks(f) = Small!Blocks(h) \cup {rest}
      /\ f.lfree = h.lfree /\ f.used_mem = h.used_mem
  <2>1. IsCut(h, f, b, n, rest)
    BY <1>1, SplitIsCut
  <2> QED BY <2>1 DEF IsCut
<1>3. h.next[b] \in Small!Blocks(h) /\ h.next[b] # b
  BY BlockFacts, Sizes
<1>4. g = [[f EXCEPT !.used[b] = TRUE] EXCEPT !.used_mem = @ + n + SIZEOF_STRUCT_MEM]
  BY DEF Small!TakenSplit
<1> HIDE DEF f, g, rest
<1>5. f \in Small!Headers /\ b \in Small!Offsets /\ f.used_mem + n + SIZEOF_STRUCT_MEM \in Int
  BY <1>2, Sizes DEF Sound, Small!Blocks, Small!Headers
<1>6. /\ g \in Small!Headers /\ g.next = f.next /\ g.prev = f.prev /\ g.lfree = f.lfree
      /\ \A o \in Small!Offsets : g.used[o] = IF o = b THEN TRUE ELSE f.used[o]
  BY <1>4, <1>5 DEF Small!Headers
<1>7. Small!heap_end \in Small!Offsets /\ g.used[Small!heap_end]
  BY <1>2, <1>6, HeapEnd
<1>8. Sound(g) /\ Small!Blocks(g) = Small!Blocks(f) /\ \A c : Small!Room(g, c)
        = Small!Room(f, c)
  BY <1>2, <1>6, <1>7, SameLinks
<1>9. \A c \in Small!Blocks(g) : c \in Small!Offsets
  BY DEF Small!Blocks
<1>10. \A c \in Small!Blocks(h) \ {b} : Keeps(h, g, c)
  BY <1>2, <1>6, <1>8, <1>9 DEF Keeps
<1>11. b \in Small!Blocks(g) /\ g.used[b]
  BY <1>2, <1>6, <1>8, <1>9
<1>12. Small!Merged(g)
  <2>1. ASSUME NEW c \in Small!Blocks(g) \ {Small!heap_end} PROVE g.used[c]
                 \/ g.used[g.next[c]]
    <3>1. CASE c = b
      BY <1>11, <3>1
    <3>2. CASE c = rest
      <4>1. h.used[h.next[b]]
        BY DEF Small!Merged
      <4> QED BY <1>2, <1>3, <1>6, <1>10, <3>2, <4>1 DEF Keeps
    <3>3. CASE c # b /\ c # rest
      <4>1. c \in Small!Blocks(h) \ {b, Small!heap_end} /\ g.used[c] = h.used[c]
            /\ g.next[c] = h.next[c]
        BY <1>2, <1>8, <1>10, <3>3 DEF Keeps
      <4>2. h.next[c] \in Small!Blocks(h)
        BY <4>1, BlockFacts
      <4>3. h.used[c] \/ h.used[h.next[c]]
        BY <4>1 DEF Small!Merged
      <4> QED BY <1>10, <1>11, <4>1, <4>2, <4>3 DEF Keeps
    <3> QED BY <3>1, <3>2, <3>3
  <2> QED BY <2>1 DEF Small!Merged
<1>13. UsedKept(h, g)
  BY <1>10 DEF UsedKept
<1>14. /\ h.lfree \in Small!Blocks(h) => g.lfree \in Small!Blocks(g)
       /\ Small!LfreeIsFree(h) /\ h.lfree # b => Small!LfreeIsFree(g)
  BY <1>2, <1>6, <1>8, <1>10 DEF Small!LfreeIsFree, Keeps
<1>15. n <= Small!Room(g, b)
  BY <1>2, <1>8
<1> QED BY <1>8, <1>11, <1>12, <1>13, <1>14, <1>15 DEF IsTaken, g

\* rt_free makes block m a free one, ...
LEMMA UnusedIs ==
    ASSUME Small!HeapAssumption, NEW h, Sound(h), Small!Merged(h), Small!LfreeIsFree(h),
           NEW m \in Small!Blocks(h), m # Small!heap_end
    PROVE  LET f == Small!Unused(h, m)
           IN /\ Sound(f) /\ Small!Blocks(f) = Small!Blocks(h)
              /\ f.next = h.next /\ f.used_mem = h.used_mem - (h.next[m] - m)
              /\ ~f.used[m] /\ \A c \in Small!Blocks(h) \ {m} : f.used[c] = h.used[c]
              /\ MergedBut(f, m) /\ Small!LfreeIsFree(f)
<1> DEFINE f == Small!Unused(h, m)
<1>1. h \in Small!Headers /\ m \in Small!Offsets /\ h.next[m] - m \in Int
  BY BlockFacts DEF Sound, Small!Blocks
<1>2. /\ f \in Small!Headers /\ f.next = h.next /\ f.prev = h.prev
      /\ f.used_mem = h.used_mem - (h.next[m] - m)
      /\ f.lfree = IF m < h.lfree THEN m ELSE h.lfree
      /\ \A o \in Small!Offsets : f.used[o] = IF o = m THEN FALSE ELSE h.used[o]
  <2>1. f = [[[h EXCEPT !.used[m] = FALSE] EXCEPT !.lfree = IF m < @ THEN m ELSE @]
                EXCEPT !.used_mem = @ - (h.next[m] - m)]
    BY DEF Small!Unused
  <2> HIDE DEF f
  <2>2. h.used_mem - (h.next[m] - m) \in Int
    BY <1>1 DEF Small!Headers
  <2> QED BY <1>1, <2>1, <2>2 DEF Small!Headers
<1> HIDE DEF f
<1>3. Small!heap_end \in Small!Offsets /\ f.used[Small!heap_end]
  BY <1>2, HeapEnd
<1>4. Sound(f) /\ Small!Blocks(f) = Small!Blocks(h)
  BY <1>2, <1>3, SameLinks
<1>5. \A c \in Small!Blocks(h) : c \in Small!Offsets
  BY DEF Small!Blocks
<1>6. \A c \in Small!Blocks(h) \ {Small!heap_end} : h.next[c] \in Small!Blocks(h)
  BY BlockFacts
<1>7. MergedBut(f, m)
  BY <1>2, <1>4, <1>5, <1>6 DEF Small!Merged, MergedBut
<1>8. Small!LfreeIsFree(f)
  BY <1>1, <1>2, <1>4, <1>5 DEF Small!LfreeIsFree
<1>9. ~f.used[m] /\ \A c \in Small!Blocks(h) \ {m} : f.used[c] = h.used[c]
  BY <1>1, <1>2, <1>5
<1> QED BY <1>2, <1>4, <1>7, <1>8, <1>9 DEF f

\* ... and merges it with its neighbours.
LEMMA FreedKeeps ==
    ASSUME Small!HeapAssumption, NEW h, Sound(h), Small!Merged(h), Small!LfreeIsFree(h),
           NEW m \in Small!Blocks(h), m # Small!heap_end
    PROVE  LET g == Small!PlugHoles(Small!Unused(h, m), m)
           IN /\ Sound(g) /\ Small!Merged(g) /\ Small!LfreeIsFree(g)
              /\ \A c \in Small!Blocks(h) \ {m} : h.used[c] => Keeps(h, g, c)
<1> DEFINE f == Small!Unused(h, m)
           g == Small!PlugHoles(f, m)
<1>1. /\ Sound(f) /\ Small!Blocks(f) = Small!Blocks(h) /\ f.next = h.next
      /\ ~f.used[m] /\ \A c \in Small!Blocks(h) \ {m} : f.used[c] = h.used[c]
      /\ MergedBut(f, m) /\ Small!LfreeIsFree(f)
  BY UnusedIs
<1> HIDE DEF f
<1>2. Sound(g) /\ Small!Merged(g) /\ UsedKept(f, g) /\ Small!LfreeIsFree(g)
  BY <1>1, PlugHolesMerges
<1> HIDE DEF g
<1>3. \A c \in Small!Blocks(h) \ {m} : h.used[c] => Keeps(h, g, c)
  BY <1>1, <1>2 DEF UsedKept, Keeps
<1> QED BY <1>2, <1>3 DEF f, g

\* rt_realloc makes a free block of what it cuts off, ...
Shrunk(h, b, n) ==
    [Small!SplitAt(h, b, n) EXCEPT !.used_mem = @ - (Small!Room(h, b) - n)]

LEMMA ShrunkIs ==
    ASSUME Small!HeapAssumption, NEW h, Sound(h), Small!Merged(h), Small!LfreeIsFree(h),
           NEW b \in Small!Blocks(h), b # Small!heap_end, h.used[b],
           NEW n \in Nat \ {0}, n + SIZEOF_STRUCT_MEM < Small!Room(h, b)
    PROVE  LET rest == b + SIZEOF_STRUCT_MEM + n
               f    == Shrunk(h, b, n)
           IN /\ Sound(f) /\ MergedBut(f, rest) /\ Small!LfreeIsFree(f)
              /\ rest \in Small!Blocks(f) /\ rest # Small!heap_end /\ ~f.used[rest]
              /\ rest \notin Small!Blocks(h) /\ Small!Blocks(f) = Small!Blocks(h) \cup {rest}
              /\ f.used[b] /\ f.next[b] = rest /\ Small!Room(f, b) = n
              /\ \A c \in Small!Blocks(h) \ {b} : Keeps(h, f, c)
              /\ f.used_mem = h.used_mem - (Small!Room(h, b) - n)
<1> DEFINE e    == Small!SplitAt(h, b, n)
           rest == b + SIZEOF_STRUCT_MEM + n
<1>1. Small!Room(h, b) \in Int /\ n + SIZEOF_STRUCT_MEM < Small!Room(h, b)
  <2>1. Small!Room(h, b) = h.next[b] - b - SIZEOF_STRUCT_MEM /\ b \in Nat /\ h.next[b] \in Nat
    BY BlockFacts
  <2> QED BY <2>1, Sizes
<1>2. /\ Sound(e) /\ rest \in Small!Blocks(e) /\ rest # Small!heap_end
      /\ rest \notin Small!Blocks(h)
      /\ ~e.used[rest] /\ e.next[rest] = h.next[b]
      /\ b \in Small!Blocks(e) /\ e.used[b] = h.used[b] /\ e.next[b] = rest
      /\ Small!Room(e, b) = n
      /\ \A c \in Small!Blocks(h) \ {b} : Keeps(h, e, c)
      /\ Small!Blocks(e) = Small!Blocks(h) \cup {rest}
      /\ e.lfree = h.lfree /\ e.used_mem = h.used_mem
  <2>1. IsCut(h, e, b, n, rest)
    BY <1>1, SplitIsCut
  <2> QED BY <2>1 DEF IsCut
<1> DEFINE f == [e EXCEPT !.used_mem = @ - (Small!Room(h, b) - n)]
<1> HIDE DEF e, rest
<1>3. /\ f \in Small!Headers /\ f.next = e.next /\ f.prev = e.prev /\ f.used = e.used
      /\ f.lfree = e.lfree /\ f.used_mem = h.used_mem - (Small!Room(h, b) - n)
  <2>1. e \in Small!Headers /\ e.used_mem - (Small!Room(h, b) - n) \in Int
    BY <1>1, <1>2 DEF Sound, Small!Headers
  <2> QED BY <1>2, <2>1 DEF Small!Headers
<1> HIDE DEF f
<1>4. Sound(f) /\ Small!Blocks(f) = Small!Blocks(e) /\ \A c : Small!Room(f, c)
        = Small!Room(e, c)
  <2>1. f.used[Small!heap_end]
    BY <1>2, <1>3 DEF Sound, Small!Tiled
  <2> QED BY <1>2, <1>3, <2>1, SameLinks
<1>5. MergedBut(f, rest)
  <2>1. ASSUME NEW c \in Small!Blocks(f) \ {Small!heap_end}, c # rest
        PROVE  f.used[c] \/ f.used[f.next[c]]
    <3>1. CASE c = b
      BY <1>2, <1>3, <3>1
    <3>2. CASE c # b
      <4>1. c \in Small!Blocks(h) \ {b, Small!heap_end} /\ f.used[c] = h.used[c]
            /\ f.next[c] = h.next[c]
        BY <1>2, <1>3, <1>4, <2>1, <3>2 DEF Keeps
      <4>2. h.next[c] \in Small!Blocks(h)
        BY <4>1, BlockFacts
      <4>3. h.used[c] \/ h.used[h.next[c]]
        BY <4>1 DEF Small!Merged
      <4> QED BY <1>2, <1>3, <4>1, <4>2, <4>3 DEF Keeps
    <3> QED BY <3>1, <3>2
  <2> QED BY <2>1 DEF MergedBut
<1>6. Small!LfreeIsFree(f)
  BY <1>2, <1>3, <1>4 DEF Small!LfreeIsFree, Keeps
<1>7. \A c \in Small!Blocks(h) \ {b} : Keeps(h, f, c)
  BY <1>2, <1>3, <1>4 DEF Keeps
<1>8. Small!Room(f, b) = n
  BY <1>2, <1>4
<1> QED BY <1>2, <1>3, <1>4, <1>5, <1>6, <1>7, <1>8 DEF Shrunk, e, f, rest

\* ... and merges it with the one behind it.
LEMMA ShrunkKeeps ==
    ASSUME Small!HeapAssumption, NEW h, Sound(h), Small!Merged(h), Small!LfreeIsFree(h),
           NEW b \in Small!Blocks(h), b # Small!heap_end, h.used[b],
           NEW n \in Nat \ {0}, n + SIZEOF_STRUCT_MEM < Small!Room(h, b)
    PROVE  LET rest == b + SIZEOF_STRUCT_MEM + n
               g    == Small!PlugHoles(Shrunk(h, b, n), rest)
           IN /\ Sound(g) /\ Small!Merged(g) /\ Small!LfreeIsFree(g)
              /\ \A c \in Small!Blocks(h) \ {b} : h.used[c] => Keeps(h, g, c)
              /\ b \in Small!Blocks(g) /\ g.used[b] /\ Small!Room(g, b) = n
<1>1. PICK rest : rest = b + SIZEOF_STRUCT_MEM + n
  OBVIOUS
<1>2. PICK f : f = Shrunk(h, b, n)
  OBVIOUS
<1>3. PICK g : g = Small!PlugHoles(f, rest)
  OBVIOUS
<1>4. /\ Sound(f) /\ MergedBut(f, rest) /\ Small!LfreeIsFree(f)
      /\ rest \in Small!Blocks(f) /\ rest # Small!heap_end /\ ~f.used[rest]
      /\ Small!Blocks(f) = Small!Blocks(h) \cup {rest}
      /\ f.used[b] /\ Small!Room(f, b) = n
      /\ \A c \in Small!Blocks(h) \ {b} : Keeps(h, f, c)
  BY <1>1, <1>2, ShrunkIs
<1>5. Sound(g) /\ Small!Merged(g) /\ UsedKept(f, g) /\ Small!LfreeIsFree(g)
  BY <1>3, <1>4, PlugHolesMerges
<1>6. \A c \in Small!Blocks(h) \ {b} : h.used[c] => Keeps(h, g, c)
  BY <1>4, <1>5 DEF UsedKept, Keeps
<1>7. Keeps(f, g, b)
  BY <1>4, <1>5 DEF UsedKept
<1>8. b \in Small!Blocks(g) /\ g.used[b] /\ Small!Room(g, b) = n
  BY <1>4, <1>7 DEF Keeps, Small!Room
<1> QED BY <1>1, <1>2, <1>3, <1>5, <1>6, <1>8

-----------------------------------------------------------------------------
(* Sums over sets of numbers.                                              *)

\* A set of numbers with an element has a least one.
LEMMA HasLeast ==
    ASSUME NEW N \in SUBSET Nat, N # {}
    PROVE  \E n \in N : \A m \in N : n <= m
<1>1. PICK n \in N : \A m \in N : ~ (<<m, n>> \in OpToRel(<, Nat))
  BY NatLessThanWellFounded, WFMin
<1>2. \A m \in N : ~ (m < n)
  BY <1>1 DEF OpToRel
<1> QED BY <1>2

Pick(s) == CHOOSE x \in s : TRUE

\* What block x takes, when w says where blocks end.
Span(w, x) == w[x] - x

\* What the blocks of S take, ...
Weight(w, S) == MapThenSumSet(LAMBDA x : Span(w, x), S)

\* ... as F computes it for the sets of A, ...
Sums(F, w, A) ==
    \A s \in A : F[s] = IF s = {} THEN 0 ELSE Span(w, Pick(s)) + F[s \ {Pick(s)}]

\* ... and for all sets of blocks of S.
Computes(F, w, S) == F \in [SUBSET S -> Int] /\ Sums(F, w, SUBSET S)

\* Sums are of numbers, and depend on what is summed.
Whole(w, S) == \A x \in S : Span(w, x) \in Int

Agree(w, v, S) == \A x \in S : Span(w, x) = Span(v, x)

\* One taken from a set leaves a smaller one.
LEMMA Smaller ==
    ASSUME NEW S, IsFiniteSet(S), NEW s \in SUBSET S, NEW x \in s
    PROVE  /\ x \in S /\ s \ {x} \in SUBSET S
           /\ Cardinality(s) \in Nat /\ Cardinality(s \ {x}) = Cardinality(s) - 1
<1>1. IsFiniteSet(s)
  BY FS_Subset
<1>2. Cardinality(s) \in Nat
  BY <1>1, FS_CardinalityType
<1>3. Cardinality(s \ {x}) = Cardinality(s) - 1
  BY <1>1, FS_RemoveElement
<1> QED BY <1>2, <1>3

LEMMA Picked == ASSUME NEW s, s # {} PROVE Pick(s) \in s
BY DEF Pick

\* Of the sets for which something fails, there is one without a smaller.
LEMMA LeastSet ==
    ASSUME NEW S, IsFiniteSet(S), NEW Bad \in SUBSET (SUBSET S), Bad # {}
    PROVE  \E s \in Bad : \A x \in s : s \ {x} \notin Bad
<1> DEFINE Counts == {Cardinality(s) : s \in Bad}
<1>1. Counts \in SUBSET Nat /\ Counts # {}
  BY FS_Subset, FS_CardinalityType
<1>2. PICK n \in Counts : \A m \in Counts : n <= m
  <2> HIDE DEF Counts
  <2> QED BY <1>1, HasLeast
<1>3. PICK s \in Bad : n = Cardinality(s)
  BY <1>2
<1>4. ASSUME NEW x \in s, s \ {x} \in Bad PROVE FALSE
  <2>1. Cardinality(s) \in Nat /\ Cardinality(s \ {x}) = Cardinality(s) - 1
    BY Smaller
  <2>2. n <= Cardinality(s \ {x})
    BY <1>2, <1>4
  <2> QED BY <1>3, <2>1, <2>2
<1> QED BY <1>4

\* The sets of at most n elements.
UpTo(S, n) == {s \in SUBSET S : Cardinality(s) <= n}

LEMMA SumsUpTo ==
    ASSUME NEW S, IsFiniteSet(S), NEW w, \A x \in S : Span(w, x) \in Int, NEW n \in Nat
    PROVE  \E F \in [UpTo(S, n) -> Int] : Sums(F, w, UpTo(S, n))
<1> DEFINE Bad == {m \in Nat : ~ \E F \in [UpTo(S, m) -> Int] : Sums(F, w, UpTo(S, m))}
<1>1. SUFFICES ASSUME Bad # {} PROVE FALSE
  BY <1>1
<1>2. PICK m \in Bad : \A y \in Bad : m <= y
  <2>1. Bad \in SUBSET Nat
    OBVIOUS
  <2> HIDE DEF Bad
  <2> QED BY <1>1, <2>1, HasLeast
<1>3. m \in Nat /\ ~ \E F \in [UpTo(S, m) -> Int] : Sums(F, w, UpTo(S, m))
  BY <1>2
<1>4. CASE m = 0
  <2> DEFINE F == [s \in UpTo(S, 0) |-> 0]
  <2>1. \A s \in UpTo(S, 0) : s = {}
    <3> SUFFICES ASSUME NEW s \in SUBSET S, Cardinality(s) <= 0 PROVE s = {}
      BY DEF UpTo
    <3>1. IsFiniteSet(s)
      BY FS_Subset
    <3>2. Cardinality(s) \in Nat
      BY <3>1, FS_CardinalityType
    <3>3. Cardinality(s) = 0
      BY <3>2
    <3> QED BY <3>1, <3>3, FS_EmptySet
  <2>2. F \in [UpTo(S, 0) -> Int] /\ Sums(F, w, UpTo(S, 0))
    BY <2>1 DEF Sums
  <2> QED BY <1>3, <1>4, <2>2
<1>5. CASE m # 0
  <2>1. m - 1 \in Nat /\ ~(m <= m - 1)
    BY <1>3, <1>5
  <2>2. PICK F \in [UpTo(S, m - 1) -> Int] : Sums(F, w, UpTo(S, m - 1))
    BY <1>2, <2>1
  <2> DEFINE G == [s \in UpTo(S, m) |->
                      IF s = {} THEN 0 ELSE Span(w, Pick(s)) + F[s \ {Pick(s)}]]
  <2>3. ASSUME NEW s \in UpTo(S, m), s # {}
        PROVE  s \ {Pick(s)} \in UpTo(S, m - 1) /\ Pick(s) \in S
    <3>1. s \in SUBSET S /\ Cardinality(s) <= m /\ Pick(s) \in s
      BY <2>3, Picked DEF UpTo
    <3>2. /\ Pick(s) \in S /\ s \ {Pick(s)} \in SUBSET S
          /\ Cardinality(s) \in Nat /\ Cardinality(s \ {Pick(s)}) = Cardinality(s) - 1
      BY <3>1, Smaller
    <3>3. Cardinality(s \ {Pick(s)}) <= m - 1
      BY <1>3, <3>1, <3>2
    <3> QED BY <3>2, <3>3 DEF UpTo
  <2>4. UpTo(S, m - 1) \subseteq UpTo(S, m)
    <3> SUFFICES ASSUME NEW s \in UpTo(S, m - 1) PROVE s \in UpTo(S, m)
      OBVIOUS
    <3>1. s \in SUBSET S /\ Cardinality(s) <= m - 1
      BY DEF UpTo
    <3>2. Cardinality(s) \in Nat
      BY <3>1, FS_Subset, FS_CardinalityType
    <3>3. Cardinality(s) <= m
      BY <1>3, <3>1, <3>2
    <3> QED BY <3>1, <3>3 DEF UpTo
  <2>5. \A s \in UpTo(S, m) : G[s] \in Int
    <3> SUFFICES ASSUME NEW s \in UpTo(S, m), s # {}
                 PROVE  Span(w, Pick(s)) + F[s \ {Pick(s)}] \in Int
      OBVIOUS
    <3>1. Span(w, Pick(s)) \in Int /\ F[s \ {Pick(s)}] \in Int
      BY <2>2, <2>3 DEF Sums
    <3> QED BY <3>1
  <2>6. \A s \in UpTo(S, m - 1) : G[s] = F[s]
    BY <2>2, <2>4 DEF Sums
  <2>7. \A s \in UpTo(S, m) :
           G[s] = IF s = {} THEN 0 ELSE Span(w, Pick(s)) + G[s \ {Pick(s)}]
    BY <2>3, <2>6
  <2>8. G \in [UpTo(S, m) -> Int] /\ Sums(G, w, UpTo(S, m))
    <3>1. G \in [UpTo(S, m) -> Int]
      BY <2>5
    <3> HIDE DEF G
    <3> QED BY <2>7, <3>1 DEF Sums
  <2> QED BY <1>3, <2>8
<1> QED BY <1>4, <1>5

\* Two that compute the sum agree on the sets both know.
LEMMA SumsAgree ==
    ASSUME NEW S, IsFiniteSet(S), NEW T \in SUBSET S, NEW w, NEW v,
           Agree(w, v, T),
           NEW F, Computes(F, w, S), NEW G, Computes(G, v, T)
    PROVE  F[T] = G[T]
<1> DEFINE Bad == {s \in SUBSET T : F[s] # G[s]}
<1>1. SUFFICES ASSUME Bad # {} PROVE FALSE
  <2>1. \A s \in SUBSET T : F[s] = G[s]
    BY <1>1
  <2> QED BY <2>1
<1>2. PICK s \in Bad : \A x \in s : s \ {x} \notin Bad
  <2>1. Bad \in SUBSET (SUBSET T) /\ IsFiniteSet(T)
    BY FS_Subset
  <2> HIDE DEF Bad
  <2> QED BY <1>1, <2>1, LeastSet
<1>3. s \in SUBSET T /\ s \in SUBSET S /\ F[s] # G[s]
  BY <1>2
<1>4. s # {}
  BY <1>3 DEF Sums, Computes
<1>5. Pick(s) \in s
  BY <1>4, Picked
<1>6. F[s \ {Pick(s)}] = G[s \ {Pick(s)}] /\ Span(w, Pick(s)) = Span(v, Pick(s))
  BY <1>2, <1>3, <1>5 DEF Agree
<1>7. F[s] = Span(w, Pick(s)) + F[s \ {Pick(s)}] /\ G[s] = Span(v, Pick(s)) + G[s \ {Pick(s)}]
  BY <1>3, <1>4 DEF Sums, Computes
<1> QED BY <1>3, <1>6, <1>7

\* The sum is computed set by set.
LEMMA WeightIs ==
    ASSUME NEW S, IsFiniteSet(S), NEW w, Whole(w, S)
    PROVE  \E F : Computes(F, w, S) /\ Weight(w, S) = F[S]
<1> DEFINE n == Cardinality(S)
           Makes(F) == F = [s \in SUBSET S |-> IF s = {} THEN 0
                              ELSE LET x == CHOOSE x \in s : TRUE
                                   IN  Span(w, x) + F[s \ {x}]]
           g == CHOOSE F : Makes(F)
<1>1. n \in Nat
  BY FS_CardinalityType
<1>2. PICK F \in [UpTo(S, n) -> Int] : Sums(F, w, UpTo(S, n))
  BY <1>1, SumsUpTo DEF Whole
<1>3. UpTo(S, n) = SUBSET S
  BY FS_Subset DEF UpTo
<1>4. Computes(F, w, S)
  BY <1>2, <1>3 DEF Computes
<1>5. Makes(F)
  <2>1. F = [s \in SUBSET S |-> F[s]]
    BY <1>4 DEF Sums, Computes
  <2> QED BY <1>4, <2>1 DEF Sums, Computes, Pick
<1>6. Makes(g)
  <2> HIDE DEF Makes
  <2> QED BY <1>5
<1>7. Weight(w, S) = g[S]
  BY DEF Weight, MapThenSumSet, MapThenFoldSet
<1> HIDE DEF g
<1>8. \A s \in SUBSET S : g[s] = IF s = {} THEN 0 ELSE Span(w, Pick(s)) + g[s \ {Pick(s)}]
  BY <1>6 DEF Pick
<1>9. g \in [SUBSET S -> Int]
  <2>1. g = [s \in SUBSET S |-> g[s]]
    BY <1>6
  <2>2. \A s \in SUBSET S : g[s] \in Int
    <3> DEFINE Bad == {s \in SUBSET S : g[s] \notin Int}
    <3>1. SUFFICES ASSUME Bad # {} PROVE FALSE
      BY <3>1
    <3>2. PICK s \in Bad : \A x \in s : s \ {x} \notin Bad
      <4>1. Bad \in SUBSET (SUBSET S)
        OBVIOUS
      <4> HIDE DEF Bad
      <4> QED BY <3>1, <4>1, LeastSet
    <3>3. s \in SUBSET S /\ g[s] \notin Int
      BY <3>2
    <3>4. s # {}
      <4>1. g[{}] = 0
        BY <1>8
      <4>2. g[{}] \in Int
        BY <4>1
      <4> QED BY ONLY <3>3, <4>2
    <3>5. Pick(s) \in s
      BY <3>4, Picked
    <3>6. g[s \ {Pick(s)}] \in Int /\ Span(w, Pick(s)) \in Int
      BY <3>2, <3>3, <3>5 DEF Whole
    <3>7. g[s] = Span(w, Pick(s)) + g[s \ {Pick(s)}]
      BY <1>8, <3>3, <3>4
    <3> QED BY <3>3, <3>6, <3>7
  <2> QED BY <2>1, <2>2
<1>10. Computes(g, w, S)
  BY <1>8, <1>9 DEF Sums, Computes
<1> QED BY <1>7, <1>10

\* Any element may be the one that is added last.
LEMMA SumsWithout ==
    ASSUME NEW S, IsFiniteSet(S), NEW w, Whole(w, S),
           NEW F, Computes(F, w, S), NEW x \in S
    PROVE  F[S] = Span(w, x) + F[S \ {x}]
<1> DEFINE Good(s) == \A u \in s : F[s] = Span(w, u) + F[s \ {u}]
           Bad == {s \in SUBSET S : ~Good(s)}
<1>1. SUFFICES ASSUME Bad # {} PROVE FALSE
  <2>1. Good(S)
    BY <1>1
  <2> QED BY <2>1
<1>2. PICK s \in Bad : \A u \in s : s \ {u} \notin Bad
  <2>1. Bad \in SUBSET (SUBSET S)
    OBVIOUS
  <2> HIDE DEF Bad
  <2> QED BY <1>1, <2>1, LeastSet
<1>3. s \in SUBSET S /\ ~Good(s) /\ \A u \in s : Good(s \ {u})
  BY <1>2
<1>4. PICK z \in s : F[s] # Span(w, z) + F[s \ {z}]
  BY <1>3
<1>5. PICK y \in s : y = Pick(s)
  BY <1>4, Picked
<1>6. F[s] = Span(w, y) + F[s \ {y}]
  BY <1>3, <1>5 DEF Sums, Computes
<1>7. z # y
  BY <1>4, <1>6
<1>8. F[s \ {y}] = Span(w, z) + F[(s \ {y}) \ {z}]
  BY <1>3, <1>7
<1>9. F[s \ {z}] = Span(w, y) + F[(s \ {z}) \ {y}]
  BY <1>3, <1>7
<1>10. (s \ {y}) \ {z} = (s \ {z}) \ {y}
  OBVIOUS
<1>11. PICK r : r = F[(s \ {z}) \ {y}]
  OBVIOUS
<1>12. Span(w, z) \in Int /\ Span(w, y) \in Int /\ r \in Int
  <2>1. (s \ {z}) \ {y} \in SUBSET S
    BY <1>3
  <2>2. F[(s \ {z}) \ {y}] \in Int
    BY <2>1 DEF Sums, Computes
  <2> QED BY <1>3, <1>11, <2>2 DEF Whole
<1>13. F[s] = Span(w, y) + (Span(w, z) + r) /\ F[s \ {z}] = Span(w, y) + r
  BY <1>6, <1>8, <1>9, <1>10, <1>11
<1>14. F[s] = Span(w, z) + F[s \ {z}]
  BY ONLY <1>12, <1>13
<1> QED BY <1>4, <1>14

\* What a set takes is what a block of it takes and what the others take.
LEMMA WeightWithout ==
    ASSUME NEW S, IsFiniteSet(S), NEW w, Whole(w, S), NEW x \in S
    PROVE  Weight(w, S) = Span(w, x) + Weight(w, S \ {x}) /\ Weight(w, S \ {x}) \in Int
<1> DEFINE T == S \ {x}
<1>1. T \in SUBSET S /\ IsFiniteSet(T)
  BY FS_Subset
<1>2. PICK F : Computes(F, w, S) /\ Weight(w, S) = F[S]
  BY WeightIs
<1>3. PICK G : Computes(G, w, T) /\ Weight(w, T) = G[T]
  <2>1. Whole(w, T)
    BY DEF Whole
  <2> HIDE DEF T
  <2> QED BY <1>1, <2>1, WeightIs
<1>4. F[T] = G[T]
  <2> HIDE DEF T
  <2>1. Agree(w, w, T)
    BY DEF Agree
  <2> QED BY <1>1, <1>2, <1>3, <2>1, SumsAgree
<1>5. F[S] = Span(w, x) + F[T] /\ F[T] \in Int
  <2>1. F[S] = Span(w, x) + F[S \ {x}]
    BY <1>2, SumsWithout
  <2>2. F[T] \in Int
    BY <1>1, <1>2 DEF Sums, Computes
  <2> QED BY <2>1, <2>2
<1> QED BY <1>2, <1>3, <1>4, <1>5

\* It depends on where the blocks of the set end, and on nothing else.
LEMMA SameWeight ==
    ASSUME NEW S, IsFiniteSet(S), NEW w, Whole(w, S), NEW v,
           Agree(w, v, S)
    PROVE  Weight(v, S) = Weight(w, S)
<1>1. PICK F : Computes(F, w, S) /\ Weight(w, S) = F[S]
  BY WeightIs
<1>2. PICK G : Computes(G, v, S) /\ Weight(v, S) = G[S]
  <2>1. Whole(v, S)
    BY DEF Whole, Agree
  <2> QED BY <2>1, WeightIs
<1>3. F[S] = G[S]
  <2>1. S \in SUBSET S /\ Agree(w, v, S)
    BY DEF Agree
  <2> QED BY <1>1, <1>2, <2>1, SumsAgree
<1> QED BY <1>1, <1>2, <1>3

-----------------------------------------------------------------------------
(* What the blocks in use take.                                            *)

InUse(h) == {b \in Small!Blocks(h) \ {Small!heap_end} : h.used[b]}

Taken(h) == Weight(h.next, InUse(h))

\* What block b adds to it.
Part(h, b) == IF b \in InUse(h) THEN h.next[b] - b ELSE 0

LEMMA InUseFacts ==
    ASSUME Small!HeapAssumption, NEW h, Sound(h)
    PROVE  /\ IsFiniteSet(InUse(h)) /\ Whole(h.next, InUse(h))
           /\ Taken(h) \in Int /\ h.used_mem \in Int
           /\ \A b : Part(h, b) \in Int
<1>1. IsFiniteSet(InUse(h))
  <2>1. IsFiniteSet(Small!Offsets)
    BY Sizes, FS_Interval
  <2>2. InUse(h) \in SUBSET Small!Offsets
    BY DEF InUse, Small!Blocks
  <2> QED BY <2>1, <2>2, FS_Subset
<1>2. \A b \in InUse(h) : b \in Nat /\ h.next[b] \in Nat
  BY BlockFacts DEF InUse
<1>3. Whole(h.next, InUse(h))
  BY <1>2 DEF Whole, Span
<1>4. Taken(h) \in Int
  <2>1. PICK S : S = InUse(h)
    OBVIOUS
  <2>2. PICK F : Computes(F, h.next, S) /\ Weight(h.next, S) = F[S]
    BY <1>1, <1>3, <2>1, WeightIs
  <2>3. F[S] \in Int
    BY <2>2 DEF Computes
  <2> QED BY <2>1, <2>2, <2>3 DEF Taken
<1>5. \A b : Part(h, b) \in Int
  BY <1>2 DEF Part
<1>6. h.used_mem \in Int
  BY DEF Sound, Small!Headers
<1> QED BY <1>1, <1>3, <1>4, <1>5, <1>6

\* Blocks other than b are in use as they were.
SameBut(h, g, b) ==
    /\ InUse(g) \ {b} = InUse(h) \ {b}
    /\ \A c \in InUse(h) \ {b} : g.next[c] = h.next[c]

LEMMA TakenIs ==
    ASSUME Small!HeapAssumption, NEW h, Sound(h), NEW b
    PROVE  /\ Taken(h) = Part(h, b) + Weight(h.next, InUse(h) \ {b})
           /\ Weight(h.next, InUse(h) \ {b}) \in Int
<1>1. PICK S : S = InUse(h)
  OBVIOUS
<1>2. IsFiniteSet(S) /\ Whole(h.next, S) /\ Taken(h) \in Int
  BY <1>1, InUseFacts
<1>3. CASE b \in S
  <2>1. Weight(h.next, S) = Span(h.next, b) + Weight(h.next, S \ {b})
        /\ Weight(h.next, S \ {b}) \in Int
    BY <1>2, <1>3, WeightWithout
  <2> QED BY <1>1, <1>3, <2>1 DEF Taken, Part, Span
<1>4. CASE b \notin S
  <2>1. S \ {b} = S
    BY <1>4
  <2>2. Taken(h) = Weight(h.next, S \ {b}) /\ Part(h, b) = 0
    BY <1>1, <1>4, <2>1 DEF Taken, Part
  <2> QED BY <1>1, <1>2, <2>2
<1> QED BY <1>3, <1>4

\* What is in use changes by what b takes, ...
LEMMA TakenChange ==
    ASSUME Small!HeapAssumption, NEW h, Sound(h), NEW g, Sound(g), NEW b, SameBut(h, g, b)
    PROVE  Taken(g) - Part(g, b) = Taken(h) - Part(h, b)
<1>1. PICK R : R = InUse(h) \ {b} /\ R = InUse(g) \ {b}
  BY DEF SameBut
<1>2. IsFiniteSet(R) /\ Whole(h.next, R)
  <2>1. IsFiniteSet(InUse(h)) /\ Whole(h.next, InUse(h)) /\ R \in SUBSET InUse(h)
    BY <1>1, InUseFacts
  <2> QED BY <2>1, FS_Subset DEF Whole
<1>3. Agree(h.next, g.next, R)
  BY <1>1 DEF SameBut, Agree, Span
<1>4. Weight(g.next, R) = Weight(h.next, R)
  BY <1>2, <1>3, SameWeight
<1>5. Taken(h) = Part(h, b) + Weight(h.next, R) /\ Weight(h.next, R) \in Int
  BY <1>1, TakenIs
<1>6. Taken(g) = Part(g, b) + Weight(g.next, R) /\ Weight(g.next, R) \in Int
  BY <1>1, TakenIs
<1>7. Part(h, b) \in Int /\ Part(g, b) \in Int
  BY InUseFacts
<1> QED BY ONLY <1>4, <1>5, <1>6, <1>7

\* ... and so does used_mem: g is h after an operation on b.
Accounts(h, g, b) ==
    SameBut(h, g, b) /\ g.used_mem - Part(g, b) = h.used_mem - Part(h, b)

\* A count that was exact is exact.
LEMMA StaysExact ==
    ASSUME Small!HeapAssumption, NEW h, Sound(h), NEW g, Sound(g), NEW b,
           Accounts(h, g, b), h.used_mem = Taken(h)
    PROVE  g.used_mem = Taken(g)
<1>1. Taken(g) - Part(g, b) = Taken(h) - Part(h, b)
  BY TakenChange DEF Accounts
<1>2. g.used_mem - Part(g, b) = h.used_mem - Part(h, b)
  BY DEF Accounts
<1>3. /\ Part(h, b) \in Int /\ Part(g, b) \in Int /\ Taken(h) \in Int /\ Taken(g) \in Int
      /\ g.used_mem \in Int
  BY InUseFacts
<1> QED BY ONLY <1>1, <1>2, <1>3, h.used_mem = Taken(h)

\* Merging holes changes neither.
SameUse(h, g) ==
    /\ InUse(g) = InUse(h) /\ g.used_mem = h.used_mem
    /\ \A c \in InUse(h) : g.next[c] = h.next[c]

LEMMA AbsorbedUses ==
    ASSUME Small!HeapAssumption, NEW h, Sound(h), NEW b \in Small!Blocks(h),
           b # Small!heap_end, h.next[b] # Small!heap_end, ~h.used[b], ~h.used[h.next[b]]
    PROVE  SameUse(h, Small!Absorbed(h, b))
<1>1. PICK g : g = Small!Absorbed(h, b)
  OBVIOUS
<1>2. PICK n : n = h.next[b]
  OBVIOUS
<1>3. IsAbsorbed(h, g, b)
  BY <1>1, AbsorbedIsAbsorbed
<1>4. /\ g.used_mem = h.used_mem /\ Small!Blocks(g) = Small!Blocks(h) \ {n}
      /\ \A o \in Small!Offsets : /\ g.used[o] = h.used[o]
                                  /\ o # b /\ o # n => g.next[o] = h.next[o]
  BY <1>2, <1>3 DEF IsAbsorbed
<1>5. \A c \in Small!Blocks(h) : c \in Small!Offsets
  BY DEF Small!Blocks
<1>6. ~h.used[n]
  BY <1>2
<1>7. InUse(g) = InUse(h)
  BY <1>4, <1>5, <1>6 DEF InUse
<1>8. \A c \in InUse(h) : c # b /\ c # n /\ c \in Small!Offsets
  BY <1>5, <1>6 DEF InUse
<1> QED BY <1>1, <1>4, <1>7, <1>8 DEF SameUse

LEMMA PlugHolesUses ==
    ASSUME Small!HeapAssumption, NEW h, Sound(h), NEW m \in Small!Blocks(h),
           m # Small!heap_end, ~h.used[m], MergedBut(h, m), Small!LfreeIsFree(h)
    PROVE  SameUse(h, Small!PlugHoles(h, m))
<1>1. PICK f : f = Small!Forward(h, m)
  OBVIOUS
<1>2. Sound(f) /\ m \in Small!Blocks(f) /\ ~f.used[m]
  BY <1>1, ForwardMerges
<1>3. SameUse(h, f)
  <2>1. CASE h.next[m] # m /\ ~h.used[h.next[m]] /\ h.next[m] # Small!heap_end
    BY <1>1, <2>1, AbsorbedUses DEF Small!Forward
  <2>2. CASE ~(h.next[m] # m /\ ~h.used[h.next[m]] /\ h.next[m] # Small!heap_end)
    <3>1. f = h
      BY <1>1, <2>2 DEF Small!Forward
    <3> QED BY <3>1 DEF SameUse
  <2> QED BY <2>1, <2>2
<1>4. SameUse(f, Small!Backward(f, m))
  <2>1. CASE f.prev[m] # m /\ ~f.used[f.prev[m]]
    <3>1. PICK p : p = f.prev[m]
      OBVIOUS
    <3>2. m # 0
      BY <1>2, <2>1 DEF Sound, Linked
    <3>3. p \in Small!Blocks(f) \ {Small!heap_end} /\ f.next[p] = m
      BY <1>2, <3>1, <3>2 DEF Sound, Linked
    <3>4. SameUse(f, Small!Absorbed(f, p))
      BY <1>2, <2>1, <3>1, <3>3, AbsorbedUses
    <3> QED BY <2>1, <3>1, <3>4 DEF Small!Backward
  <2>2. CASE ~(f.prev[m] # m /\ ~f.used[f.prev[m]])
    BY <2>2 DEF Small!Backward, SameUse
  <2> QED BY <2>1, <2>2
<1>5. Small!PlugHoles(h, m) = Small!Backward(f, m)
  BY <1>1 DEF Small!PlugHoles
<1> QED BY <1>3, <1>4, <1>5 DEF SameUse

-----------------------------------------------------------------------------
(* used_mem follows.                                                       *)

\* rt_malloc takes a block whole, ...
LEMMA TakenWholeAccounts ==
    ASSUME Small!HeapAssumption, NEW h, Sound(h), NEW b \in Small!Blocks(h),
           b # Small!heap_end, ~h.used[b]
    PROVE  Accounts(h, Small!TakenWhole(h, b), b)
<1>1. PICK g : g = Small!TakenWhole(h, b)
  OBVIOUS
<1>2. h \in Small!Headers /\ b \in Small!Offsets /\ h.next[b] - b \in Int
  BY BlockFacts DEF Sound, Small!Blocks
<1>3. /\ g.next = h.next
      /\ g.used_mem = h.used_mem + (h.next[b] - b)
      /\ \A o \in Small!Offsets : g.used[o] = IF o = b THEN TRUE ELSE h.used[o]
  <2>1. g = [[h EXCEPT !.used[b] = TRUE] EXCEPT !.used_mem = @ + (h.next[b] - b)]
    BY <1>1 DEF Small!TakenWhole
  <2> QED BY <1>2, <2>1 DEF Small!Headers
<1>4. Small!Blocks(g) = Small!Blocks(h)
  BY <1>3 DEF Small!Blocks
<1>5. \A c \in Small!Blocks(h) : c \in Small!Offsets
  BY DEF Small!Blocks
<1>6. SameBut(h, g, b)
  BY <1>3, <1>4, <1>5 DEF SameBut, InUse
<1>7. Part(h, b) = 0 /\ Part(g, b) = h.next[b] - b
  BY <1>3, <1>4, <1>5 DEF Part, InUse
<1>8. h.used_mem \in Int
  BY InUseFacts
<1>9. g.used_mem - Part(g, b) = h.used_mem - Part(h, b)
  <2>1. PICK d \in Int : d = h.next[b] - b
    BY <1>2
  <2>2. g.used_mem = h.used_mem + d /\ Part(g, b) = d
    BY <1>3, <1>7, <2>1
  <2> QED BY ONLY <1>7, <1>8, <2>2
<1> QED BY <1>1, <1>6, <1>9 DEF Accounts

\* ... or cut.
LEMMA TakenSplitAccounts ==
    ASSUME Small!HeapAssumption, NEW h, Sound(h), NEW b \in Small!Blocks(h),
           b # Small!heap_end, ~h.used[b], NEW n \in Nat \ {0}, Small!Splits(h, b, n)
    PROVE  Accounts(h, Small!TakenSplit(h, b, n), b)
<1>1. PICK g : g = Small!TakenSplit(h, b, n)
  OBVIOUS
<1>2. PICK f : f = Small!SplitAt(h, b, n)
  OBVIOUS
<1>3. PICK rest : rest = b + SIZEOF_STRUCT_MEM + n
  OBVIOUS
<1>4. b \in Nat /\ SIZEOF_STRUCT_MEM \in Nat /\ MIN_SIZE \in Nat \ {0} /\ n \in Nat
      /\ h.next[b] \in Nat /\ Small!Room(h, b) = h.next[b] - b - SIZEOF_STRUCT_MEM
  BY BlockFacts, Sizes
<1>5. n + SIZEOF_STRUCT_MEM < Small!Room(h, b)
  <2>1. Small!Room(h, b) >= n + SIZEOF_STRUCT_MEM + MIN_SIZE
    BY DEF Small!Splits
  <2> QED BY ONLY <1>4, <2>1
<1>6. IsCut(h, f, b, n, rest)
  BY <1>2, <1>3, <1>5, SplitIsCut
<1>7. /\ f \in Small!Headers
      /\ rest \notin Small!Blocks(h) /\ ~f.used[rest] /\ f.next[b] = rest
      /\ \A c \in Small!Blocks(h) \ {b} : f.used[c] = h.used[c] /\ f.next[c] = h.next[c]
      /\ Small!Blocks(f) = Small!Blocks(h) \cup {rest} /\ f.used_mem = h.used_mem
  BY <1>6 DEF IsCut, Keeps, Sound
<1>8. \A c \in Small!Blocks(h) : c \in Small!Offsets
  BY DEF Small!Blocks
<1>9. /\ g.next = f.next /\ g.used_mem = f.used_mem + n + SIZEOF_STRUCT_MEM
      /\ \A o \in Small!Offsets : g.used[o] = IF o = b THEN TRUE ELSE f.used[o]
  <2>1. g = [[f EXCEPT !.used[b] = TRUE] EXCEPT !.used_mem = @ + n + SIZEOF_STRUCT_MEM]
    BY <1>1, <1>2 DEF Small!TakenSplit
  <2>2. f.used_mem + n + SIZEOF_STRUCT_MEM \in Int
    BY <1>4, <1>7 DEF Small!Headers
  <2> QED BY <1>7, <1>8, <2>1, <2>2 DEF Small!Headers
<1>10. Small!Blocks(g) = Small!Blocks(h) \cup {rest} /\ rest \in Small!Offsets
  BY <1>7, <1>9 DEF Small!Blocks
<1>11. b # rest
  BY <1>7
<1>12. ~g.used[rest]
  BY <1>7, <1>9, <1>10, <1>11
<1>13. \A c \in Small!Blocks(h) \ {b} : g.used[c] = h.used[c] /\ g.next[c] = h.next[c]
  BY <1>7, <1>8, <1>9
<1>14. SameBut(h, g, b)
  BY <1>7, <1>10, <1>12, <1>13 DEF SameBut, InUse
<1>15. Part(h, b) = 0 /\ Part(g, b) = rest - b
  BY <1>7, <1>8, <1>9, <1>10 DEF Part, InUse
<1>16. h.used_mem \in Int
  BY InUseFacts
<1>17. g.used_mem - Part(g, b) = h.used_mem - Part(h, b)
  BY ONLY <1>3, <1>4, <1>7, <1>9, <1>15, <1>16
<1> QED BY <1>1, <1>14, <1>17 DEF Accounts

\* rt_free gives back what block m takes, ...
LEMMA FreedAccounts ==
    ASSUME Small!HeapAssumption, NEW h, Sound(h), Small!Merged(h), Small!LfreeIsFree(h),
           NEW m \in Small!Blocks(h), m # Small!heap_end, h.used[m]
    PROVE  Accounts(h, Small!PlugHoles(Small!Unused(h, m), m), m)
<1>1. PICK f : f = Small!Unused(h, m)
  OBVIOUS
<1>2. PICK g : g = Small!PlugHoles(f, m)
  OBVIOUS
<1>3. /\ Sound(f) /\ Small!Blocks(f) = Small!Blocks(h)
      /\ f.next = h.next /\ f.used_mem = h.used_mem - (h.next[m] - m)
      /\ ~f.used[m] /\ \A c \in Small!Blocks(h) \ {m} : f.used[c] = h.used[c]
      /\ MergedBut(f, m) /\ Small!LfreeIsFree(f)
  BY <1>1, UnusedIs
<1>4. SameUse(f, g)
  BY <1>2, <1>3, PlugHolesUses
<1>5. InUse(f) = InUse(h) \ {m}
  BY <1>3 DEF InUse
<1>6. SameBut(h, g, m)
  BY <1>3, <1>4, <1>5 DEF SameBut, SameUse
<1>7. Part(h, m) = h.next[m] - m /\ Part(g, m) = 0
  BY <1>4, <1>5 DEF Part, SameUse, InUse
<1>8. h.used_mem \in Int /\ h.next[m] - m \in Int
  BY InUseFacts, BlockFacts
<1>9. g.used_mem - Part(g, m) = h.used_mem - Part(h, m)
  <2>1. g.used_mem = h.used_mem - (h.next[m] - m)
    BY <1>3, <1>4 DEF SameUse
  <2>2. PICK d \in Int : d = h.next[m] - m
    BY <1>8
  <2>3. g.used_mem = h.used_mem - d /\ Part(h, m) = d
    BY <1>7, <2>1, <2>2
  <2> QED BY ONLY <1>7, <1>8, <2>3
<1> QED BY <1>1, <1>2, <1>6, <1>9 DEF Accounts

\* ... and rt_realloc what it cuts off.
LEMMA ShrunkAccounts ==
    ASSUME Small!HeapAssumption, NEW h, Sound(h), Small!Merged(h), Small!LfreeIsFree(h),
           NEW b \in Small!Blocks(h), b # Small!heap_end, h.used[b],
           NEW n \in Nat \ {0}, n + SIZEOF_STRUCT_MEM < Small!Room(h, b)
    PROVE  Accounts(h, Small!PlugHoles(Shrunk(h, b, n), b + SIZEOF_STRUCT_MEM + n), b)
<1>1. PICK rest : rest = b + SIZEOF_STRUCT_MEM + n
  OBVIOUS
<1>2. PICK f : f = Shrunk(h, b, n)
  OBVIOUS
<1>3. PICK g : g = Small!PlugHoles(f, rest)
  OBVIOUS
<1>4. /\ Sound(f) /\ MergedBut(f, rest) /\ Small!LfreeIsFree(f)
      /\ rest \in Small!Blocks(f) /\ rest # Small!heap_end /\ ~f.used[rest]
      /\ rest \notin Small!Blocks(h) /\ Small!Blocks(f) = Small!Blocks(h) \cup {rest}
      /\ f.used[b] /\ f.next[b] = rest
      /\ \A c \in Small!Blocks(h) \ {b} : Keeps(h, f, c)
      /\ f.used_mem = h.used_mem - (Small!Room(h, b) - n)
  BY <1>1, <1>2, ShrunkIs
<1>5. SameUse(f, g)
  BY <1>3, <1>4, PlugHolesUses
<1>6. InUse(f) = InUse(h)
  BY <1>4 DEF InUse, Keeps
<1>7. SameBut(h, g, b)
  BY <1>4, <1>5, <1>6 DEF SameBut, SameUse, Keeps, InUse
<1>8. b \in InUse(h)
  BY DEF InUse
<1>9. Part(h, b) = h.next[b] - b /\ Part(g, b) = rest - b
  BY <1>4, <1>5, <1>6, <1>8 DEF Part, SameUse
<1>10. /\ b \in Nat /\ SIZEOF_STRUCT_MEM \in Nat /\ n \in Nat /\ h.next[b] \in Nat
       /\ Small!Room(h, b) = h.next[b] - b - SIZEOF_STRUCT_MEM /\ h.used_mem \in Int
  BY InUseFacts, BlockFacts, Sizes
<1>11. g.used_mem = h.used_mem - (Small!Room(h, b) - n)
  BY <1>4, <1>5 DEF SameUse
<1>12. g.used_mem - Part(g, b) = h.used_mem - Part(h, b)
  BY ONLY <1>1, <1>9, <1>10, <1>11
<1> QED BY <1>1, <1>2, <1>3, <1>7, <1>12 DEF Accounts

-----------------------------------------------------------------------------
(* The calls of the threads.                                               *)

\* A block in use that is no caller's: rt_malloc is about to return it, or
\* rt_free is about to free it.
Owns(t) == pc[t] \in {"lowest", "done", "free"}

CallOK(t) ==
    /\ pc[t] \in {"malloc", "scan", "lowest", "done"} => size[t] >= MIN_SIZE
    /\ pc[t] = "realloc" => size[t] > 0
    /\ pc[t] = "scan" => ptr[t] \in Small!Blocks(heap)
    /\ Owns(t) => /\ ptr[t] \in Small!Blocks(heap) \ {Small!heap_end} /\ heap.used[ptr[t]]
                  /\ ptr[t] + SIZEOF_STRUCT_MEM \notin DOMAIN given
    /\ pc[t] \in {"lowest", "done"} => size[t] <= Small!Room(heap, ptr[t])
    /\ pc[t] \in {"realloc", "copied"} => old[t] # Small!NoBlock
    /\ pc[t] \in {"ready", "free"} => old[t] = Small!NoBlock
    /\ old[t] # Small!NoBlock => old[t] \in DOMAIN given

Apart ==
    \A t, u \in Threads : t # u =>
        /\ old[t] = old[u] => old[t] = Small!NoBlock
        /\ Owns(t) /\ Owns(u) => ptr[t] # ptr[u]

\* Who searches has the token, and who is not in a call does not wait for it.
QueueOK ==
    /\ IsInjective(heap_sem)
    /\ \A t \in Threads :
          /\ pc[t] \in {"scan", "lowest", "done"} => Small!Holds(t)
          /\ pc[t] \in {"ready", "copied"} => t \notin Small!Range(heap_sem)

LfreeOK ==
    /\ heap.lfree \in Small!Blocks(heap)
    /\ (\A t \in Threads : pc[t] # "lowest") => Small!LfreeIsFree(heap)

IInv ==
    /\ Small!TypeOK /\ app \in Applications
    /\ Sound(heap) /\ Small!Merged(heap) /\ Small!AreasFit(heap) /\ LfreeOK
    /\ \A t \in Threads : CallOK(t)
    /\ Apart /\ QueueOK

\* What the queue of the semaphore is after rt_sem_take and rt_sem_release.
LEMMA QueueTaken ==
    ASSUME NEW S, NEW q \in Seq(S), NEW t \in S, t \notin Small!Range(q), IsInjective(q)
    PROVE  /\ Append(q, t) \in Seq(S) /\ IsInjective(Append(q, t))
           /\ Small!Range(Append(q, t)) = Small!Range(q) \cup {t}
           /\ \A u : q # <<>> /\ Head(q) = u => Append(q, t) # <<>> /\ Head(Append(q, t)) = u
<1> DEFINE r == Append(q, t)
<1>1. /\ r \in Seq(S) /\ Len(q) \in Nat /\ Len(r) = Len(q) + 1
      /\ DOMAIN q = 1..Len(q) /\ DOMAIN r = 1..Len(q) + 1
      /\ r[Len(q) + 1] = t /\ \A i \in 1..Len(q) : r[i] = q[i]
  OBVIOUS
<1>2. \A u : q # <<>> /\ Head(q) = u => r # <<>> /\ Head(r) = u
  OBVIOUS
<1>3. \A i \in 1..Len(q) : q[i] # t
  BY <1>1 DEF Small!Range
<1> HIDE DEF r
<1>4. \A i \in 1..Len(q) + 1 : i \in 1..Len(q) \/ i = Len(q) + 1
  BY <1>1
<1>5. \A i, j \in 1..Len(q) + 1 : r[i] = r[j] => i = j
  BY <1>1, <1>3, <1>4 DEF IsInjective
<1>6. Small!Range(r) = Small!Range(q) \cup {t}
  <2>1. ASSUME NEW x \in Small!Range(q) PROVE x \in Small!Range(r)
    <3>1. PICK i \in 1..Len(q) : x = q[i]
      BY <1>1 DEF Small!Range
    <3> QED BY <1>1, <3>1 DEF Small!Range
  <2>2. t \in Small!Range(r)
    BY <1>1 DEF Small!Range
  <2>3. ASSUME NEW x \in Small!Range(r) PROVE x \in Small!Range(q) \cup {t}
    <3>1. PICK i \in 1..Len(q) + 1 : x = r[i]
      BY <1>1 DEF Small!Range
    <3> QED BY <1>1, <1>4, <3>1 DEF Small!Range
  <2> QED BY <2>1, <2>2, <2>3
<1> QED BY <1>1, <1>2, <1>5, <1>6 DEF IsInjective, r

LEMMA QueueReleased ==
    ASSUME NEW S, NEW q \in Seq(S), q # <<>>, IsInjective(q)
    PROVE  /\ Tail(q) \in Seq(S) /\ IsInjective(Tail(q))
           /\ Small!Range(Tail(q)) \subseteq Small!Range(q)
           /\ Head(q) \notin Small!Range(Tail(q))
           /\ Head(q) \in S
<1> DEFINE r == Tail(q)
<1>1. /\ r \in Seq(S) /\ Len(q) \in Nat /\ Len(q) > 0 /\ Len(r) = Len(q) - 1
      /\ DOMAIN q = 1..Len(q) /\ DOMAIN r = 1..Len(q) - 1
      /\ \A i \in 1..Len(q) - 1 : r[i] = q[i + 1]
      /\ Head(q) = q[1] /\ Head(q) \in S
  OBVIOUS
<1> HIDE DEF r
<1>2. \A i \in 1..Len(q) - 1 : i + 1 \in 1..Len(q) /\ i + 1 # 1
  BY <1>1
<1>3. IsInjective(r)
  <2> SUFFICES ASSUME NEW i \in 1..Len(q) - 1, NEW j \in 1..Len(q) - 1, r[i] = r[j]
               PROVE  i = j
    BY <1>1 DEF IsInjective
  <2>1. q[i + 1] = q[j + 1] /\ i + 1 \in DOMAIN q /\ j + 1 \in DOMAIN q
    BY <1>1, <1>2
  <2>2. i + 1 = j + 1
    BY <2>1 DEF IsInjective
  <2> QED BY <1>1, <2>2
<1>4. ASSUME NEW x \in Small!Range(r) PROVE x \in Small!Range(q) /\ x # q[1]
  <2>1. PICK i \in 1..Len(q) - 1 : x = r[i]
    BY <1>1 DEF Small!Range
  <2>2. x = q[i + 1] /\ i + 1 \in 1..Len(q) /\ 1 \in 1..Len(q) /\ i + 1 # 1
    BY <1>1, <1>2, <2>1
  <2> QED BY <1>1, <2>2 DEF Small!Range, IsInjective
<1> QED BY <1>1, <1>3, <1>4 DEF r

\* A request is rounded up.
LEMMA AlignedIsLarger ==
    ASSUME NEW n \in Nat \ {0}
    PROVE  Small!Aligned(n) \in Nat /\ Small!Aligned(n) >= n
<1>1. RT_ALIGN_SIZE \in Nat \ {0}
  BY HeapCallsAssumption
<1> DEFINE w == RT_ALIGN_SIZE
           m == n + w - 1
<1>2. m \in Nat /\ m >= w
  BY <1>1
<1>3. m \div w \in Nat /\ m % w \in 0..w-1 /\ m = (m \div w) * w + (m % w)
  <2> HIDE DEF m, w
  <2> QED BY <1>1, <1>2 DEF w
<1>4. (m \div w) * w \in Nat
  <2>1. \A a, b \in Nat : a * b \in Nat
    OBVIOUS
  <2> QED BY <1>1, <1>3, <2>1
<1>5. Small!Aligned(n) = (m \div w) * w
  BY DEF Small!Aligned, Small!Up
<1> DEFINE x == (m \div w) * w
<1>6. x \in Nat /\ m = x + (m % w)
  BY <1>3, <1>4
<1> HIDE DEF x
<1>7. x >= n
  BY <1>1, <1>3, <1>6
<1> QED BY <1>5, <1>6, <1>7 DEF x

LEMMA InitIsSound == ASSUME Small!HeapAssumption, Small!Init PROVE IInv
<1>1. /\ SIZEOF_STRUCT_MEM \in Nat \ {0} /\ MIN_SIZE \in Nat \ {0}
      /\ mem_size_aligned \in Nat /\ MIN_SIZE <= mem_size_aligned
      /\ Small!heap_end = mem_size_aligned + SIZEOF_STRUCT_MEM
      /\ Small!heap_end \in Nat /\ Small!Offsets = 0..Small!heap_end
      /\ Small!NoBlock \notin Small!Offsets
  BY Sizes
<1>2. Small!heap_end # 0 /\ 0 \in Small!Offsets /\ Small!heap_end \in Small!Offsets
  BY <1>1
<1>3. /\ heap.used = [b \in Small!Offsets |-> b = Small!heap_end]
      /\ heap.next = [b \in Small!Offsets |-> IF b \in {0, Small!heap_end}
           THEN Small!heap_end ELSE Small!NoBlock]
      /\ heap.prev = [b \in Small!Offsets |-> IF b \in {0, Small!heap_end} THEN b
           ELSE Small!NoBlock]
      /\ heap.lfree = 0
  BY DEF Small!Init
<1>4. heap \in Small!Headers
  BY <1>1, <1>2 DEF Small!Init, Small!Headers
<1>5. Small!Blocks(heap) = {0, Small!heap_end}
  BY <1>1, <1>2, <1>3 DEF Small!Blocks
<1>6. heap.used[0] = FALSE /\ heap.used[Small!heap_end] /\ heap.next[0] = Small!heap_end
      /\ heap.prev[0] = 0
  <2>1. heap.used[0] = (0 = Small!heap_end) /\ heap.used[Small!heap_end] = (Small!heap_end
          = Small!heap_end)
    BY <1>2, <1>3, Zenon
  <2>2. heap.next[0] = Small!heap_end /\ heap.prev[0] = 0
    BY <1>2, <1>3
  <2> QED BY <1>2, <2>1, <2>2
<1>7. Small!Tiled(heap)
  <2>1. Small!Room(heap, 0) > 0
    BY <1>1, <1>6 DEF Small!Room
  <2> QED BY <1>1, <1>2, <1>5, <1>6, <2>1 DEF Small!Tiled
<1>8. Sound(heap) /\ Small!Merged(heap) /\ LfreeOK
  BY <1>2, <1>3, <1>4, <1>5, <1>6, <1>7 DEF Sound, Linked, Small!Merged, LfreeOK,
       Small!LfreeIsFree
<1>9. /\ app \in Applications /\ heap_sem = <<>> /\ given = [a \in {} |-> 0]
      /\ pc = [t \in Threads |-> "ready"] /\ size = [t \in Threads |-> 0]
      /\ ptr = [t \in Threads |-> Small!NoBlock] /\ old = [t \in Threads |-> Small!NoBlock]
  BY DEF Small!Init, Small!CallsInit
<1>10. DOMAIN given = {}
  BY <1>9
<1>11. Small!TypeOK
  <2>1. given \in [DOMAIN given -> 1..mem_size_aligned] /\ DOMAIN given \subseteq Small!Offsets
    BY <1>9, <1>10
  <2> QED BY <1>1, <1>4, <1>9, <2>1 DEF Small!TypeOK
<1>12. Small!AreasFit(heap)
  BY <1>10 DEF Small!AreasFit
<1>13. \A t \in Threads : CallOK(t)
  BY <1>9 DEF CallOK, Owns
<1>14. Apart
  BY <1>9 DEF Apart, Owns
<1>15. QueueOK
  BY <1>9 DEF QueueOK, IsInjective, Small!Range
<1> QED BY <1>8, <1>9, <1>11, <1>12, <1>13, <1>14, <1>15 DEF IInv

-----------------------------------------------------------------------------
(* Steps that leave the headers and the areas alone.                       *)

LEMMA TakeKeeps ==
    ASSUME Small!HeapAssumption, IInv, NEW t \in Threads, Small!Take(t), app' = app
    PROVE  IInv'
<1>1. /\ pc[t] \in {"malloc", "free", "realloc"} /\ t \notin Small!Range(heap_sem)
      /\ heap_sem' = Append(heap_sem, t)
      /\ heap' = heap /\ pc' = pc /\ size' = size /\ ptr' = ptr /\ old' = old /\ given' = given
  BY DEF Small!Take, Small!TakeAt
<1>2. heap_sem \in Seq(Threads) /\ IsInjective(heap_sem)
  BY DEF IInv, Small!TypeOK, QueueOK
<1>3. /\ heap_sem' \in Seq(Threads) /\ IsInjective(heap_sem')
      /\ Small!Range(heap_sem') = Small!Range(heap_sem) \cup {t}
      /\ \A u : Small!Holds(u) => Small!Holds(u)'
  BY <1>1, <1>2, QueueTaken DEF Small!Holds
<1>4. Small!TypeOK'
  BY <1>1, <1>3 DEF IInv, Small!TypeOK
<1>5. Sound(heap)' /\ Small!Merged(heap)' /\ Small!AreasFit(heap)' /\ LfreeOK'
  BY <1>1 DEF IInv, Small!AreasFit, LfreeOK
<1>6. (\A u \in Threads : CallOK(u)') /\ Apart'
  BY <1>1 DEF IInv, CallOK, Owns, Apart
<1>7. QueueOK'
  BY <1>1, <1>3 DEF IInv, QueueOK
<1> QED BY <1>4, <1>5, <1>6, <1>7 DEF IInv

LEMMA MallocCallKeeps ==
    ASSUME Small!HeapAssumption, IInv, NEW t \in Threads, NEW n \in app.asks[t],
           Small!MallocCall(t, n), app' = app
    PROVE  IInv'
<1>1. /\ pc[t] = "ready" /\ Small!Aligned(n) <= mem_size_aligned
      /\ size' = [size EXCEPT ![t] = Small!AtLeastMin(Small!Aligned(n))]
      /\ pc' = [pc EXCEPT ![t] = "malloc"]
      /\ heap' = heap /\ heap_sem' = heap_sem /\ ptr' = ptr /\ old' = old /\ given' = given
  BY DEF Small!MallocCall, Small!Ready, Small!InReach, Small!Goto
<1>2. n \in Nat \ {0}
  BY HeapCallsAssumption DEF IInv
<1>3. Small!AtLeastMin(Small!Aligned(n)) \in MIN_SIZE..mem_size_aligned /\ MIN_SIZE \in Nat
  BY <1>1, <1>2, AlignedIsLarger, Sizes DEF Small!AtLeastMin
<1>4. Small!TypeOK
  BY DEF IInv
<1>5. Small!TypeOK'
  BY <1>1, <1>3, <1>4, Sizes DEF Small!TypeOK
<1>6. Sound(heap)' /\ Small!Merged(heap)' /\ Small!AreasFit(heap)' /\ LfreeOK'
  BY <1>1, <1>4 DEF IInv, Small!AreasFit, LfreeOK, Small!TypeOK
<1>7. ASSUME NEW u \in Threads PROVE CallOK(u)'
  <2>1. CallOK(u)
    BY DEF IInv
  <2> QED BY <1>1, <1>3, <1>4, <2>1 DEF CallOK, Owns, Small!TypeOK
<1>8. Apart' /\ QueueOK'
  BY <1>1, <1>4 DEF IInv, Apart, QueueOK, Owns, Small!TypeOK, Small!Holds
<1> QED BY <1>1, <1>5, <1>6, <1>7, <1>8 DEF IInv

LEMMA SearchKeeps ==
    ASSUME Small!HeapAssumption, IInv, NEW t \in Threads, Small!Search(t), app' = app
    PROVE  IInv'
<1>1. /\ pc[t] = "malloc" /\ Small!Holds(t)
      /\ ptr' = [ptr EXCEPT ![t] = heap.lfree]
      /\ pc' = [pc EXCEPT ![t] = "scan"]
      /\ heap' = heap /\ heap_sem' = heap_sem /\ size' = size /\ old' = old /\ given' = given
  BY DEF Small!Search, Small!Goto
<1>2. Small!TypeOK /\ heap.lfree \in Small!Blocks(heap) /\ heap.lfree \in Small!Offsets
  BY DEF IInv, LfreeOK, Small!Blocks
<1>3. Small!TypeOK'
  BY <1>1, <1>2 DEF Small!TypeOK
<1>4. Sound(heap)' /\ Small!Merged(heap)' /\ Small!AreasFit(heap)' /\ LfreeOK'
  BY <1>1, <1>2 DEF IInv, Small!AreasFit, LfreeOK, Small!TypeOK
<1>5. ASSUME NEW u \in Threads PROVE CallOK(u)'
  <2>1. CallOK(u)
    BY DEF IInv
  <2> QED BY <1>1, <1>2, <2>1 DEF CallOK, Owns, Small!TypeOK
<1>6. Apart' /\ QueueOK'
  BY <1>1, <1>2 DEF IInv, Apart, QueueOK, Owns, Small!TypeOK, Small!Holds
<1> QED BY <1>1, <1>3, <1>4, <1>5, <1>6 DEF IInv

LEMMA SkipKeeps ==
    ASSUME Small!HeapAssumption, IInv, NEW t \in Threads, Small!Skip(t), app' = app
    PROVE  IInv'
<1>1. /\ pc[t] = "scan" /\ ptr[t] < mem_size_aligned - size[t]
      /\ ptr' = [ptr EXCEPT ![t] = heap.next[ptr[t]]]
      /\ pc' = pc /\ heap' = heap /\ heap_sem' = heap_sem /\ size' = size /\ old' = old
      /\ given' = given
  BY DEF Small!Skip, Small!Scanning
<1>2. Small!TypeOK /\ CallOK(t)
  BY DEF IInv
<1>3. ptr[t] \in Small!Blocks(heap) /\ ptr[t] # Small!heap_end
  BY <1>1, <1>2, Sizes DEF Small!TypeOK, CallOK
<1>4. heap.next[ptr[t]] \in Small!Blocks(heap) /\ heap.next[ptr[t]] \in Small!Offsets
  BY <1>3, BlockFacts DEF IInv, Small!Blocks
<1>5. Small!TypeOK'
  BY <1>1, <1>2, <1>4 DEF Small!TypeOK
<1>6. Sound(heap)' /\ Small!Merged(heap)' /\ Small!AreasFit(heap)' /\ LfreeOK'
  BY <1>1 DEF IInv, Small!AreasFit, LfreeOK
<1>7. ASSUME NEW u \in Threads PROVE CallOK(u)'
  <2>1. CallOK(u)
    BY DEF IInv
  <2> QED BY <1>1, <1>2, <1>4, <2>1 DEF CallOK, Owns, Small!TypeOK
<1>8. Apart' /\ QueueOK'
  BY <1>1, <1>2 DEF IInv, Apart, QueueOK, Owns, Small!TypeOK, Small!Holds
<1> QED BY <1>1, <1>5, <1>6, <1>7, <1>8 DEF IInv

-----------------------------------------------------------------------------
(* The thread that has the token is alone in the heap, and gives it back.  *)

Inside == {"scan", "lowest", "done"}

LEMMA HolderIsAlone ==
    ASSUME IInv, NEW t \in Threads, Small!Holds(t)
    PROVE  \A u \in Threads \ {t} : pc[u] \notin Inside
BY DEF IInv, QueueOK, Small!Holds, Inside

LEMMA ReleaseKeeps ==
    ASSUME IInv, NEW t \in Threads, Small!Holds(t), Small!Release, pc'[t] \notin Inside,
           \A u \in Threads \ {t} : pc'[u] = pc[u]
    PROVE  heap_sem' \in Seq(Threads) /\ QueueOK'
<1>1. heap_sem \in Seq(Threads) /\ heap_sem # <<>> /\ IsInjective(heap_sem)
      /\ Head(heap_sem) = t /\ heap_sem' = Tail(heap_sem)
  BY DEF IInv, Small!TypeOK, QueueOK, Small!Holds, Small!Release
<1>2. /\ heap_sem' \in Seq(Threads) /\ IsInjective(heap_sem')
      /\ Small!Range(heap_sem') \subseteq Small!Range(heap_sem)
      /\ t \notin Small!Range(heap_sem')
  BY <1>1, QueueReleased
<1>3. \A u \in Threads \ {t} : pc[u] \notin Inside
  BY HolderIsAlone
<1> QED BY <1>2, <1>3 DEF IInv, QueueOK, Inside

LEMMA MallocFailsKeeps ==
    ASSUME Small!HeapAssumption, IInv, NEW t \in Threads, Small!MallocFails(t), app' = app
    PROVE  IInv'
<1>1. /\ pc[t] = "scan" /\ Small!Release
      /\ pc' = [pc EXCEPT ![t] = "ready"] /\ size' = [size EXCEPT ![t] = 0]
      /\ ptr' = [ptr EXCEPT ![t] = Small!NoBlock] /\ old' = [old EXCEPT ![t] = Small!NoBlock]
      /\ heap' = heap /\ given' = given
  BY DEF Small!MallocFails, Small!Leave
<1>2. Small!TypeOK /\ Small!Holds(t)
  BY <1>1 DEF IInv, QueueOK
<1>3. heap_sem' \in Seq(Threads) /\ QueueOK'
  BY <1>1, <1>2, ReleaseKeeps DEF Small!TypeOK, Inside
<1>4. Small!TypeOK'
  BY <1>1, <1>2, <1>3, Sizes DEF Small!TypeOK
<1>5. Sound(heap)' /\ Small!Merged(heap)' /\ Small!AreasFit(heap)' /\ LfreeOK'
  BY <1>1, <1>2 DEF IInv, Small!AreasFit, LfreeOK, Small!TypeOK
<1>6. ASSUME NEW u \in Threads PROVE CallOK(u)'
  <2>1. CallOK(u)
    BY DEF IInv
  <2> QED BY <1>1, <1>2, <2>1 DEF CallOK, Owns, Small!TypeOK
<1>7. Apart'
  BY <1>1, <1>2 DEF IInv, Apart, Owns, Small!TypeOK
<1> QED BY <1>1, <1>3, <1>4, <1>5, <1>6, <1>7 DEF IInv

LEMMA ReallocCallKeeps ==
    ASSUME Small!HeapAssumption, IInv, NEW t \in Threads, NEW n \in app.asks[t],
             NEW a \in Small!Idle,
           Small!ReallocCall(t, a, n), app' = app
    PROVE  IInv'
<1>1. /\ pc[t] = "ready" /\ Small!Aligned(n) <= mem_size_aligned
      /\ size' = [size EXCEPT ![t] = Small!Aligned(n)] /\ old' = [old EXCEPT ![t] = a]
      /\ pc' = [pc EXCEPT ![t] = "realloc"]
      /\ heap' = heap /\ heap_sem' = heap_sem /\ ptr' = ptr /\ given' = given
  BY DEF Small!ReallocCall, Small!Ready, Small!InReach, Small!Goto
<1>2. n \in Nat \ {0}
  BY HeapCallsAssumption DEF IInv
<1>3. Small!Aligned(n) \in 0..mem_size_aligned /\ Small!Aligned(n) > 0
  BY <1>1, <1>2, AlignedIsLarger, Sizes
<1>4. Small!TypeOK
  BY DEF IInv
<1>5. a \in DOMAIN given /\ a \in Small!Offsets /\ a # Small!NoBlock
      /\ \A u \in Threads : old[u] # a
  BY <1>4, Sizes DEF Small!Idle, Small!TypeOK, Small!Range
<1>6. Small!TypeOK'
  BY <1>1, <1>3, <1>4, <1>5 DEF Small!TypeOK
<1>7. Sound(heap)' /\ Small!Merged(heap)' /\ Small!AreasFit(heap)' /\ LfreeOK'
  BY <1>1, <1>4 DEF IInv, Small!AreasFit, LfreeOK, Small!TypeOK
<1>8. ASSUME NEW u \in Threads PROVE CallOK(u)'
  <2>1. CallOK(u)
    BY DEF IInv
  <2> QED BY <1>1, <1>3, <1>4, <1>5, <2>1 DEF CallOK, Owns, Small!TypeOK
<1>9. Apart' /\ QueueOK'
  BY <1>1, <1>4, <1>5 DEF IInv, Apart, QueueOK, Owns, Small!TypeOK, Small!Holds
<1> QED BY <1>1, <1>6, <1>7, <1>8, <1>9 DEF IInv

LEMMA ReallocMovesKeeps ==
    ASSUME Small!HeapAssumption, IInv, NEW t \in Threads, Small!ReallocMoves(t), app' = app
    PROVE  IInv'
<1>1. /\ pc[t] = "realloc" /\ Small!Holds(t) /\ Small!Release
      /\ size' = [size EXCEPT ![t] = Small!AtLeastMin(@)]
      /\ pc' = [pc EXCEPT ![t] = "malloc"]
      /\ heap' = heap /\ ptr' = ptr /\ old' = old /\ given' = given
  BY DEF Small!ReallocMoves, Small!InRealloc, Small!Goto
<1>2. Small!TypeOK
  BY DEF IInv
<1>3. Small!AtLeastMin(size[t]) \in MIN_SIZE..mem_size_aligned /\ MIN_SIZE \in Nat
  BY <1>2, Sizes DEF Small!AtLeastMin, Small!TypeOK
<1>4. heap_sem' \in Seq(Threads) /\ QueueOK'
  BY <1>1, <1>2, ReleaseKeeps DEF Small!TypeOK, Inside
<1>5. Small!TypeOK'
  BY <1>1, <1>2, <1>3, <1>4, Sizes DEF Small!TypeOK
<1>6. Sound(heap)' /\ Small!Merged(heap)' /\ Small!AreasFit(heap)' /\ LfreeOK'
  BY <1>1, <1>2 DEF IInv, Small!AreasFit, LfreeOK, Small!TypeOK
<1>7. ASSUME NEW u \in Threads PROVE CallOK(u)'
  <2>1. CallOK(u)
    BY DEF IInv
  <2> QED BY <1>1, <1>2, <1>3, <2>1 DEF CallOK, Owns, Small!TypeOK
<1>8. Apart'
  BY <1>1, <1>2 DEF IInv, Apart, Owns, Small!TypeOK
<1> QED BY <1>1, <1>4, <1>5, <1>6, <1>7, <1>8 DEF IInv

LEMMA AdvanceKeeps ==
    ASSUME Small!HeapAssumption, IInv, NEW t \in Threads, Small!Advance(t), app' = app
    PROVE  IInv'
<1>1. /\ pc[t] = "lowest" /\ heap.lfree # Small!heap_end
      /\ heap' = [heap EXCEPT !.lfree = heap.next[heap.lfree]]
      /\ heap_sem' = heap_sem /\ pc' = pc /\ size' = size /\ ptr' = ptr /\ old' = old
      /\ given' = given
  BY DEF Small!Advance, Small!LowestIsUsed
<1>2. Small!TypeOK
  BY DEF IInv
<1>3. heap.next[heap.lfree] \in Small!Blocks(heap) /\ heap.next[heap.lfree] \in Small!Offsets
  BY <1>1, BlockFacts DEF IInv, LfreeOK, Small!Blocks
<1>4. /\ heap'.used = heap.used /\ heap'.next = heap.next /\ heap'.prev = heap.prev
      /\ heap'.lfree = heap.next[heap.lfree] /\ heap' \in Small!Headers
  BY <1>1, <1>2, <1>3 DEF Small!TypeOK, Small!Headers
<1>5. Small!Blocks(heap') = Small!Blocks(heap) /\ \A b : Small!Room(heap', b)
        = Small!Room(heap, b)
  BY <1>4 DEF Small!Blocks, Small!Room
<1>6. Small!TypeOK'
  BY <1>1, <1>2, <1>4 DEF Small!TypeOK
<1>7. Sound(heap)' /\ Small!Merged(heap)' /\ Small!AreasFit(heap)'
  BY <1>1, <1>4, <1>5 DEF IInv, Sound, Small!Tiled, Linked, Small!Merged, Small!AreasFit
<1>8. LfreeOK'
  BY <1>1, <1>3, <1>4, <1>5 DEF LfreeOK
<1>9. ASSUME NEW u \in Threads PROVE CallOK(u)'
  <2>1. CallOK(u)
    BY DEF IInv
  <2> QED BY <1>1, <1>4, <1>5, <2>1 DEF CallOK, Owns
<1>10. Apart' /\ QueueOK'
  BY <1>1 DEF IInv, Apart, QueueOK, Owns, Small!Holds
<1> QED BY <1>1, <1>6, <1>7, <1>8, <1>9, <1>10 DEF IInv

-----------------------------------------------------------------------------
(* Areas change hands.                                                     *)

\* The area of a caller is in a block in use that has room for it.
LEMMA AreaFacts ==
    ASSUME Small!HeapAssumption, IInv, NEW a \in DOMAIN given
    PROVE  LET b == a - SIZEOF_STRUCT_MEM
           IN /\ a \in Small!Offsets /\ b \in Small!Blocks(heap) \ {Small!heap_end}
           /\ heap.used[b]
              /\ b + SIZEOF_STRUCT_MEM = a /\ b \in Nat
              /\ given[a] \in 1..mem_size_aligned /\ given[a] <= Small!Room(heap, b)
<1>1. /\ a \in Small!Offsets /\ given[a] \in 1..mem_size_aligned
  BY DEF IInv, Small!TypeOK
<1>2. /\ SIZEOF_STRUCT_MEM \in Nat \ {0} /\ Small!heap_end \in Nat /\ Small!Offsets
           = 0..Small!heap_end
  BY Sizes
<1>3. /\ a - SIZEOF_STRUCT_MEM \in Small!Blocks(heap) /\ heap.used[a - SIZEOF_STRUCT_MEM]
      /\ given[a] <= Small!Room(heap, a - SIZEOF_STRUCT_MEM)
  BY DEF IInv, Small!AreasFit
<1>4. a - SIZEOF_STRUCT_MEM # Small!heap_end /\ a - SIZEOF_STRUCT_MEM + SIZEOF_STRUCT_MEM = a
  BY <1>1, <1>2
<1>5. a - SIZEOF_STRUCT_MEM \in Nat
  BY <1>2, <1>3 DEF Small!Blocks
<1> QED BY <1>1, <1>3, <1>4, <1>5

LEMMA MallocReturnKeeps ==
    ASSUME Small!HeapAssumption, IInv, NEW t \in Threads, Small!MallocReturn(t), app' = app
    PROVE  IInv'
<1> DEFINE a == ptr[t] + SIZEOF_STRUCT_MEM
<1>1. /\ pc[t] = "done" \/ (pc[t] = "lowest" /\ (~heap.used[heap.lfree] \/ heap.lfree
           = Small!heap_end))
      /\ Small!Release /\ heap' = heap
      /\ given' = [b \in DOMAIN given \cup {a} |-> IF b = a THEN size[t] ELSE given[b]]
  BY DEF Small!MallocReturn, Small!LowestFound, Small!LowestIsUsed, Small!HandOver
<1>2. \/ /\ old[t] = Small!NoBlock /\ pc' = [pc EXCEPT ![t] = "ready"]
         /\ size' = [size EXCEPT ![t] = 0]
         /\ ptr' = [ptr EXCEPT ![t] = Small!NoBlock] /\ old' = [old EXCEPT ![t]
              = Small!NoBlock]
      \/ /\ old[t] # Small!NoBlock /\ pc' = [pc EXCEPT ![t] = "copied"]
         /\ size' = size /\ ptr' = ptr /\ old' = old
  BY DEF Small!MallocReturn, Small!Leave, Small!Goto
<1>3. Small!TypeOK /\ CallOK(t)
  BY DEF IInv
<1>4. Small!Holds(t) /\ \A u \in Threads \ {t} : pc[u] \notin Inside
  BY <1>1, HolderIsAlone DEF IInv, QueueOK
<1>5. /\ ptr[t] \in Small!Blocks(heap) \ {Small!heap_end} /\ heap.used[ptr[t]]
      /\ a \notin DOMAIN given /\ size[t] <= Small!Room(heap, ptr[t]) /\ size[t] >= MIN_SIZE
  BY <1>1, <1>3 DEF CallOK, Owns
<1>6. size[t] \in 1..mem_size_aligned
  BY <1>3, <1>5, Sizes DEF Small!TypeOK
<1>7. /\ ptr[t] \in Nat /\ ptr[t] + SIZEOF_STRUCT_MEM < heap.next[ptr[t]]
      /\ heap.next[ptr[t]] \in Nat /\ heap.next[ptr[t]] <= Small!heap_end
  BY <1>5, BlockFacts DEF IInv
<1>8. a \in Small!Offsets /\ a - SIZEOF_STRUCT_MEM = ptr[t]
  BY <1>7, Sizes
<1> HIDE DEF a
<1>9. heap_sem' \in Seq(Threads) /\ QueueOK'
  BY <1>1, <1>2, <1>3, <1>4, ReleaseKeeps DEF Small!TypeOK, Inside
<1>10. DOMAIN given' = DOMAIN given \cup {a} /\ given'[a] = size[t]
       /\ \A b \in DOMAIN given : given'[b] = given[b]
  BY <1>1, <1>5
<1>11. Small!TypeOK'
  <2>1. given' \in [DOMAIN given' -> 1..mem_size_aligned]
        /\ DOMAIN given' \subseteq Small!Offsets
    BY <1>1, <1>3, <1>6, <1>8 DEF Small!TypeOK
  <2>2. /\ pc' \in [Threads -> {"ready", "malloc", "scan", "lowest", "done", "copied",
                                "free", "realloc"}]
        /\ size' \in [Threads -> 0..mem_size_aligned]
        /\ ptr' \in [Threads -> Small!Offsets \cup {Small!NoBlock}]
        /\ old' \in [Threads -> Small!Offsets \cup {Small!NoBlock}]
    <3>1. 0 \in 0..mem_size_aligned
      BY Sizes
    <3> QED BY <1>2, <1>3, <3>1 DEF Small!TypeOK
  <2> QED BY <1>1, <1>3, <1>9, <2>1, <2>2 DEF Small!TypeOK
<1>12. Sound(heap)' /\ Small!Merged(heap)'
  BY <1>1 DEF IInv
<1>13. Small!AreasFit(heap)'
  <2>1. \A b \in DOMAIN given : given'[b] = given[b]
    BY <1>10
  <2> QED BY <1>1, <1>5, <1>8, <1>10, <2>1 DEF IInv, Small!AreasFit
<1>14. LfreeOK'
  <2>1. CASE pc[t] = "done"
    BY <1>1, <1>3, <1>4, <2>1 DEF IInv, LfreeOK, Small!TypeOK, Inside
  <2>2. CASE pc[t] = "lowest"
    BY <1>1, <2>2 DEF IInv, LfreeOK, Small!LfreeIsFree
  <2> QED BY <1>1, <2>1, <2>2
<1>15. \A u \in Threads \ {t} : Owns(u) => ptr[u] # ptr[t]
  BY <1>1 DEF IInv, Apart, Owns
<1>16. ASSUME NEW u \in Threads PROVE CallOK(u)'
  <2>1. CallOK(u)
    BY DEF IInv
  <2>2. CASE u = t
    BY <1>1, <1>2, <1>3, <1>10, <2>1, <2>2 DEF CallOK, Owns, Small!TypeOK
  <2>3. CASE u # t
    <3>1. /\ pc'[u] = pc[u] /\ size'[u] = size[u] /\ ptr'[u] = ptr[u] /\ old'[u] = old[u]
          /\ pc[u] \notin Inside
      BY <1>2, <1>3, <1>4, <2>3 DEF Small!TypeOK
    <3>2. Owns(u) => ptr[u] + SIZEOF_STRUCT_MEM # a
      <4>1. Owns(u) => ptr[u] \in Nat
        BY <2>1, Sizes DEF CallOK, Small!Blocks
      <4> QED BY <1>7, <1>15, <2>3, <4>1, Sizes DEF a
    <3> QED BY <1>1, <1>10, <2>1, <3>1, <3>2 DEF CallOK, Owns, Inside
  <2> QED BY <2>2, <2>3
<1>17. Apart'
  <2>1. /\ pc'[t] \in {"ready", "copied"} /\ old'[t] \in {Small!NoBlock, old[t]}
        /\ \A u \in Threads \ {t} : pc'[u] = pc[u] /\ ptr'[u] = ptr[u] /\ old'[u] = old[u]
    BY <1>2, <1>3 DEF Small!TypeOK
  <2>2. \A u \in Threads : old'[u] \in {Small!NoBlock, old[u]} /\ (Owns(u)' => Owns(u)
          /\ u # t)
    BY <2>1 DEF Owns
  <2> QED BY <2>1, <2>2 DEF IInv, Apart
<1> QED BY <1>9, <1>11, <1>12, <1>13, <1>14, <1>16, <1>17 DEF IInv

LEMMA FreeCallKeeps ==
    ASSUME Small!HeapAssumption, IInv, NEW t \in Threads, NEW a \in Small!Idle,
             Small!FreeCall(t, a), app' = app
    PROVE  IInv'
<1> DEFINE b == a - SIZEOF_STRUCT_MEM
<1>1. /\ pc[t] = "ready" /\ given' = [c \in DOMAIN given \ {a} |-> given[c]]
      /\ ptr' = [ptr EXCEPT ![t] = b] /\ pc' = [pc EXCEPT ![t] = "free"]
      /\ heap' = heap /\ heap_sem' = heap_sem /\ size' = size /\ old' = old
  BY DEF Small!FreeCall, Small!Ready, Small!Surrender, Small!Goto
<1>2. Small!TypeOK /\ CallOK(t)
  BY DEF IInv
<1>3. a \in DOMAIN given /\ \A u \in Threads : old[u] # a
  BY <1>2 DEF Small!Idle, Small!TypeOK, Small!Range
<1>4. /\ b \in Small!Blocks(heap) \ {Small!heap_end} /\ heap.used[b]
      /\ b + SIZEOF_STRUCT_MEM = a
  BY <1>3, AreaFacts
<1> HIDE DEF b
<1>5. DOMAIN given' = DOMAIN given \ {a} /\ \A c \in DOMAIN given' : given'[c] = given[c]
  BY <1>1
<1>6. b \in Small!Offsets /\ b # Small!NoBlock
  BY <1>4, Sizes DEF Small!Blocks
<1>7. Small!TypeOK'
  <2>1. given' \in [DOMAIN given' -> 1..mem_size_aligned]
        /\ DOMAIN given' \subseteq Small!Offsets
    BY <1>1, <1>2 DEF Small!TypeOK
  <2> QED BY <1>1, <1>2, <1>6, <2>1 DEF Small!TypeOK
<1>8. Sound(heap)' /\ Small!Merged(heap)' /\ LfreeOK'
  BY <1>1, <1>2 DEF IInv, LfreeOK, Small!TypeOK
<1>9. Small!AreasFit(heap)'
  BY <1>1, <1>5 DEF IInv, Small!AreasFit
<1>10. ASSUME NEW u \in Threads PROVE CallOK(u)'
  <2>1. CallOK(u)
    BY DEF IInv
  <2> QED BY <1>1, <1>2, <1>3, <1>4, <1>5, <2>1 DEF CallOK, Owns, Small!TypeOK
<1>11. Apart'
  <2>1. \A u \in Threads : Owns(u) => ptr[u] # b
    BY <1>3, <1>4 DEF IInv, CallOK
  <2> QED BY <1>1, <1>2, <2>1 DEF IInv, Apart, Owns, Small!TypeOK
<1>12. QueueOK'
  BY <1>1, <1>2 DEF IInv, QueueOK, Small!TypeOK, Small!Holds
<1> QED BY <1>1, <1>7, <1>8, <1>9, <1>10, <1>11, <1>12 DEF IInv

LEMMA FreeOldKeeps ==
    ASSUME Small!HeapAssumption, IInv, NEW t \in Threads, Small!FreeOld(t), app' = app
    PROVE  IInv'
<1> DEFINE a == old[t]
           b == a - SIZEOF_STRUCT_MEM
<1>1. /\ pc[t] = "copied" /\ given' = [c \in DOMAIN given \ {a} |-> given[c]]
      /\ ptr' = [ptr EXCEPT ![t] = b] /\ pc' = [pc EXCEPT ![t] = "free"]
      /\ old' = [old EXCEPT ![t] = Small!NoBlock]
      /\ heap' = heap /\ heap_sem' = heap_sem /\ size' = size
  BY DEF Small!FreeOld, Small!Surrender, Small!Goto
<1>2. Small!TypeOK /\ CallOK(t)
  BY DEF IInv
<1>3. a \in DOMAIN given /\ a # Small!NoBlock /\ \A u \in Threads \ {t} : old[u] # a
  BY <1>1, <1>2 DEF IInv, CallOK, Apart
<1>4. /\ b \in Small!Blocks(heap) \ {Small!heap_end} /\ heap.used[b]
      /\ b + SIZEOF_STRUCT_MEM = a
  BY <1>3, AreaFacts
<1> HIDE DEF a, b
<1>5. DOMAIN given' = DOMAIN given \ {a} /\ \A c \in DOMAIN given' : given'[c] = given[c]
  BY <1>1
<1>6. b \in Small!Offsets /\ b # Small!NoBlock
  BY <1>4, Sizes DEF Small!Blocks
<1>7. Small!TypeOK'
  <2>1. given' \in [DOMAIN given' -> 1..mem_size_aligned]
        /\ DOMAIN given' \subseteq Small!Offsets
    BY <1>1, <1>2 DEF Small!TypeOK
  <2> QED BY <1>1, <1>2, <1>6, <2>1 DEF Small!TypeOK
<1>8. Sound(heap)' /\ Small!Merged(heap)' /\ LfreeOK'
  BY <1>1, <1>2 DEF IInv, LfreeOK, Small!TypeOK
<1>9. Small!AreasFit(heap)'
  BY <1>1, <1>5 DEF IInv, Small!AreasFit
<1>10. ASSUME NEW u \in Threads PROVE CallOK(u)'
  <2>1. CallOK(u)
    BY DEF IInv
  <2> QED BY <1>1, <1>2, <1>3, <1>4, <1>5, <2>1 DEF CallOK, Owns, Small!TypeOK
<1>11. Apart'
  <2>1. \A u \in Threads : Owns(u) => ptr[u] # b
    BY <1>3, <1>4 DEF IInv, CallOK
  <2> QED BY <1>1, <1>2, <2>1 DEF IInv, Apart, Owns, Small!TypeOK
<1>12. QueueOK'
  BY <1>1, <1>2 DEF IInv, QueueOK, Small!TypeOK, Small!Holds
<1> QED BY <1>1, <1>7, <1>8, <1>9, <1>10, <1>11, <1>12 DEF IInv

LEMMA ReallocSameKeeps ==
    ASSUME Small!HeapAssumption, IInv, NEW t \in Threads, Small!ReallocSame(t), app' = app
    PROVE  IInv'
<1> DEFINE a == old[t]
<1>1. /\ pc[t] = "realloc" /\ Small!Holds(t) /\ Small!Release
      /\ Small!Room(heap, a - SIZEOF_STRUCT_MEM) = size[t]
      /\ given' = [given EXCEPT ![a] = size[t]]
      /\ pc' = [pc EXCEPT ![t] = "ready"] /\ size' = [size EXCEPT ![t] = 0]
      /\ ptr' = [ptr EXCEPT ![t] = Small!NoBlock] /\ old' = [old EXCEPT ![t] = Small!NoBlock]
      /\ heap' = heap
  BY DEF Small!ReallocSame, Small!InRealloc, Small!RoomOf, Small!Resized, Small!Leave
<1>2. Small!TypeOK /\ CallOK(t)
  BY DEF IInv
<1>3. a \in DOMAIN given /\ size[t] \in 1..mem_size_aligned
  BY <1>1, <1>2, Sizes DEF CallOK, Small!TypeOK
<1> HIDE DEF a
<1>4. /\ DOMAIN given' = DOMAIN given /\ given'[a] = size[t]
      /\ \A c \in DOMAIN given \ {a} : given'[c] = given[c]
  BY <1>1, <1>2, <1>3 DEF Small!TypeOK
<1>5. heap_sem' \in Seq(Threads) /\ QueueOK'
  BY <1>1, <1>2, ReleaseKeeps DEF Small!TypeOK, Inside
<1>6. Small!TypeOK'
  <2>1. given' \in [DOMAIN given' -> 1..mem_size_aligned]
        /\ DOMAIN given' \subseteq Small!Offsets
    BY <1>1, <1>2, <1>3 DEF Small!TypeOK
  <2> QED BY <1>1, <1>2, <1>5, <2>1, Sizes DEF Small!TypeOK
<1>7. Sound(heap)' /\ Small!Merged(heap)' /\ LfreeOK'
  BY <1>1, <1>2 DEF IInv, LfreeOK, Small!TypeOK
<1>8. Small!AreasFit(heap)'
  <2>1. size[t] <= Small!Room(heap, a - SIZEOF_STRUCT_MEM)
    BY <1>1, <1>3
  <2> QED BY <1>1, <1>4, <2>1 DEF IInv, Small!AreasFit
<1>9. ASSUME NEW u \in Threads PROVE CallOK(u)'
  <2>1. CallOK(u)
    BY DEF IInv
  <2> QED BY <1>1, <1>2, <1>4, <2>1 DEF CallOK, Owns, Small!TypeOK
<1>10. Apart'
  BY <1>1, <1>2 DEF IInv, Apart, Owns, Small!TypeOK
<1> QED BY <1>5, <1>6, <1>7, <1>8, <1>9, <1>10 DEF IInv

-----------------------------------------------------------------------------
(* Steps that change the headers.                                          *)

\* The other threads keep the blocks they own.
LEMMA OthersKeep ==
    ASSUME IInv, NEW t \in Threads, Small!Holds(t), NEW u \in Threads \ {t},
           pc'[u] = pc[u], size'[u] = size[u], ptr'[u] = ptr[u], old'[u] = old[u],
           DOMAIN given' = DOMAIN given,
           Owns(u) => Keeps(heap, heap', ptr[u])
    PROVE  CallOK(u)'
<1>1. CallOK(u) /\ pc[u] \notin Inside
  BY HolderIsAlone DEF IInv
<1> QED BY <1>1 DEF CallOK, Owns, Keeps, Inside

LEMMA AllocateKeeps ==
    ASSUME Small!HeapAssumption, IInv, NEW t \in Threads, Small!Allocate(t), app' = app
    PROVE  IInv'
<1> DEFINE b == ptr[t]
           n == size[t]
<1>1. /\ pc[t] = "scan" /\ b < mem_size_aligned - n
      /\ ~heap.used[b] /\ Small!Room(heap, b) >= n
      /\ heap' = IF Small!Splits(heap, b, n) THEN Small!TakenSplit(heap, b, n)
           ELSE Small!TakenWhole(heap, b)
      /\ pc' = [pc EXCEPT ![t] = IF b = heap.lfree THEN "lowest" ELSE "done"]
      /\ heap_sem' = heap_sem /\ size' = size /\ ptr' = ptr /\ old' = old /\ given' = given
  BY DEF Small!Allocate, Small!Scanning, Small!Suits, Small!Goto
<1>2. Small!TypeOK /\ CallOK(t)
  BY DEF IInv
<1>3. /\ b \in Small!Blocks(heap) /\ b # Small!heap_end /\ n \in Nat \ {0}
      /\ n \in 0..mem_size_aligned /\ n >= MIN_SIZE
  BY <1>1, <1>2, Sizes DEF Small!TypeOK, CallOK
<1>4. /\ Small!Holds(t) /\ \A u \in Threads \ {t} : pc[u] \notin Inside
      /\ \A u \in Threads : pc[u] # "lowest"
  BY <1>1, HolderIsAlone DEF IInv, QueueOK, Inside
<1>5. /\ Sound(heap) /\ Small!Merged(heap) /\ Small!AreasFit(heap)
      /\ heap.lfree \in Small!Blocks(heap) /\ Small!LfreeIsFree(heap)
  BY <1>4 DEF IInv, LfreeOK
<1>6. IsTaken(heap, heap', b, n)
  <2>1. Small!Room(heap, b) \in Int
    <3>1. Small!Room(heap, b) = heap.next[b] - b - SIZEOF_STRUCT_MEM /\ b \in Nat
          /\ heap.next[b] \in Nat
      BY <1>3, <1>5, BlockFacts
    <3> QED BY <3>1, Sizes
  <2>2. CASE Small!Splits(heap, b, n)
    BY <1>1, <1>3, <1>5, <2>2, TakenSplitIsTaken
  <2>3. CASE ~Small!Splits(heap, b, n)
    BY <1>1, <1>3, <1>5, <2>1, <2>3, TakenWholeIsTaken
  <2> QED BY <2>2, <2>3
<1>7. \A a \in DOMAIN given : /\ a - SIZEOF_STRUCT_MEM # b
                              /\ Keeps(heap, heap', a - SIZEOF_STRUCT_MEM)
  BY <1>1, <1>6, AreaFacts DEF IsTaken, UsedKept
<1>8. b + SIZEOF_STRUCT_MEM \notin DOMAIN given
  <2> DEFINE a == b + SIZEOF_STRUCT_MEM
  <2>1. a - SIZEOF_STRUCT_MEM = b
    BY <1>3, Sizes DEF Small!Blocks
  <2> HIDE DEF a
  <2>2. a \notin DOMAIN given
    BY <1>7, <2>1
  <2> QED BY <2>2 DEF a
<1> HIDE DEF b, n
<1>9. Small!TypeOK'
  BY <1>1, <1>2, <1>6 DEF Small!TypeOK, IsTaken, Sound
<1>10. Sound(heap)' /\ Small!Merged(heap)'
  BY <1>6 DEF IsTaken
<1>11. Small!AreasFit(heap)'
  BY <1>1, <1>5, <1>7 DEF Small!AreasFit, Keeps, Small!Room
<1>12. LfreeOK'
  <2>1. heap'.lfree \in Small!Blocks(heap')
    BY <1>5, <1>6 DEF IsTaken
  <2>2. CASE b = heap.lfree
    <3>1. pc'[t] = "lowest"
      BY <1>1, <1>2, <2>2 DEF Small!TypeOK
    <3> QED BY <2>1, <3>1 DEF LfreeOK
  <2>3. CASE b # heap.lfree
    <3>1. Small!LfreeIsFree(heap')
      BY <1>5, <1>6, <2>3 DEF IsTaken
    <3> QED BY <2>1, <3>1 DEF LfreeOK
  <2> QED BY <2>2, <2>3
<1>13. ASSUME NEW u \in Threads PROVE CallOK(u)'
  <2>1. CASE u = t
    <3>1. pc'[t] \in {"lowest", "done"}
      BY <1>1, <1>2 DEF Small!TypeOK
    <3>2. /\ b \in Small!Blocks(heap') \ {Small!heap_end} /\ heap'.used[b]
          /\ n <= Small!Room(heap', b)
      BY <1>3, <1>6 DEF IsTaken
    <3>3. ptr'[t] = b /\ size'[t] = n /\ old'[t] = old[t] /\ given' = given
      BY <1>1 DEF b, n
    <3>4. old[t] # Small!NoBlock => old[t] \in DOMAIN given
      BY <1>2 DEF CallOK
    <3> QED BY <1>3, <1>8, <2>1, <3>1, <3>2, <3>3, <3>4 DEF CallOK, Owns
  <2>2. CASE u # t
    <3>1. Owns(u) => ptr[u] \in Small!Blocks(heap) /\ heap.used[ptr[u]]
      BY DEF IInv, CallOK
    <3>2. Owns(u) => Keeps(heap, heap', ptr[u])
      BY <1>6, <3>1 DEF IsTaken, UsedKept
    <3>3. pc'[u] = pc[u]
      BY <1>1, <1>2, <2>2 DEF Small!TypeOK
    <3> QED BY <1>1, <1>4, <2>2, <3>2, <3>3, OthersKeep
  <2> QED BY <2>1, <2>2
<1>14. Apart'
  <2>1. \A u \in Threads : Owns(u) => ptr[u] # b
    BY <1>1 DEF IInv, CallOK, b
  <2>2. \A u \in Threads \ {t} : pc'[u] = pc[u]
    BY <1>1, <1>2 DEF Small!TypeOK
  <2>3. ptr[t] = b
    BY DEF b
  <2> QED BY <1>1, <2>1, <2>2, <2>3 DEF IInv, Apart, Owns
<1>15. QueueOK'
  BY <1>1, <1>2, <1>4 DEF IInv, QueueOK, Small!TypeOK, Small!Holds
<1> QED BY <1>9, <1>10, <1>11, <1>12, <1>13, <1>14, <1>15 DEF IInv

LEMMA FreeKeeps ==
    ASSUME Small!HeapAssumption, IInv, NEW t \in Threads, Small!Free(t), app' = app
    PROVE  IInv'
<1> DEFINE m == ptr[t]
<1>1. /\ pc[t] = "free" /\ Small!Holds(t) /\ Small!Release
      /\ heap' = Small!PlugHoles(Small!Unused(heap, m), m)
      /\ pc' = [pc EXCEPT ![t] = "ready"] /\ size' = [size EXCEPT ![t] = 0]
      /\ ptr' = [ptr EXCEPT ![t] = Small!NoBlock] /\ old' = [old EXCEPT ![t] = Small!NoBlock]
      /\ given' = given
  BY DEF Small!Free, Small!Leave
<1>2. Small!TypeOK /\ CallOK(t)
  BY DEF IInv
<1>3. /\ m \in Small!Blocks(heap) /\ m # Small!heap_end
      /\ m + SIZEOF_STRUCT_MEM \notin DOMAIN given
  BY <1>1, <1>2 DEF CallOK, Owns
<1>4. /\ Sound(heap) /\ Small!Merged(heap) /\ Small!LfreeIsFree(heap)
  <2>1. \A u \in Threads : pc[u] # "lowest"
    BY <1>1, HolderIsAlone DEF Inside
  <2> QED BY <2>1 DEF IInv, LfreeOK
<1>5. /\ Sound(heap') /\ Small!Merged(heap') /\ Small!LfreeIsFree(heap')
      /\ \A c \in Small!Blocks(heap) \ {m} : heap.used[c] => Keeps(heap, heap', c)
  BY <1>1, <1>3, <1>4, FreedKeeps
<1>6. \A a \in DOMAIN given : Keeps(heap, heap', a - SIZEOF_STRUCT_MEM)
  BY <1>3, <1>5, AreaFacts
<1>7. \A u \in Threads \ {t} : Owns(u) => Keeps(heap, heap', ptr[u])
  <2>1. \A u \in Threads \ {t} : Owns(u) => ptr[u] # m
    BY <1>1 DEF IInv, Apart, Owns
  <2> QED BY <1>5, <2>1 DEF IInv, CallOK
<1>8. heap_sem' \in Seq(Threads) /\ QueueOK'
  BY <1>1, <1>2, ReleaseKeeps DEF Small!TypeOK, Inside
<1> HIDE DEF m
<1>9. Small!TypeOK'
  BY <1>1, <1>2, <1>5, <1>8, Sizes DEF Small!TypeOK, Sound
<1>10. Small!AreasFit(heap)'
  BY <1>1, <1>6 DEF IInv, Small!AreasFit, Keeps, Small!Room
<1>11. LfreeOK'
  BY <1>5 DEF LfreeOK, Small!LfreeIsFree
<1>12. ASSUME NEW u \in Threads PROVE CallOK(u)'
  <2>1. CASE u = t
    BY <1>1, <1>2, <2>1 DEF CallOK, Owns, Small!TypeOK
  <2>2. CASE u # t
    <3>1. pc'[u] = pc[u] /\ size'[u] = size[u] /\ ptr'[u] = ptr[u] /\ old'[u] = old[u]
      BY <1>1, <1>2, <2>2 DEF Small!TypeOK
    <3> QED BY <1>1, <1>7, <2>2, <3>1, OthersKeep
  <2> QED BY <2>1, <2>2
<1>13. Apart'
  BY <1>1, <1>2 DEF IInv, Apart, Owns, Small!TypeOK
<1> QED BY <1>5, <1>8, <1>9, <1>10, <1>11, <1>12, <1>13 DEF IInv

LEMMA ReallocShrinksKeeps ==
    ASSUME Small!HeapAssumption, IInv, NEW t \in Threads, Small!ReallocShrinks(t), app' = app
    PROVE  IInv'
<1> DEFINE a == old[t]
           b == a - SIZEOF_STRUCT_MEM
           n == size[t]
<1>1. /\ pc[t] = "realloc" /\ Small!Holds(t) /\ Small!Release
      /\ n + SIZEOF_STRUCT_MEM + MIN_SIZE < Small!Room(heap, b)
      /\ heap' = Small!PlugHoles(Shrunk(heap, b, n), b + SIZEOF_STRUCT_MEM + n)
      /\ given' = [given EXCEPT ![a] = n]
      /\ pc' = [pc EXCEPT ![t] = "ready"] /\ size' = [size EXCEPT ![t] = 0]
      /\ ptr' = [ptr EXCEPT ![t] = Small!NoBlock] /\ old' = [old EXCEPT ![t] = Small!NoBlock]
  BY DEF Small!ReallocShrinks, Small!InRealloc, Small!ReallocSplits, Small!RoomOf,
       Small!Resized, Small!Leave, Shrunk
<1>2. Small!TypeOK /\ CallOK(t)
  BY DEF IInv
<1>3. a \in DOMAIN given /\ n \in Nat \ {0} /\ n \in 1..mem_size_aligned
  BY <1>1, <1>2, Sizes DEF CallOK, Small!TypeOK
<1>4. /\ b \in Small!Blocks(heap) /\ b # Small!heap_end /\ heap.used[b]
      /\ b + SIZEOF_STRUCT_MEM = a
      /\ b \in Nat
  BY <1>3, AreaFacts
<1>5. /\ Sound(heap) /\ Small!Merged(heap) /\ Small!LfreeIsFree(heap)
  <2>1. \A u \in Threads : pc[u] # "lowest"
    BY <1>1, HolderIsAlone DEF Inside
  <2> QED BY <2>1 DEF IInv, LfreeOK
<1> HIDE DEF a, b, n
<1>6. n + SIZEOF_STRUCT_MEM < Small!Room(heap, b)
  <2>1. Small!Room(heap, b) = heap.next[b] - b - SIZEOF_STRUCT_MEM /\ heap.next[b] \in Nat
    BY <1>4, <1>5, BlockFacts
  <2>2. n + SIZEOF_STRUCT_MEM + MIN_SIZE < Small!Room(heap, b)
    BY <1>1
  <2>3. n \in Nat /\ b \in Nat /\ SIZEOF_STRUCT_MEM \in Nat /\ MIN_SIZE \in Nat
    BY <1>3, <1>4, Sizes
  <2> QED BY <2>1, <2>2, <2>3
<1>7. /\ Sound(heap') /\ Small!Merged(heap') /\ Small!LfreeIsFree(heap')
      /\ \A c \in Small!Blocks(heap) \ {b} : heap.used[c] => Keeps(heap, heap', c)
      /\ b \in Small!Blocks(heap') /\ heap'.used[b] /\ Small!Room(heap', b) = n
  BY <1>1, <1>3, <1>4, <1>5, <1>6, ShrunkKeeps
<1>8. /\ DOMAIN given' = DOMAIN given /\ given'[a] = n
      /\ \A c \in DOMAIN given \ {a} : given'[c] = given[c]
  BY <1>1, <1>2, <1>3 DEF Small!TypeOK
<1>9. heap_sem' \in Seq(Threads) /\ QueueOK'
  BY <1>1, <1>2, ReleaseKeeps DEF Small!TypeOK, Inside
<1>10. Small!TypeOK'
  <2>1. given' \in [DOMAIN given' -> 1..mem_size_aligned]
        /\ DOMAIN given' \subseteq Small!Offsets
    BY <1>1, <1>2, <1>3 DEF Small!TypeOK
  <2> QED BY <1>1, <1>2, <1>7, <1>9, <2>1, Sizes DEF Small!TypeOK, Sound
<1>11. Small!AreasFit(heap)'
  <2>1. ASSUME NEW c \in DOMAIN given
        PROVE  LET d == c - SIZEOF_STRUCT_MEM
               IN d \in Small!Blocks(heap') /\ heap'.used[d]
               /\ given'[c] <= Small!Room(heap', d)
    <3>1. CASE c = a
      BY <1>3, <1>7, <1>8, <3>1 DEF b
    <3>2. CASE c # a
      <4>1. c - SIZEOF_STRUCT_MEM # b
        BY <1>4, <3>2, AreaFacts
      <4>2. Keeps(heap, heap', c - SIZEOF_STRUCT_MEM)
        BY <1>7, <4>1, AreaFacts
      <4> QED BY <1>8, <3>2, <4>2, AreaFacts DEF Keeps, Small!Room
    <3> QED BY <3>1, <3>2
  <2> QED BY <1>8, <2>1 DEF Small!AreasFit
<1>12. LfreeOK'
  BY <1>7 DEF LfreeOK, Small!LfreeIsFree
<1>13. ASSUME NEW u \in Threads PROVE CallOK(u)'
  <2>1. CASE u = t
    BY <1>1, <1>2, <2>1 DEF CallOK, Owns, Small!TypeOK
  <2>2. CASE u # t
    <3>1. pc'[u] = pc[u] /\ size'[u] = size[u] /\ ptr'[u] = ptr[u] /\ old'[u] = old[u]
      BY <1>1, <1>2, <2>2 DEF Small!TypeOK
    <3>2. Owns(u) => ptr[u] # b
      BY <1>3, <1>4 DEF IInv, CallOK
    <3>3. Owns(u) => Keeps(heap, heap', ptr[u])
      BY <1>7, <3>2 DEF IInv, CallOK
    <3> QED BY <1>1, <1>8, <2>2, <3>1, <3>3, OthersKeep
  <2> QED BY <2>1, <2>2
<1>14. Apart'
  BY <1>1, <1>2 DEF IInv, Apart, Owns, Small!TypeOK
<1> QED BY <1>7, <1>9, <1>10, <1>11, <1>12, <1>13, <1>14 DEF IInv

-----------------------------------------------------------------------------
(* The theorems.                                                           *)

LEMMA NextKeeps == ASSUME Small!HeapAssumption, IInv, [Small!Next]_Small!vars PROVE IInv'
<1>1. CASE UNCHANGED Small!vars
  <2>1. /\ heap' = heap /\ heap_sem' = heap_sem /\ pc' = pc /\ size' = size /\ ptr' = ptr
        /\ old' = old /\ given' = given /\ app' = app
    BY <1>1 DEF Small!vars
  <2>2. Small!TypeOK' /\ Sound(heap)' /\ Small!Merged(heap)' /\ Small!AreasFit(heap)'
        /\ LfreeOK'
    BY <2>1 DEF IInv, Small!TypeOK, Small!AreasFit, LfreeOK
  <2>3. (\A u \in Threads : CallOK(u)') /\ Apart' /\ QueueOK'
    BY <2>1 DEF IInv, CallOK, Owns, Apart, QueueOK, Small!Holds
  <2> QED BY <2>1, <2>2, <2>3 DEF IInv
<1>2. ASSUME NEW t \in Threads, Small!Call(t), app' = app PROVE IInv'
  <2>1. CASE \E n \in app.asks[t] : Small!MallocCall(t, n)
    BY <1>2, <2>1, MallocCallKeeps
  <2>2. CASE \E n \in app.asks[t] : \E a \in Small!Idle : Small!ReallocCall(t, a, n)
    BY <1>2, <2>2, ReallocCallKeeps
  <2>3. CASE \E a \in Small!Idle : Small!FreeCall(t, a)
    BY <1>2, <2>3, FreeCallKeeps
  <2> QED BY <1>2, <2>1, <2>2, <2>3 DEF Small!Call
<1>3. ASSUME NEW t \in Threads, Small!Step(t), app' = app PROVE IInv'
  <2>1. CASE Small!Take(t) \/ Small!Search(t) \/ Small!Skip(t)
    BY <1>3, <2>1, TakeKeeps, SearchKeeps, SkipKeeps
  <2>2. CASE Small!Allocate(t) \/ Small!Advance(t)
    BY <1>3, <2>2, AllocateKeeps, AdvanceKeeps
  <2>3. CASE Small!MallocReturn(t) \/ Small!MallocFails(t)
    BY <1>3, <2>3, MallocReturnKeeps, MallocFailsKeeps
  <2>4. CASE Small!FreeOld(t) \/ Small!Free(t)
    BY <1>3, <2>4, FreeOldKeeps, FreeKeeps
  <2>5. CASE Small!ReallocSame(t) \/ Small!ReallocShrinks(t) \/ Small!ReallocMoves(t)
    BY <1>3, <2>5, ReallocSameKeeps, ReallocShrinksKeeps, ReallocMovesKeeps
  <2> QED BY <1>3, <2>1, <2>2, <2>3, <2>4, <2>5 DEF Small!Step
<1> QED BY <1>1, <1>2, <1>3 DEF Small!Next

\* used_mem is what the blocks in use take, after every step of every thread.
Exact == heap.used_mem = Taken(heap)

LEMMA ExactIs == Exact <=> Small!UsedMemIsExact
BY DEF Exact, Taken, Weight, Span, InUse, MapThenSumSet, MapThenFoldSet,
       Small!UsedMemIsExact, Small!MapThenSumSet, Small!MapThenFoldSet

LEMMA ExactInit == ASSUME Small!HeapAssumption, Small!Init PROVE Exact
<1>1. /\ heap.used_mem = 0
      /\ \A b \in Small!Offsets : heap.used[b] = (b = Small!heap_end)
  BY DEF Small!Init
<1>2. InUse(heap) = {}
  BY <1>1 DEF InUse, Small!Blocks
<1>3. Sound(heap)
  BY InitIsSound DEF IInv
<1>4. Taken(heap) = 0
  <2>1. PICK S : S = InUse(heap)
    OBVIOUS
  <2>2. PICK F : Computes(F, heap.next, S) /\ Weight(heap.next, S) = F[S]
    BY <1>3, <2>1, InUseFacts, WeightIs
  <2>3. S = {} /\ F[S] = 0
    BY <1>2, <2>1, <2>2 DEF Computes, Sums
  <2> QED BY <2>1, <2>2, <2>3 DEF Taken
<1> QED BY <1>1, <1>4 DEF Exact

LEMMA ExactChanges ==
    ASSUME Small!HeapAssumption, IInv, IInv', Exact, NEW b, Accounts(heap, heap', b)
    PROVE  Exact'
BY StaysExact DEF IInv, Exact

LEMMA AllocateStaysExact ==
    ASSUME Small!HeapAssumption, IInv, IInv', Exact, NEW t \in Threads, Small!Allocate(t)
    PROVE  Exact'
<1>1. PICK b : b = ptr[t]
  OBVIOUS
<1>2. PICK n : n = size[t]
  OBVIOUS
<1>3. /\ pc[t] = "scan" /\ b < mem_size_aligned - n /\ Small!Suits(t, b)
      /\ heap' = IF Small!Splits(heap, b, n)
                 THEN Small!TakenSplit(heap, b, n) ELSE Small!TakenWhole(heap, b)
  BY <1>1, <1>2 DEF Small!Allocate, Small!Scanning
<1>4. /\ Sound(heap) /\ b \in Small!Blocks(heap) /\ n \in Nat \ {0} /\ ~heap.used[b]
      /\ n <= mem_size_aligned
  BY <1>1, <1>2, <1>3, Sizes DEF IInv, CallOK, Small!TypeOK, Small!Suits
<1>5. b # Small!heap_end
  BY <1>4, HeapEnd
<1>6. Accounts(heap, heap', b)
  BY <1>3, <1>4, <1>5, TakenWholeAccounts, TakenSplitAccounts
<1> QED BY <1>6, ExactChanges

LEMMA AdvanceStaysExact ==
    ASSUME IInv, Exact, NEW t \in Threads, Small!Advance(t)
    PROVE  Exact'
<1>1. heap' = [heap EXCEPT !.lfree = heap.next[heap.lfree]]
  BY DEF Small!Advance
<1>2. heap'.used_mem = heap.used_mem /\ heap'.next = heap.next /\ heap'.used = heap.used
  BY <1>1 DEF IInv, Sound, Small!Headers
<1>3. InUse(heap') = InUse(heap)
  BY <1>2 DEF InUse, Small!Blocks
<1> QED BY <1>2, <1>3 DEF Exact, Taken

LEMMA FreeStaysExact ==
    ASSUME Small!HeapAssumption, IInv, IInv', Exact, NEW t \in Threads, Small!Free(t)
    PROVE  Exact'
<1>1. PICK m : m = ptr[t]
  OBVIOUS
<1>2. /\ pc[t] = "free" /\ Small!Holds(t)
      /\ heap' = Small!PlugHoles(Small!Unused(heap, m), m)
  BY <1>1 DEF Small!Free
<1>3. m \in Small!Blocks(heap) /\ m # Small!heap_end /\ heap.used[m]
  BY <1>1, <1>2 DEF IInv, CallOK, Owns
<1>4. Sound(heap) /\ Small!Merged(heap) /\ Small!LfreeIsFree(heap)
  <2>1. \A u \in Threads : pc[u] # "lowest"
    BY <1>2, HolderIsAlone DEF Inside
  <2> QED BY <2>1 DEF IInv, LfreeOK
<1>5. Accounts(heap, heap', m)
  BY <1>2, <1>3, <1>4, FreedAccounts
<1> QED BY <1>5, ExactChanges

LEMMA ReallocShrinksStaysExact ==
    ASSUME Small!HeapAssumption, IInv, IInv', Exact, NEW t \in Threads,
           Small!ReallocShrinks(t)
    PROVE  Exact'
<1>1. PICK a : a = old[t]
  OBVIOUS
<1>2. PICK b : b = a - SIZEOF_STRUCT_MEM
  OBVIOUS
<1>3. PICK n : n = size[t]
  OBVIOUS
<1>4. /\ pc[t] = "realloc" /\ Small!Holds(t)
      /\ n + SIZEOF_STRUCT_MEM + MIN_SIZE < Small!Room(heap, b)
      /\ heap' = Small!PlugHoles(Shrunk(heap, b, n), b + SIZEOF_STRUCT_MEM + n)
  BY <1>1, <1>2, <1>3 DEF Small!ReallocShrinks, Small!InRealloc, Small!ReallocSplits,
       Small!RoomOf, Shrunk
<1>5. a \in DOMAIN given /\ n \in Nat \ {0}
  BY <1>1, <1>3, <1>4, Sizes DEF IInv, CallOK, Small!TypeOK
<1>6. b \in Small!Blocks(heap) /\ b # Small!heap_end /\ heap.used[b] /\ b \in Nat
  BY <1>2, <1>5, AreaFacts
<1>7. Sound(heap) /\ Small!Merged(heap) /\ Small!LfreeIsFree(heap)
  <2>1. \A u \in Threads : pc[u] # "lowest"
    BY <1>4, HolderIsAlone DEF Inside
  <2> QED BY <2>1 DEF IInv, LfreeOK
<1>8. n + SIZEOF_STRUCT_MEM < Small!Room(heap, b)
  <2>1. Small!Room(heap, b) = heap.next[b] - b - SIZEOF_STRUCT_MEM /\ heap.next[b] \in Nat
    BY <1>6, <1>7, BlockFacts
  <2>2. n \in Nat /\ b \in Nat /\ SIZEOF_STRUCT_MEM \in Nat /\ MIN_SIZE \in Nat
    BY <1>5, <1>6, Sizes
  <2> QED BY ONLY <1>4, <2>1, <2>2
<1>9. Accounts(heap, heap', b)
  BY <1>4, <1>5, <1>6, <1>7, <1>8, ShrunkAccounts
<1> QED BY <1>9, ExactChanges

LEMMA ExactKept ==
    ASSUME Small!HeapAssumption, IInv, Exact, [Small!Next]_Small!vars PROVE Exact'
<1>1. IInv'
  BY NextKeeps
<1>2. ASSUME heap' = heap PROVE Exact'
  BY <1>2 DEF Exact
<1>3. CASE UNCHANGED Small!vars
  BY <1>2, <1>3 DEF Small!vars
<1>4. ASSUME NEW t \in Threads, Small!Call(t) PROVE Exact'
  BY <1>2, <1>4 DEF Small!Call, Small!MallocCall, Small!ReallocCall, Small!FreeCall
<1>5. ASSUME NEW t \in Threads, Small!Step(t) PROVE Exact'
  <2>1. CASE Small!Take(t) \/ Small!Search(t) \/ Small!Skip(t) \/ Small!MallocReturn(t)
               \/ Small!MallocFails(t) \/ Small!FreeOld(t) \/ Small!ReallocSame(t)
               \/ Small!ReallocMoves(t)
    BY <1>2, <2>1 DEF Small!Take, Small!TakeAt, Small!Search, Small!Skip,
         Small!MallocReturn, Small!MallocFails, Small!FreeOld, Small!ReallocSame,
         Small!ReallocMoves
  <2>2. CASE Small!Allocate(t) \/ Small!Advance(t) \/ Small!Free(t)
               \/ Small!ReallocShrinks(t)
    BY <1>1, <2>2, AllocateStaysExact, AdvanceStaysExact, FreeStaysExact,
       ReallocShrinksStaysExact
  <2> QED BY <1>5, <2>1, <2>2 DEF Small!Step
<1> QED BY <1>3, <1>4, <1>5 DEF Small!Next

LEMMA SoundEnough == ASSUME IInv PROVE Small!HeapIsSound
<1>1. Small!TypeOK /\ Small!Tiled(heap) /\ Small!Merged(heap) /\ Small!AreasFit(heap)
  BY DEF IInv, Sound
<1>2. ASSUME heap_sem = <<>> PROVE Small!LfreeIsFree(heap)
  <2>1. \A t \in Threads : ~Small!Holds(t)
    BY <1>2 DEF Small!Holds
  <2>2. \A t \in Threads : pc[t] # "lowest"
    BY <2>1 DEF IInv, QueueOK
  <2> QED BY <2>2 DEF IInv, LfreeOK
<1> QED BY <1>1, <1>2 DEF Small!HeapIsSound

\* An area given out, or grown in place, overlaps no other.
LEMMA AreasAreApart ==
    ASSUME Small!HeapAssumption, IInv, NEW b \in Small!Blocks(heap) \ {Small!heap_end},
           NEW n \in 1..mem_size_aligned, n <= Small!Room(heap, b)
    PROVE  Small!Abstract!Fits(b + SIZEOF_STRUCT_MEM, n, given)
<1> DEFINE a == b + SIZEOF_STRUCT_MEM
<1>1. /\ SIZEOF_STRUCT_MEM \in Nat \ {0} /\ Small!heap_end \in Nat /\ mem_size_aligned \in Nat
  BY Sizes
<1>2. /\ b \in Nat /\ heap.next[b] \in Nat /\ heap.next[b] <= Small!heap_end
      /\ Small!Room(heap, b) = heap.next[b] - b - SIZEOF_STRUCT_MEM
      /\ \A c \in Small!Blocks(heap) : c \in Nat /\ (c <= b \/ heap.next[b] <= c)
  BY BlockFacts DEF IInv
<1>3. a + n <= heap.next[b] /\ n \in Nat /\ n >= 1 /\ a \in Nat
  BY <1>1, <1>2
<1>4. a \in 0..Small!heap_end - 1 /\ a + n - 1 \in 0..Small!heap_end - 1
  BY <1>1, <1>2, <1>3
<1>5. ASSUME NEW c \in DOMAIN given \ {a} PROVE a + n <= c \/ c + given[c] <= a
  <2> DEFINE d == c - SIZEOF_STRUCT_MEM
  <2>1. /\ c \in Nat /\ d \in Small!Blocks(heap) \ {Small!heap_end}
        /\ d + SIZEOF_STRUCT_MEM = c
        /\ given[c] \in Nat /\ given[c] <= Small!Room(heap, d) /\ d \in Nat
    BY <1>1, AreaFacts, Sizes
  <2> HIDE DEF d
  <2>2. /\ heap.next[d] \in Nat /\ Small!Room(heap, d) = heap.next[d] - d - SIZEOF_STRUCT_MEM
        /\ b <= d \/ heap.next[d] <= b
    BY <2>1, BlockFacts DEF IInv
  <2>3. d # b
    BY <1>1, <1>2, <2>1
  <2>4. d <= b \/ heap.next[b] <= d
    BY <1>2, <2>1
  <2> QED BY <1>1, <1>2, <1>3, <2>1, <2>2, <2>3, <2>4
<1> QED BY <1>4, <1>5 DEF Small!Abstract!Fits

LEMMA GiveIsAbstract ==
    ASSUME Small!HeapAssumption, IInv, NEW t \in Threads, Small!MallocReturn(t)
    PROVE  Small!Abstract!Next
<1> DEFINE a == ptr[t] + SIZEOF_STRUCT_MEM
<1>1. /\ pc[t] \in {"lowest", "done"}
      /\ given' = [b \in DOMAIN given \cup {a} |-> IF b = a THEN size[t] ELSE given[b]]
  BY DEF Small!MallocReturn, Small!LowestFound, Small!HandOver
<1>2. Small!TypeOK /\ CallOK(t)
  BY DEF IInv
<1>3. /\ ptr[t] \in Small!Blocks(heap) \ {Small!heap_end} /\ a \notin DOMAIN given
      /\ size[t] <= Small!Room(heap, ptr[t]) /\ size[t] \in 1..mem_size_aligned
  BY <1>1, <1>2, Sizes DEF CallOK, Owns, Small!TypeOK
<1>4. Small!Abstract!Fits(a, size[t], given)
  BY <1>3, AreasAreApart
<1> HIDE DEF a
<1>5. a \in DOMAIN given' /\ given'[a] = size[t]
  BY <1>1
<1>6. Small!Abstract!Give(a, given'[a])
  BY <1>1, <1>3, <1>4, <1>5 DEF Small!Abstract!Give
<1> QED BY <1>5, <1>6 DEF Small!Abstract!Next

LEMMA ResizeIsAbstract ==
    ASSUME Small!HeapAssumption, IInv, NEW t \in Threads, Small!ReallocSame(t)
             \/ Small!ReallocShrinks(t)
    PROVE  Small!Abstract!Next
<1> DEFINE a == old[t]
           b == a - SIZEOF_STRUCT_MEM
<1>1. /\ pc[t] = "realloc" /\ given' = [given EXCEPT ![a] = size[t]]
      /\ \/ Small!Room(heap, b) = size[t]
         \/ size[t] + SIZEOF_STRUCT_MEM + MIN_SIZE < Small!Room(heap, b)
  BY DEF Small!ReallocSame, Small!ReallocShrinks, Small!InRealloc, Small!RoomOf,
       Small!ReallocSplits, Small!Resized
<1>2. Small!TypeOK /\ CallOK(t)
  BY DEF IInv
<1>3. a \in DOMAIN given /\ size[t] \in 1..mem_size_aligned
  BY <1>1, <1>2, Sizes DEF CallOK, Small!TypeOK
<1>4. b \in Small!Blocks(heap) \ {Small!heap_end} /\ b + SIZEOF_STRUCT_MEM = a
  BY <1>3, AreaFacts
<1> HIDE DEF a, b
<1>5. /\ Small!Room(heap, b) = heap.next[b] - b - SIZEOF_STRUCT_MEM
      /\ heap.next[b] \in Nat /\ b \in Nat
  BY <1>4, BlockFacts DEF IInv
<1>6. size[t] <= Small!Room(heap, b)
  <2>1. SIZEOF_STRUCT_MEM \in Nat /\ MIN_SIZE \in Nat /\ mem_size_aligned \in Nat
    BY Sizes
  <2>2. size[t] \in Nat /\ Small!Room(heap, b) \in Int
    BY <1>3, <1>5, <2>1
  <2>3. \/ Small!Room(heap, b) = size[t]
        \/ size[t] + SIZEOF_STRUCT_MEM + MIN_SIZE < Small!Room(heap, b)
    BY <1>1
  <2> QED BY <2>1, <2>2, <2>3
<1>7. Small!Abstract!Fits(a, size[t], given)
  BY <1>3, <1>4, <1>6, AreasAreApart
<1>8. a \in DOMAIN given' /\ given'[a] = size[t]
  BY <1>1, <1>2, <1>3 DEF Small!TypeOK
<1>9. Small!Abstract!Resize(a, given'[a])
  BY <1>1, <1>3, <1>7, <1>8 DEF Small!Abstract!Resize
<1> QED BY <1>8, <1>9 DEF Small!Abstract!Next

LEMMA TakeBackIsAbstract ==
    ASSUME IInv, NEW t \in Threads,
           Small!FreeOld(t) \/ \E a \in Small!Idle : Small!FreeCall(t, a)
    PROVE  Small!Abstract!Next
<1>1. PICK a \in DOMAIN given : Small!Surrender(a)
  <2>1. CASE Small!FreeOld(t)
    BY <2>1 DEF Small!FreeOld, IInv, CallOK
  <2>2. CASE \E a \in Small!Idle : Small!FreeCall(t, a)
    BY <2>2 DEF Small!FreeCall, Small!Idle
  <2> QED BY <2>1, <2>2
<1>2. Small!Abstract!TakeBack(a)
  BY <1>1 DEF Small!Surrender, Small!Abstract!TakeBack
<1> QED BY <1>2 DEF Small!Abstract!Next

\* A step gives an area, takes one back, resizes one, or changes none.
LEMMA StepIsAbstract ==
    ASSUME Small!HeapAssumption, IInv, [Small!Next]_Small!vars
    PROVE  [Small!Abstract!Next]_given
<1>1. CASE UNCHANGED Small!vars
  BY <1>1 DEF Small!vars
<1>2. ASSUME NEW t \in Threads, Small!Call(t) PROVE Small!Abstract!Next \/ given' = given
  BY <1>2, TakeBackIsAbstract DEF Small!Call, Small!MallocCall, Small!ReallocCall
<1>3. ASSUME NEW t \in Threads, Small!Step(t) PROVE Small!Abstract!Next \/ given' = given
  <2>1. CASE Small!Take(t) \/ Small!Search(t) \/ Small!Skip(t) \/ Small!Allocate(t)
               \/ Small!Advance(t)
    BY <2>1 DEF Small!Take, Small!TakeAt, Small!Search, Small!Skip, Small!Allocate,
         Small!Advance
  <2>2. CASE Small!MallocFails(t) \/ Small!Free(t) \/ Small!ReallocMoves(t)
    BY <2>2 DEF Small!MallocFails, Small!Free, Small!ReallocMoves
  <2>3. CASE Small!MallocReturn(t) \/ Small!FreeOld(t) \/ Small!ReallocSame(t)
               \/ Small!ReallocShrinks(t)
    BY <2>3, GiveIsAbstract, TakeBackIsAbstract, ResizeIsAbstract
  <2> QED BY <1>3, <2>1, <2>2, <2>3 DEF Small!Step
<1> QED BY <1>1, <1>2, <1>3 DEF Small!Next

-----------------------------------------------------------------------------
(* The memory heaps of memheap.c: lists.                                   *)

\* The operators of the community modules that the free lists are made of.
LEMMA Dropped ==
    ASSUME NEW s \in Seq(Nat), NEW k \in 1..Len(s)
    PROVE  /\ Pools!RemoveAt(s, k) \in Seq(Nat)
           /\ Len(Pools!RemoveAt(s, k)) = Len(s) - 1
           /\ \A i \in 1..Len(s)-1 :
                 Pools!RemoveAt(s, k)[i] = IF i < k THEN s[i] ELSE s[i+1]
<1> DEFINE a == SubSeq(s, 1, k - 1)
           b == SubSeq(s, k + 1, Len(s))
<1>1. Len(s) \in Nat /\ k \in Nat /\ 1 <= k /\ k <= Len(s)
  BY LenProperties
<1>2. /\ a \in Seq(Nat) /\ Len(a) = k - 1
      /\ \A i \in 1..k-1 : a[i] = s[i]
  BY <1>1, SubSeqProperties, ElementOfSeq
<1>3. /\ b \in Seq(Nat) /\ Len(b) = Len(s) - k
      /\ \A i \in 1..Len(s)-k : b[i] = s[k+i]
  <2>1. \A i \in k+1..Len(s) : s[i] \in Nat
    BY <1>1, ElementOfSeq
  <2>2. /\ b \in Seq(Nat)
        /\ Len(b) = IF k + 1 <= Len(s) THEN Len(s) - (k + 1) + 1 ELSE 0
        /\ \A i \in 1..Len(s)-(k+1)+1 : b[i] = s[(k+1)+i-1]
    BY <1>1, <2>1, SubSeqProperties
  <2> HIDE DEF b
  <2> QED BY <1>1, <2>2
<1>4. Pools!RemoveAt(s, k) = a \o b
  BY DEF Pools!RemoveAt
<1> HIDE DEF a, b
<1>5. /\ a \o b \in Seq(Nat)
      /\ Len(a \o b) = Len(a) + Len(b)
      /\ \A i \in 1..Len(a) + Len(b) :
            (a \o b)[i] = IF i <= Len(a) THEN a[i] ELSE b[i - Len(a)]
  BY <1>2, <1>3, ConcatProperties
<1>6. ASSUME NEW i \in 1..Len(s)-1
      PROVE  (a \o b)[i] = IF i < k THEN s[i] ELSE s[i+1]
  <2>1. CASE i < k
    <3>1. i \in 1..k-1 /\ i <= Len(a)
      BY <1>1, <1>2, <2>1
    <3> QED BY <1>1, <1>2, <1>3, <1>5, <2>1, <3>1
  <2>2. CASE ~(i < k)
    <3>1. i - (k - 1) \in 1..Len(s)-k /\ ~(i <= Len(a))
      BY <1>1, <1>2, <2>2
    <3>2. (a \o b)[i] = b[i - (k - 1)]
      <4>1. Len(a) = k - 1 /\ i \in 1..Len(a) + Len(b)
        BY <1>1, <1>2, <1>3
      <4> QED BY <1>5, <3>1, <4>1
    <3>3. b[i - (k - 1)] = s[k + (i - (k - 1))]
      BY <1>3, <3>1
    <3>4. k + (i - (k - 1)) = i + 1
      BY <1>1
    <3> QED BY <2>2, <3>2, <3>3, <3>4
  <2> QED BY <2>1, <2>2
<1>7. Len(a) + Len(b) = Len(s) - 1
  BY <1>1, <1>2, <1>3
<1>8. a \o b \in Seq(Nat) /\ Len(a \o b) = Len(s) - 1
  BY <1>5, <1>7
<1> QED BY ONLY <1>4, <1>6, <1>8

\* Where Min is a number of the set.
LEMMA HasMinimum ==
    ASSUME NEW S \in SUBSET Nat, S # {}
    PROVE  Pools!Min(S) \in S /\ \A y \in S : Pools!Min(S) <= y
<1>1. PICK x \in S : \A y \in S : ~ (<<y, x>> \in OpToRel(<, Nat))
  BY NatLessThanWellFounded, WFMin
<1>2. \A y \in S : ~ (y < x)
  BY <1>1 DEF OpToRel
<1>3. \A y \in S : x <= y
  BY <1>2
<1> QED BY <1>3 DEF Pools!Min

\* A list is its elements, in an order, without repetition.
Distinct(s) == \A i, j \in 1..Len(s) : s[i] = s[j] => i = j

Elements(s) == {s[i] : i \in 1..Len(s)}

\* RemoveFirst takes one out of a list without repetitions.
LEMMA RemovedIs ==
    ASSUME NEW s \in Seq(Nat), Distinct(s), NEW e
    PROVE  LET r == Pools!RemoveFirst(s, e)
           IN r \in Seq(Nat) /\ Distinct(r) /\ Elements(r) = Elements(s) \ {e}
<1>1. CASE ~ \E i \in 1..Len(s) : s[i] = e
  BY <1>1 DEF Pools!RemoveFirst, Elements
<1>2. CASE \E i \in 1..Len(s) : s[i] = e
  <2> DEFINE I == {i \in 1..Len(s) : s[i] = e}
             k == Pools!Min(I)
             r == Pools!RemoveAt(s, k)
             n == Len(s) - 1
  <2>1. Pools!RemoveFirst(s, e) = r
    BY <1>2 DEF Pools!RemoveFirst, Pools!SelectInSeq
  <2>2. Len(s) \in Nat /\ \A i \in 1..Len(s) : s[i] \in Nat
    BY LenProperties, ElementOfSeq
  <2>3. k \in 1..Len(s) /\ s[k] = e
    <3>1. I \in SUBSET Nat /\ I # {}
      BY <1>2, <2>2
    <3> HIDE DEF I
    <3>2. k \in I
      BY <3>1, HasMinimum
    <3> QED BY <3>2 DEF I
  <2> HIDE DEF k
  <2>4. r \in Seq(Nat) /\ Len(r) = n /\ \A i \in 1..n : r[i] = IF i < k THEN s[i] ELSE s[i+1]
    BY <2>3, Dropped
  <2> HIDE DEF r
  <2>5. Distinct(r)
    <3> SUFFICES ASSUME NEW i \in 1..n, NEW j \in 1..n, r[i] = r[j] PROVE i = j
      BY <2>4 DEF Distinct
    <3>1. i \in 1..Len(s) /\ i+1 \in 1..Len(s) /\ j \in 1..Len(s) /\ j+1 \in 1..Len(s)
      BY <2>2
    <3>2. \A a, b \in 1..Len(s) : s[a] = s[b] => a = b
      BY DEF Distinct
    <3> DEFINE a == IF i < k THEN i ELSE i + 1
               b == IF j < k THEN j ELSE j + 1
    <3>3. a \in 1..Len(s) /\ b \in 1..Len(s) /\ s[a] = s[b]
      BY <2>4, <3>1
    <3>4. a = b
      BY <3>2, <3>3
    <3> QED BY <2>2, <2>3, <3>4
  <2>6. ASSUME NEW x \in Elements(r) PROVE x \in Elements(s) \ {e}
    <3>1. PICK i \in 1..n : r[i] = x
      BY <2>4 DEF Elements
    <3>2. i \in 1..Len(s) /\ i+1 \in 1..Len(s)
      BY <2>2
    <3> DEFINE j == IF i < k THEN i ELSE i + 1
    <3>3. j \in 1..Len(s) /\ j # k /\ x = s[j]
      <4>1. i \in Nat /\ k \in Nat
        BY <2>2, <2>3, <3>2
      <4>2. j \in 1..Len(s) /\ j # k
        BY <3>2, <4>1
      <4>3. x = s[j]
        BY <2>4, <3>1
      <4> QED BY <4>2, <4>3
    <3> HIDE DEF j
    <3> QED BY <2>3, <3>3 DEF Elements, Distinct
  <2>7. ASSUME NEW x \in Elements(s) \ {e} PROVE x \in Elements(r)
    <3>1. PICK i \in 1..Len(s) : s[i] = x
      BY DEF Elements
    <3> DEFINE j == IF i < k THEN i ELSE i - 1
    <3>2. i # k
      BY <2>3, <3>1
    <3>3. j \in 1..n /\ r[j] = x
      <4>1. j \in 1..n /\ (IF j < k THEN j ELSE j + 1) = i
        BY <2>2, <2>3, <3>2
      <4> HIDE DEF j
      <4> QED BY <2>4, <3>1, <4>1
    <3> HIDE DEF j
    <3> QED BY <2>4, <3>3 DEF Elements
  <2> QED BY <2>1, <2>4, <2>5, <2>6, <2>7
<1> QED BY <1>1, <1>2

\* A new one goes to the head.
LEMMA HeadedIs ==
    ASSUME NEW s \in Seq(Nat), Distinct(s), NEW e \in Nat
    PROVE  LET r == <<e>> \o s
           IN /\ r \in Seq(Nat) /\ Elements(r) = Elements(s) \cup {e}
              /\ e \notin Elements(s) => Distinct(r)
<1> DEFINE r == <<e>> \o s
           n == Len(s)
<1>1. n \in Nat /\ r \in Seq(Nat) /\ Len(r) = 1 + n
      /\ \A i \in 1..1 + n : r[i] = IF i <= 1 THEN e ELSE s[i - 1]
  <2>1. <<e>> \in Seq(Nat) /\ Len(<<e>>) = 1 /\ <<e>>[1] = e
    OBVIOUS
  <2> QED BY <2>1, ConcatProperties, LenProperties
<1> HIDE DEF r
<1>2. r[1] = e /\ \A i \in 1..n : i + 1 \in 1..1+n /\ r[i + 1] = s[i]
  BY <1>1
<1>3. \A i \in 1..1 + n : i = 1 \/ (i - 1 \in 1..n /\ r[i] = s[i - 1])
  BY <1>1
<1>4. Elements(r) = Elements(s) \cup {e}
  <2>1. ASSUME NEW x \in Elements(r) PROVE x \in Elements(s) \cup {e}
    <3>1. PICK i \in 1..1 + n : r[i] = x
      BY <1>1 DEF Elements
    <3> QED BY <1>2, <1>3, <3>1 DEF Elements
  <2>2. ASSUME NEW x \in Elements(s) PROVE x \in Elements(r)
    <3>1. PICK i \in 1..n : s[i] = x
      BY DEF Elements
    <3> QED BY <1>1, <1>2, <3>1 DEF Elements
  <2>3. e \in Elements(r)
    BY <1>1, <1>2 DEF Elements
  <2> QED BY <2>1, <2>2, <2>3
<1>5. ASSUME e \notin Elements(s) PROVE Distinct(r)
  <2> SUFFICES ASSUME NEW i \in 1..1 + n, NEW j \in 1..1 + n, r[i] = r[j] PROVE i = j
    BY <1>1 DEF Distinct
  <2>1. i = 1 <=> j = 1
    BY <1>2, <1>3, <1>5 DEF Elements
  <2>2. CASE i # 1 /\ j # 1
    <3>1. i - 1 = j - 1
      BY <1>3, <2>2 DEF Distinct
    <3> QED BY <1>1, <3>1
  <2> QED BY <2>1, <2>2
<1> QED BY <1>1, <1>4, <1>5 DEF r

\* In the words of the specification.
LEMMA ElementsAre ==
    ASSUME NEW s \in Seq(Nat)
    PROVE  /\ Pools!Range(s) = Elements(s)
           /\ Pools!IsInjective(s) <=> Distinct(s)
<1>1. DOMAIN s = 1..Len(s)
  BY LenProperties
<1> QED BY <1>1 DEF Pools!Range, Pools!IsInjective, Elements, Distinct

\* What is assumed of the memory heaps, in plain arithmetic.
LEMMA PoolSizes ==
    ASSUME Pools!MemHeapAssumption
    PROVE  /\ RT_MEMHEAP_SIZE \in Nat \ {0} /\ RT_MEMHEAP_MINIALLOC \in Nat \ {0}
           /\ \A m \in Pools!MemHeaps :
                 /\ start_addr[m] \in Nat /\ pool_size[m] \in Nat /\ Pools!TailOf(m) \in Nat
                 /\ Pools!TailOf(m) = start_addr[m] + pool_size[m] - RT_MEMHEAP_SIZE
                 /\ start_addr[m] + RT_MEMHEAP_SIZE < Pools!TailOf(m)
<1>1. /\ RT_MEMHEAP_SIZE \in Nat \ {0} /\ RT_MEMHEAP_MINIALLOC \in Nat \ {0}
      /\ \A m \in Pools!MemHeaps :
            start_addr[m] \in Nat /\ pool_size[m] \in Nat /\ pool_size[m] > 2 * RT_MEMHEAP_SIZE
  <2>1. start_addr \in Seq(Nat)
    BY DEF Pools!MemHeapAssumption
  <2>2. \A m \in DOMAIN start_addr : start_addr[m] \in Nat
    BY <2>1, ElementOfSeq, LenProperties
  <2> QED BY <2>2 DEF Pools!MemHeapAssumption, Pools!MemHeaps
<1> QED BY <1>1 DEF Pools!TailOf

\* Where no item is.
NoItem == -1

\* The types of an item, and of what memheap.c keeps.
ItemRecs == [used : BOOLEAN, next : Nat, prev : Nat, pool : Pools!MemHeaps]

ItemHeaps ==
    [items : UNION {[D -> ItemRecs] : D \in SUBSET Nat},
     free : [Pools!MemHeaps -> Seq(Nat)], available : [Pools!MemHeaps -> Int]]

Items(h) == DOMAIN h.items

\* What they are of one item.
LEMMA HeapTyped ==
    ASSUME NEW h \in ItemHeaps
    PROVE  /\ Items(h) \in SUBSET Nat /\ h.items \in [Items(h) -> ItemRecs]
           /\ h.free \in [Pools!MemHeaps -> Seq(Nat)]
           /\ h.available \in [Pools!MemHeaps -> Int]
           /\ \A i \in Items(h) :
                 /\ i \in Nat /\ h.items[i].used \in BOOLEAN /\ h.items[i].next \in Nat
                 /\ h.items[i].prev \in Nat /\ h.items[i].pool \in Pools!MemHeaps
<1>1. PICK D \in SUBSET Nat : h.items \in [D -> ItemRecs]
  BY DEF ItemHeaps
<1>2. Items(h) = D
  BY <1>1 DEF Items
<1> QED BY <1>1, <1>2 DEF ItemHeaps, ItemRecs

\* A heap is made of its parts.
LEMMA TypedHeap ==
    ASSUME NEW h, NEW D \in SUBSET Nat, NEW f \in [D -> ItemRecs],
           NEW l \in [Pools!MemHeaps -> Seq(Nat)], NEW a \in [Pools!MemHeaps -> Int],
           h = [items |-> f, free |-> l, available |-> a]
    PROVE  h \in ItemHeaps /\ Items(h) = D
<1>1. h.items = f
  OBVIOUS
<1>2. Items(h) = D
  BY <1>1 DEF Items
<1>3. f \in UNION {[E -> ItemRecs] : E \in SUBSET Nat}
  OBVIOUS
<1> QED BY <1>2, <1>3 DEF ItemHeaps

\* The item at the end of each memory heap, in use for ever.
IsTail(h, i) == i = Pools!TailOf(h.items[i].pool)

\* The items are a ring of each memory heap, that goes up to the tail and back, with
\* room in each item but the tail.
ItemLinked(h, i) ==
    LET e == h.items[i] IN
    /\ start_addr[e.pool] <= i /\ i <= Pools!TailOf(e.pool)
    /\ e.next \in Items(h) /\ h.items[e.next].prev = i /\ h.items[e.next].pool = e.pool
    /\ e.prev \in Items(h) /\ h.items[e.prev].next = i
    /\ IsTail(h, i) => e.used
    /\ ~IsTail(h, i) => /\ i + RT_MEMHEAP_SIZE < e.next
                        /\ \A j \in Items(h) : j <= i \/ e.next <= j

Ring(h) == h \in ItemHeaps /\ \A i \in Items(h) : ItemLinked(h, i)

\* The free lists have each free item once, but for x.
Listed(h, x) ==
    \A m \in Pools!MemHeaps :
        /\ Distinct(h.free[m])
        /\ Elements(h.free[m]) = {i \in Items(h) : h.items[i].pool = m /\ ~h.items[i].used
                                                   /\ i # x}

\* No two free items are neighbours, but for x and the one behind it.
Unbroken(h, x) ==
    \A i \in Items(h) : i = x \/ h.items[i].used \/ h.items[h.items[i].next].used

\* What is known of an item that is not a tail.
LEMMA ItemFacts ==
    ASSUME Pools!MemHeapAssumption, NEW h, Ring(h), NEW i \in Items(h), ~IsTail(h, i)
    PROVE  /\ i \in Nat /\ h.items[i].next \in Items(h) /\ h.items[i].next \in Nat
           /\ i + RT_MEMHEAP_SIZE < h.items[i].next
           /\ h.items[h.items[i].next].prev = i
           /\ h.items[h.items[i].next].pool = h.items[i].pool
           /\ h.items[i].pool \in Pools!MemHeaps
           /\ h.items[i].next <= Pools!TailOf(h.items[i].pool)
           /\ start_addr[h.items[i].pool] <= i
           /\ Pools!MemItemSize(h, i) = h.items[i].next - i - RT_MEMHEAP_SIZE
           /\ Pools!MemItemSize(h, i) \in Nat \ {0}
           /\ \A j \in Items(h) : j \in Nat /\ (j <= i \/ h.items[i].next <= j)
<1>1. h \in ItemHeaps /\ ItemLinked(h, i)
  BY DEF Ring
<1>2. ItemLinked(h, h.items[i].next)
  BY <1>1 DEF Ring, ItemLinked
<1>3. /\ h.items[i].pool \in Pools!MemHeaps /\ RT_MEMHEAP_SIZE \in Nat
      /\ \A j \in Items(h) : j \in Nat
  BY <1>1, HeapTyped, PoolSizes
<1>4. /\ h.items[i].next \in Items(h) /\ h.items[h.items[i].next].prev = i
      /\ h.items[h.items[i].next].pool = h.items[i].pool
      /\ i + RT_MEMHEAP_SIZE < h.items[i].next /\ start_addr[h.items[i].pool] <= i
      /\ \A j \in Items(h) : j <= i \/ h.items[i].next <= j
  BY <1>1 DEF ItemLinked
<1>5. h.items[i].next <= Pools!TailOf(h.items[i].pool)
  BY <1>2, <1>4 DEF ItemLinked
<1>6. /\ Pools!MemItemSize(h, i) = h.items[i].next - i - RT_MEMHEAP_SIZE
      /\ Pools!MemItemSize(h, i) \in Nat \ {0}
  BY <1>3, <1>4 DEF Pools!MemItemSize
<1> QED BY <1>3, <1>4, <1>5, <1>6

\* No two items have the same one behind them.
LEMMA NextsDiffer ==
    ASSUME NEW h, Ring(h), NEW i \in Items(h), NEW j \in Items(h),
           h.items[i].next = h.items[j].next
    PROVE  i = j
BY DEF Ring, ItemLinked

-----------------------------------------------------------------------------
(* Items are joined and cut.                                               *)

\* The item i takes in the next one.
IsTakenIn(h, g, i) ==
    LET n == h.items[i].next
    IN /\ g \in ItemHeaps /\ Items(g) = Items(h) \ {n}
       /\ \A j \in Items(g) :
             /\ g.items[j].used = h.items[j].used /\ g.items[j].pool = h.items[j].pool
             /\ g.items[j].next = IF j = i THEN h.items[n].next ELSE h.items[j].next
             /\ g.items[j].prev = IF j = h.items[n].next THEN i ELSE h.items[j].prev
       /\ \A m \in Pools!MemHeaps :
             g.free[m] = IF m = h.items[i].pool THEN Pools!RemoveFirst(h.free[m], n)
                         ELSE h.free[m]
       /\ g.available = h.available

\* This is what TakenIn does, ...
LEMMA TakenInIs ==
    ASSUME Pools!MemHeapAssumption, NEW h, Ring(h), NEW x, Listed(h, x),
           NEW i \in Items(h), ~IsTail(h, i), ~IsTail(h, h.items[i].next)
    PROVE  IsTakenIn(h, Pools!TakenIn(h, i), i)
<1> DEFINE n == h.items[i].next
           m == h.items[i].pool
           e == h.items[n].next
           D == Items(h) \ {n}
           f == [a \in D |->
                     CASE a = i -> [h.items[i] EXCEPT !.next = e]
                       [] a = e -> [h.items[a] EXCEPT !.prev = i]
                       [] OTHER -> h.items[a]]
           l == [h.free EXCEPT ![m] = Pools!RemoveFirst(@, n)]
           g == Pools!TakenIn(h, i)
<1>1. h \in ItemHeaps
  BY DEF Ring
<1>2. g = [items |-> f, free |-> l, available |-> h.available]
  <2>1. h = [items |-> h.items, free |-> h.free, available |-> h.available]
    BY <1>1 DEF ItemHeaps
  <2>2. g = [[h EXCEPT !.items = f] EXCEPT !.free = l]
    BY <2>1 DEF Pools!TakenIn, Items
  <2> HIDE DEF f, l, g
  <2> QED BY <2>1, <2>2
<1>3. /\ n \in Items(h) /\ m \in Pools!MemHeaps /\ e \in Items(h) /\ i # n /\ e # n /\ e # i
      /\ i \in Nat /\ e \in Nat
  BY ItemFacts, PoolSizes
<1>4. h.items \in [Items(h) -> ItemRecs] /\ h.free \in [Pools!MemHeaps -> Seq(Nat)]
      /\ Items(h) \in SUBSET Nat /\ h.available \in [Pools!MemHeaps -> Int]
  BY <1>1, HeapTyped
<1> HIDE DEF n, m, e
<1>5. f \in [D -> ItemRecs]
  <2> SUFFICES ASSUME NEW a \in D PROVE f[a] \in ItemRecs
    OBVIOUS
  <2>1. h.items[a] \in ItemRecs /\ h.items[i] \in ItemRecs
    BY <1>4
  <2>2. /\ [h.items[i] EXCEPT !.next = e] \in ItemRecs
        /\ [h.items[a] EXCEPT !.prev = i] \in ItemRecs
    BY <1>3, <2>1 DEF ItemRecs
  <2> QED BY <2>1, <2>2
<1>6. l \in [Pools!MemHeaps -> Seq(Nat)]
  <2>1. Pools!RemoveFirst(h.free[m], n) \in Seq(Nat)
    BY <1>3, <1>4, RemovedIs DEF Listed
  <2> QED BY <1>4, <2>1
<1>7. \A k \in Pools!MemHeaps :
         l[k] = IF k = m THEN Pools!RemoveFirst(h.free[k], n) ELSE h.free[k]
  BY <1>4
<1>8. ASSUME NEW j \in D
      PROVE  /\ f[j].used = h.items[j].used /\ f[j].pool = h.items[j].pool
             /\ f[j].next = IF j = i THEN e ELSE h.items[j].next
             /\ f[j].prev = IF j = e THEN i ELSE h.items[j].prev
  <2>1. h.items[j] \in ItemRecs
    BY <1>4
  <2> QED BY <1>3, <2>1 DEF ItemRecs
<1> HIDE DEF f, l, g
<1>9. g \in ItemHeaps /\ Items(g) = D
  BY <1>2, <1>4, <1>5, <1>6, TypedHeap
<1>10. g.items = f /\ g.free = l /\ g.available = h.available
  BY <1>2
<1> QED BY <1>7, <1>8, <1>9, <1>10 DEF IsTakenIn, n, m, e, g

\* ... and it leaves a ring and free lists.
LEMMA TakenInKeeps ==
    ASSUME Pools!MemHeapAssumption, NEW h, Ring(h), NEW x, Listed(h, x),
           NEW i \in Items(h), ~IsTail(h, i), ~IsTail(h, h.items[i].next),
           NEW g, IsTakenIn(h, g, i)
    PROVE  Ring(g) /\ Listed(g, x)
<1> DEFINE n == h.items[i].next
           e == h.items[n].next
<1>1. /\ n \in Items(h) /\ e \in Items(h) /\ i \in Nat /\ n \in Nat /\ e \in Nat
      /\ i + RT_MEMHEAP_SIZE < n /\ n + RT_MEMHEAP_SIZE < e
      /\ h.items[n].prev = i /\ h.items[e].prev = n
      /\ h.items[n].pool = h.items[i].pool /\ h.items[e].pool = h.items[i].pool
      /\ \A j \in Items(h) : j \in Nat /\ (j <= i \/ n <= j) /\ (j <= n \/ e <= j)
      /\ RT_MEMHEAP_SIZE \in Nat /\ h \in ItemHeaps
      /\ h.items[i].next = n /\ h.items[n].next = e
  BY ItemFacts, PoolSizes DEF Ring
<1> HIDE DEF n, e
<1>2. /\ g \in ItemHeaps /\ Items(g) = Items(h) \ {n}
      /\ \A j \in Items(g) :
             /\ g.items[j].used = h.items[j].used /\ g.items[j].pool = h.items[j].pool
             /\ g.items[j].next = IF j = i THEN e ELSE h.items[j].next
             /\ g.items[j].prev = IF j = e THEN i ELSE h.items[j].prev
  BY DEF IsTakenIn, n, e
<1>3. ASSUME NEW j \in Items(g) PROVE ItemLinked(g, j)
  <2>1. ItemLinked(h, j) /\ j \in Items(h) /\ j # n
    BY <1>2 DEF Ring
  <2>2. IsTail(g, j) <=> IsTail(h, j)
    BY <1>2 DEF IsTail
  <2>3. start_addr[g.items[j].pool] <= j /\ j <= Pools!TailOf(g.items[j].pool)
        /\ (IsTail(g, j) => g.items[j].used)
    BY <1>2, <2>1, <2>2 DEF ItemLinked
  <2>4. LET k == g.items[j].next
        IN k \in Items(g) /\ g.items[k].prev = j /\ g.items[k].pool = g.items[j].pool
    <3>1. CASE j = i
      BY <1>1, <1>2, <2>1, <3>1
    <3>2. CASE j # i
      <4> DEFINE k == h.items[j].next
      <4>1. k # n /\ k # e
        BY <1>1, <2>1, <3>2, NextsDiffer
      <4>2. k \in Items(h) /\ h.items[k].prev = j /\ h.items[k].pool = h.items[j].pool
        BY <2>1 DEF ItemLinked
      <4>3. g.items[j].next = k
        BY <1>2, <3>2
      <4> HIDE DEF k
      <4> QED BY <1>2, <4>1, <4>2, <4>3
    <3> QED BY <3>1, <3>2
  <2>5. LET k == g.items[j].prev IN k \in Items(g) /\ g.items[k].next = j
    <3>1. CASE j = e
      BY <1>1, <1>2, <2>1, <3>1
    <3>2. CASE j # e
      <4> DEFINE k == h.items[j].prev
      <4>1. k \in Items(h) /\ h.items[k].next = j
        BY <2>1 DEF ItemLinked
      <4>2. k # n /\ k # i
        BY <1>1, <2>1, <3>2, <4>1
      <4>3. g.items[j].prev = k
        BY <1>2, <3>2
      <4> HIDE DEF k
      <4> QED BY <1>2, <4>1, <4>2, <4>3
    <3> QED BY <3>1, <3>2
  <2>6. ~IsTail(g, j) => /\ j + RT_MEMHEAP_SIZE < g.items[j].next
                         /\ \A k \in Items(g) : k <= j \/ g.items[j].next <= k
    <3>1. CASE j = i
      <4>1. g.items[j].next = e
        BY <1>2, <3>1
      <4>2. \A k \in Items(g) : k <= i \/ e <= k
        BY <1>1, <1>2
      <4> QED BY <1>1, <3>1, <4>1, <4>2
    <3>2. CASE j # i
      BY <1>2, <2>1, <2>2, <3>2 DEF ItemLinked
    <3> QED BY <3>1, <3>2
  <2> QED BY <2>3, <2>4, <2>5, <2>6 DEF ItemLinked
<1>4. ASSUME NEW m \in Pools!MemHeaps
      PROVE  /\ Distinct(g.free[m])
             /\ Elements(g.free[m]) = {j \in Items(g) : g.items[j].pool = m
                                           /\ ~g.items[j].used /\ j # x}
  <2>1. h.free[m] \in Seq(Nat) /\ Distinct(h.free[m])
        /\ Elements(h.free[m]) = {j \in Items(h) : h.items[j].pool = m
                                     /\ ~h.items[j].used /\ j # x}
    BY <1>1, HeapTyped DEF Listed
  <2>2. {j \in Items(g) : g.items[j].pool = m /\ ~g.items[j].used /\ j # x}
           = Elements(h.free[m]) \ {n}
    BY <1>2, <2>1
  <2>3. CASE m = h.items[i].pool
    BY <2>1, <2>2, <2>3, RemovedIs DEF IsTakenIn, n
  <2>4. CASE m # h.items[i].pool
    BY <1>1, <2>1, <2>2, <2>4 DEF IsTakenIn, n
  <2> QED BY <2>3, <2>4
<1> QED BY <1>2, <1>3, <1>4 DEF Ring, Listed

\* The item i is cut behind n bytes.
IsCutBehind(h, g, i, n) ==
    LET new == i + RT_MEMHEAP_SIZE + n
        e   == h.items[i].next
    IN /\ g \in ItemHeaps /\ Items(g) = Items(h) \cup {new}
       /\ new \notin Items(h)
       /\ g.items[new].used = FALSE /\ g.items[new].pool = h.items[i].pool
       /\ g.items[new].next = e /\ g.items[new].prev = i
       /\ \A j \in Items(h) :
             /\ g.items[j].used = h.items[j].used /\ g.items[j].pool = h.items[j].pool
             /\ g.items[j].next = IF j = i THEN new ELSE h.items[j].next
             /\ g.items[j].prev = IF j = e THEN new ELSE h.items[j].prev
       /\ \A m \in Pools!MemHeaps :
             g.free[m] = IF m = h.items[i].pool THEN <<new>> \o h.free[m] ELSE h.free[m]
       /\ g.available = h.available

\* This is what CutBehind does, ...
LEMMA CutBehindIs ==
    ASSUME Pools!MemHeapAssumption, NEW h, Ring(h), NEW x, Listed(h, x),
           NEW i \in Items(h), ~IsTail(h, i),
           NEW n \in Nat \ {0}, n + RT_MEMHEAP_SIZE < Pools!MemItemSize(h, i)
    PROVE  IsCutBehind(h, Pools!CutBehind(h, i, n), i, n)
<1> DEFINE new == i + RT_MEMHEAP_SIZE + n
           m == h.items[i].pool
           e == h.items[i].next
           D == Items(h) \cup {new}
           f == [a \in D |->
                     CASE a = new -> [used |-> FALSE, next |-> e, prev |-> i, pool |-> m]
                       [] a = i   -> [h.items[i] EXCEPT !.next = new]
                       [] a = e   -> [h.items[e] EXCEPT !.prev = new]
                       [] OTHER   -> h.items[a]]
           l == [h.free EXCEPT ![m] = <<new>> \o @]
           g == Pools!CutBehind(h, i, n)
<1>1. h \in ItemHeaps
  BY DEF Ring
<1>2. g = [items |-> f, free |-> l, available |-> h.available]
  <2>1. h = [items |-> h.items, free |-> h.free, available |-> h.available]
    BY <1>1 DEF ItemHeaps
  <2>2. g = [[h EXCEPT !.items = f] EXCEPT !.free = l]
    BY <2>1 DEF Pools!CutBehind, Pools!Item, Items
  <2> HIDE DEF f, l, g
  <2> QED BY <2>1, <2>2
<1>3. /\ e \in Items(h) /\ m \in Pools!MemHeaps /\ i \in Nat /\ e \in Nat
      /\ new \in Nat /\ i < new /\ new < e
      /\ \A j \in Items(h) : j \in Nat /\ (j <= i \/ e <= j)
  BY ItemFacts, PoolSizes
<1>4. h.items \in [Items(h) -> ItemRecs] /\ h.free \in [Pools!MemHeaps -> Seq(Nat)]
      /\ Items(h) \in SUBSET Nat /\ h.available \in [Pools!MemHeaps -> Int]
  BY <1>1, HeapTyped
<1> HIDE DEF new, m, e
<1>5. new \notin Items(h)
  BY <1>3
<1>6. f \in [D -> ItemRecs]
  <2> SUFFICES ASSUME NEW a \in D PROVE f[a] \in ItemRecs
    OBVIOUS
  <2>1. CASE a = new
    BY <1>3, <2>1 DEF ItemRecs
  <2>2. CASE a # new
    <3>1. h.items[a] \in ItemRecs /\ h.items[i] \in ItemRecs /\ h.items[e] \in ItemRecs
      BY <1>3, <1>4, <2>2
    <3>2. [h.items[i] EXCEPT !.next = new] \in ItemRecs
          /\ [h.items[e] EXCEPT !.prev = new] \in ItemRecs
      BY <1>3, <3>1 DEF ItemRecs
    <3> QED BY <2>2, <3>1, <3>2
  <2> QED BY <2>1, <2>2
<1>7. l \in [Pools!MemHeaps -> Seq(Nat)]
  <2>1. h.free[m] \in Seq(Nat) /\ <<new>> \in Seq(Nat)
    BY <1>3, <1>4
  <2>2. <<new>> \o h.free[m] \in Seq(Nat)
    BY <2>1, ConcatProperties
  <2> QED BY <1>4, <2>2
<1>8. \A k \in Pools!MemHeaps :
         l[k] = IF k = m THEN <<new>> \o h.free[k] ELSE h.free[k]
  BY <1>4
<1>9. ASSUME NEW j \in Items(h)
      PROVE  /\ f[j].used = h.items[j].used /\ f[j].pool = h.items[j].pool
             /\ f[j].next = IF j = i THEN new ELSE h.items[j].next
             /\ f[j].prev = IF j = e THEN new ELSE h.items[j].prev
  <2>1. h.items[j] \in ItemRecs
    BY <1>4
  <2>2. j # new /\ i # e
    BY <1>3, <1>5
  <2>3. f[j] = IF j = i THEN [h.items[i] EXCEPT !.next = new]
               ELSE IF j = e THEN [h.items[e] EXCEPT !.prev = new] ELSE h.items[j]
    BY <2>2
  <2> QED BY <2>1, <2>2, <2>3 DEF ItemRecs
<1>10. f[new] = [used |-> FALSE, next |-> e, prev |-> i, pool |-> m]
  <2>1. new \in D
    OBVIOUS
  <2> DEFINE v == [used |-> FALSE, next |-> e, prev |-> i, pool |-> m]
  <2>2. f[new] = CASE new = new -> v
                   [] new = i   -> [h.items[i] EXCEPT !.next = new]
                   [] new = e   -> [h.items[e] EXCEPT !.prev = new]
                   [] OTHER     -> h.items[new]
    BY <2>1
  <2>3. new # i /\ new # e
    BY <1>3
  <2> HIDE DEF v, f
  <2> QED BY <2>2, <2>3 DEF v
<1>11. /\ f[new].used = FALSE /\ f[new].pool = m /\ f[new].next = e /\ f[new].prev = i
  BY <1>10
<1> HIDE DEF f, l, g
<1>12. D \in SUBSET Nat
  BY <1>3, <1>4
<1> HIDE DEF D
<1>13. g \in ItemHeaps /\ Items(g) = D
  BY <1>2, <1>4, <1>6, <1>7, <1>12, TypedHeap
<1>14. g.items = f /\ g.free = l /\ g.available = h.available
  BY <1>2
<1> QED BY <1>5, <1>8, <1>9, <1>11, <1>13, <1>14 DEF IsCutBehind, new, m, e, g, D

\* ... and it leaves a ring and free lists.
LEMMA CutBehindKeeps ==
    ASSUME Pools!MemHeapAssumption, NEW h, Ring(h), NEW x \in Items(h) \cup {NoItem},
           Listed(h, x),
           NEW i \in Items(h), ~IsTail(h, i),
           NEW n \in Nat \ {0}, n + RT_MEMHEAP_SIZE < Pools!MemItemSize(h, i),
           NEW g, IsCutBehind(h, g, i, n)
    PROVE  Ring(g) /\ Listed(g, x)
<1> DEFINE new == i + RT_MEMHEAP_SIZE + n
           e == h.items[i].next
<1>1. /\ e \in Items(h) /\ i \in Nat /\ e \in Nat /\ new \in Nat
      /\ i + RT_MEMHEAP_SIZE < new /\ new + RT_MEMHEAP_SIZE < e
      /\ h.items[e].prev = i /\ h.items[e].pool = h.items[i].pool
      /\ h.items[i].pool \in Pools!MemHeaps
      /\ start_addr[h.items[i].pool] \in Nat /\ Pools!TailOf(h.items[i].pool) \in Nat
      /\ e <= Pools!TailOf(h.items[i].pool) /\ start_addr[h.items[i].pool] <= i
      /\ \A j \in Items(h) : j \in Nat /\ (j <= i \/ e <= j)
      /\ RT_MEMHEAP_SIZE \in Nat /\ h \in ItemHeaps
      /\ h.items[i].next = e
  BY ItemFacts, PoolSizes DEF Ring
<1>2. /\ g \in ItemHeaps /\ Items(g) = Items(h) \cup {new}
      /\ new \notin Items(h)
      /\ g.items[new].used = FALSE /\ g.items[new].pool = h.items[i].pool
      /\ g.items[new].next = e /\ g.items[new].prev = i
      /\ \A j \in Items(h) :
             /\ g.items[j].used = h.items[j].used /\ g.items[j].pool = h.items[j].pool
             /\ g.items[j].next = IF j = i THEN new ELSE h.items[j].next
             /\ g.items[j].prev = IF j = e THEN new ELSE h.items[j].prev
  BY DEF IsCutBehind, new, e
<1>3. \A m \in Pools!MemHeaps :
             g.free[m] = IF m = h.items[i].pool THEN <<new>> \o h.free[m] ELSE h.free[m]
  BY DEF IsCutBehind, new
<1> HIDE DEF new, e
<1>4. ItemLinked(g, new)
  <2>1. ~IsTail(g, new)
    BY <1>1, <1>2 DEF IsTail
  <2>2. \A j \in Items(g) : j <= new \/ e <= j
    BY <1>1, <1>2
  <2>3. i # e
    BY <1>1
  <2> QED BY <1>1, <1>2, <2>1, <2>2, <2>3 DEF ItemLinked
<1>5. ASSUME NEW j \in Items(h) PROVE ItemLinked(g, j)
  <2>1. ItemLinked(h, j) /\ j \in Items(g) /\ j # new
    BY <1>2 DEF Ring
  <2>2. IsTail(g, j) <=> IsTail(h, j)
    BY <1>2 DEF IsTail
  <2>3. start_addr[g.items[j].pool] <= j /\ j <= Pools!TailOf(g.items[j].pool)
        /\ (IsTail(g, j) => g.items[j].used)
    BY <1>2, <2>1, <2>2 DEF ItemLinked
  <2>4. LET k == g.items[j].next
        IN k \in Items(g) /\ g.items[k].prev = j /\ g.items[k].pool = g.items[j].pool
    <3>1. CASE j = i
      BY <1>1, <1>2, <2>1, <3>1
    <3>2. CASE j # i
      <4> DEFINE k == h.items[j].next
      <4>1. k # e
        BY <1>1, <2>1, <3>2, NextsDiffer
      <4>2. k \in Items(h) /\ h.items[k].prev = j /\ h.items[k].pool = h.items[j].pool
        BY <2>1 DEF ItemLinked
      <4>3. g.items[j].next = k
        BY <1>2, <3>2
      <4> HIDE DEF k
      <4> QED BY <1>2, <4>1, <4>2, <4>3
    <3> QED BY <3>1, <3>2
  <2>5. LET k == g.items[j].prev IN k \in Items(g) /\ g.items[k].next = j
    <3>1. CASE j = e
      BY <1>1, <1>2, <2>1, <3>1
    <3>2. CASE j # e
      <4> DEFINE k == h.items[j].prev
      <4>1. k \in Items(h) /\ h.items[k].next = j
        BY <2>1 DEF ItemLinked
      <4>2. k # i
        BY <1>1, <2>1, <3>2, <4>1
      <4>3. g.items[j].prev = k
        BY <1>2, <3>2
      <4> HIDE DEF k
      <4> QED BY <1>2, <4>1, <4>2, <4>3
    <3> QED BY <3>1, <3>2
  <2>6. ~IsTail(g, j) => /\ j + RT_MEMHEAP_SIZE < g.items[j].next
                         /\ \A k \in Items(g) : k <= j \/ g.items[j].next <= k
    <3>1. CASE j = i
      <4>1. g.items[j].next = new
        BY <1>2, <3>1
      <4>2. \A k \in Items(g) : k <= i \/ new <= k
        BY <1>1, <1>2
      <4> QED BY <1>1, <3>1, <4>1, <4>2
    <3>2. CASE j # i
      <4> SUFFICES ASSUME ~IsTail(h, j)
                   PROVE  /\ j + RT_MEMHEAP_SIZE < h.items[j].next
                          /\ \A k \in Items(g) : k <= j \/ h.items[j].next <= k
        BY <1>2, <2>2, <3>2
      <4>1. /\ j + RT_MEMHEAP_SIZE < h.items[j].next
            /\ \A k \in Items(h) : k <= j \/ h.items[j].next <= k
            /\ j \in Nat /\ h.items[j].next \in Nat
        BY ItemFacts
      <4>2. new <= j \/ h.items[j].next <= new
        <5>1. i <= j \/ h.items[j].next <= i
          BY <4>1
        <5>2. j <= i \/ e <= j
          BY <1>1
        <5> QED BY <1>1, <3>2, <4>1, <5>1, <5>2
      <4> QED BY <1>2, <4>1, <4>2
    <3> QED BY <3>1, <3>2
  <2> QED BY <2>3, <2>4, <2>5, <2>6 DEF ItemLinked
<1>6. ASSUME NEW m \in Pools!MemHeaps
      PROVE  /\ Distinct(g.free[m])
             /\ Elements(g.free[m]) = {j \in Items(g) : g.items[j].pool = m
                                           /\ ~g.items[j].used /\ j # x}
  <2>1. h.free[m] \in Seq(Nat) /\ Distinct(h.free[m])
        /\ Elements(h.free[m]) = {j \in Items(h) : h.items[j].pool = m
                                     /\ ~h.items[j].used /\ j # x}
    BY <1>1, HeapTyped DEF Listed
  <2>2. x # new
    BY <1>1, <1>2 DEF NoItem
  <2>3. CASE m = h.items[i].pool
    <3>1. {j \in Items(g) : g.items[j].pool = m /\ ~g.items[j].used /\ j # x}
             = Elements(h.free[m]) \cup {new}
      BY <1>2, <2>1, <2>2, <2>3
    <3>2. new \notin Elements(h.free[m])
      BY <1>2, <2>1
    <3> QED BY <1>1, <1>3, <2>1, <2>3, <3>1, <3>2, HeadedIs
  <2>4. CASE m # h.items[i].pool
    <3>1. {j \in Items(g) : g.items[j].pool = m /\ ~g.items[j].used /\ j # x}
             = Elements(h.free[m])
      BY <1>2, <2>1, <2>2, <2>4
    <3> QED BY <1>3, <2>1, <2>4, <3>1
  <2> QED BY <2>3, <2>4
<1> QED BY <1>2, <1>4, <1>5, <1>6 DEF Ring, Listed

-----------------------------------------------------------------------------
(* What is free is counted.                                                *)

\* What the free items of memory heap m have room for.
FreeItems(h, m) == {i \in Items(h) : h.items[i].pool = m /\ ~h.items[i].used}

Rooms(h) == [i \in Items(h) |-> h.items[i].next - RT_MEMHEAP_SIZE]

FreeRoom(h, m) == Weight(Rooms(h), FreeItems(h, m))

\* What item i adds to it.
RoomOf(h, m, i) == IF i \in FreeItems(h, m) THEN Pools!MemItemSize(h, i) ELSE 0

\* It is a sum over a finite set, item by item.
LEMMA FreeIsFinite ==
    ASSUME NEW h \in ItemHeaps, NEW x, Listed(h, x), NEW m \in Pools!MemHeaps
    PROVE  IsFiniteSet(FreeItems(h, m))
<1> DEFINE s == h.free[m]
           F == [i \in 1..Len(s) |-> s[i]]
<1>1. s \in Seq(Nat)
  BY HeapTyped
<1>2. Len(s) \in Nat
  BY <1>1, LenProperties
<1>3. IsFiniteSet(Elements(s))
  <2>1. IsFiniteSet(1..Len(s))
    BY <1>2, FS_Interval
  <2>2. F \in Surjection(1..Len(s), Elements(s))
    BY DEF Surjection, Elements
  <2> QED BY <2>1, <2>2, FS_Surjection
<1>4. FreeItems(h, m) \subseteq Elements(s) \cup {x}
  BY DEF Listed, FreeItems
<1> HIDE DEF s
<1>5. IsFiniteSet(Elements(s) \cup {x})
  BY <1>3, FS_AddElement
<1> QED BY <1>4, <1>5, FS_Subset

LEMMA RoomSpan ==
    ASSUME NEW h \in ItemHeaps, Pools!MemHeapAssumption, NEW i \in Items(h)
    PROVE  Span(Rooms(h), i) = Pools!MemItemSize(h, i) /\ Span(Rooms(h), i) \in Int
BY HeapTyped, PoolSizes DEF Span, Rooms, Pools!MemItemSize

LEMMA RoomWithout ==
    ASSUME Pools!MemHeapAssumption, NEW h \in ItemHeaps, NEW x, Listed(h, x),
           NEW m \in Pools!MemHeaps, NEW S \in SUBSET FreeItems(h, m), NEW a
    PROVE  /\ Weight(Rooms(h), S \ {a}) \in Int
           /\ a \in S => Weight(Rooms(h), S) = Weight(Rooms(h), S \ {a})
                                                  + Pools!MemItemSize(h, a)
           /\ a \notin S => Weight(Rooms(h), S) = Weight(Rooms(h), S \ {a})
<1> DEFINE w == Rooms(h)
<1>1. IsFiniteSet(S) /\ \A i \in S : i \in Items(h)
  BY FreeIsFinite, FS_Subset DEF FreeItems
<1>2. \A i \in S : Span(w, i) = Pools!MemItemSize(h, i) /\ Span(w, i) \in Int
  BY <1>1, RoomSpan
<1>3. Whole(w, S)
  BY <1>2 DEF Whole
<1> HIDE DEF w
<1>4. CASE a \in S
  <2>1. Weight(w, S) = Span(w, a) + Weight(w, S \ {a}) /\ Weight(w, S \ {a}) \in Int
    BY <1>1, <1>3, <1>4, WeightWithout
  <2> QED BY <1>2, <1>4, <2>1 DEF w
<1>5. CASE a \notin S
  <2>1. S \ {a} = S
    BY <1>5
  <2>2. PICK F : Computes(F, w, S) /\ Weight(w, S) = F[S]
    BY <1>1, <1>3, WeightIs
  <2>3. F[S] \in Int
    BY <2>2 DEF Computes
  <2>4. Weight(w, S \ {a}) = Weight(w, S) /\ Weight(w, S) \in Int
    BY <2>1, <2>2, <2>3
  <2> QED BY <1>5, <2>4 DEF w
<1> QED BY <1>4, <1>5

\* If only a and b differ, it changes by what these add.
LEMMA RoomChange ==
    ASSUME Pools!MemHeapAssumption, NEW h \in ItemHeaps, NEW x, Listed(h, x),
           NEW g \in ItemHeaps, NEW y, Listed(g, y), NEW m \in Pools!MemHeaps,
           NEW a, NEW b, a # b,
           FreeItems(g, m) \ {a, b} = FreeItems(h, m) \ {a, b},
           \A i \in FreeItems(h, m) \ {a, b} : g.items[i].next = h.items[i].next
    PROVE  /\ FreeRoom(h, m) \in Int /\ FreeRoom(g, m) \in Int
           /\ FreeRoom(g, m) + RoomOf(h, m, a) + RoomOf(h, m, b)
                = FreeRoom(h, m) + RoomOf(g, m, a) + RoomOf(g, m, b)
<1> DEFINE R == FreeItems(h, m) \ {a, b}
<1>1. ASSUME NEW k \in ItemHeaps, NEW z, Listed(k, z), FreeItems(k, m) \ {a, b} = R
      PROVE  /\ Weight(Rooms(k), R) \in Int
             /\ FreeRoom(k, m) = Weight(Rooms(k), R) + RoomOf(k, m, a) + RoomOf(k, m, b)
             /\ RoomOf(k, m, a) \in Int /\ RoomOf(k, m, b) \in Int
  <2> DEFINE S == FreeItems(k, m)
             T == S \ {a}
  <2>1. /\ Weight(Rooms(k), T) \in Int
        /\ a \in S => Weight(Rooms(k), S) = Weight(Rooms(k), T) + Pools!MemItemSize(k, a)
        /\ a \notin S => Weight(Rooms(k), S) = Weight(Rooms(k), T)
    <3>1. S \in SUBSET FreeItems(k, m)
      OBVIOUS
    <3> HIDE DEF S, T
    <3>2. /\ Weight(Rooms(k), S \ {a}) \in Int
          /\ a \in S => Weight(Rooms(k), S) = Weight(Rooms(k), S \ {a})
                                                 + Pools!MemItemSize(k, a)
          /\ a \notin S => Weight(Rooms(k), S) = Weight(Rooms(k), S \ {a})
      BY <1>1, <3>1, RoomWithout
    <3> QED BY <3>2 DEF T
  <2>2. /\ Weight(Rooms(k), T \ {b}) \in Int
        /\ b \in T => Weight(Rooms(k), T) = Weight(Rooms(k), T \ {b})
                                               + Pools!MemItemSize(k, b)
        /\ b \notin T => Weight(Rooms(k), T) = Weight(Rooms(k), T \ {b})
    <3>1. T \in SUBSET FreeItems(k, m)
      OBVIOUS
    <3> HIDE DEF T, S
    <3>2. /\ Weight(Rooms(k), T \ {b}) \in Int
          /\ b \in T => Weight(Rooms(k), T) = Weight(Rooms(k), T \ {b})
                                                 + Pools!MemItemSize(k, b)
          /\ b \notin T => Weight(Rooms(k), T) = Weight(Rooms(k), T \ {b})
      BY <1>1, <3>1, RoomWithout
    <3> QED BY <3>2
  <2>3. T \ {b} = R /\ (b \in T <=> b \in S)
    BY <1>1
  <2>4. ASSUME NEW i \in S PROVE Pools!MemItemSize(k, i) \in Int
    BY <1>1, RoomSpan DEF FreeItems
  <2> HIDE DEF R, S, T
  <2>5. Weight(Rooms(k), T \ {b}) = Weight(Rooms(k), R)
    BY <2>3
  <2>6. /\ a \in S => RoomOf(k, m, a) = Pools!MemItemSize(k, a)
        /\ a \notin S => RoomOf(k, m, a) = 0
        /\ b \in S => RoomOf(k, m, b) = Pools!MemItemSize(k, b)
        /\ b \notin S => RoomOf(k, m, b) = 0
        /\ FreeRoom(k, m) = Weight(Rooms(k), S)
    BY DEF RoomOf, FreeRoom, S
  <2> QED BY <2>1, <2>2, <2>3, <2>4, <2>5, <2>6
<1>2. Weight(Rooms(g), R) = Weight(Rooms(h), R)
  <2>1. IsFiniteSet(R) /\ \A i \in R : i \in Items(h) /\ i \in Items(g)
    <3>1. IsFiniteSet(FreeItems(h, m))
      BY FreeIsFinite
    <3> QED BY <3>1, FS_Subset DEF FreeItems
  <2>2. Whole(Rooms(h), R)
    BY <2>1, RoomSpan DEF Whole
  <2>3. Agree(Rooms(h), Rooms(g), R)
    BY <2>1 DEF Agree, Span, Rooms
  <2> HIDE DEF R
  <2> QED BY <2>1, <2>2, <2>3, SameWeight
<1>3. /\ Weight(Rooms(h), R) \in Int
      /\ FreeRoom(h, m) = Weight(Rooms(h), R) + RoomOf(h, m, a) + RoomOf(h, m, b)
      /\ RoomOf(h, m, a) \in Int /\ RoomOf(h, m, b) \in Int
  BY <1>1
<1>4. /\ Weight(Rooms(g), R) \in Int
      /\ FreeRoom(g, m) = Weight(Rooms(g), R) + RoomOf(g, m, a) + RoomOf(g, m, b)
      /\ RoomOf(g, m, a) \in Int /\ RoomOf(g, m, b) \in Int
  BY <1>1
<1> HIDE DEF R
<1> QED BY <1>2, <1>3, <1>4

\* A merge gains the header of the item taken in, or loses its room if it is for an
\* item in use.
LEMMA TakenInRoom ==
    ASSUME Pools!MemHeapAssumption, NEW h, Ring(h), NEW x, Listed(h, x),
           NEW i \in Items(h), ~IsTail(h, i), ~IsTail(h, h.items[i].next),
           ~h.items[h.items[i].next].used, NEW g, IsTakenIn(h, g, i), NEW m \in Pools!MemHeaps
    PROVE  /\ FreeRoom(h, m) \in Int /\ FreeRoom(g, m) \in Int
           /\ m # h.items[i].pool => FreeRoom(g, m) = FreeRoom(h, m)
           /\ m = h.items[i].pool /\ h.items[i].used
                 => FreeRoom(g, m) = FreeRoom(h, m)
                                        - Pools!MemItemSize(h, h.items[i].next)
           /\ m = h.items[i].pool /\ ~h.items[i].used
                 => FreeRoom(g, m) = FreeRoom(h, m) + RT_MEMHEAP_SIZE
           /\ Pools!MemItemSize(g, i) = Pools!MemItemSize(h, i) + RT_MEMHEAP_SIZE
                                          + Pools!MemItemSize(h, h.items[i].next)
<1> DEFINE n == h.items[i].next
           e == h.items[n].next
           p == h.items[i].pool
<1>1. /\ i \in Nat /\ n \in Nat /\ e \in Nat /\ n \in Items(h) /\ i # n /\ h.items[n].pool = p
      /\ Pools!MemItemSize(h, i) = n - i - RT_MEMHEAP_SIZE
      /\ Pools!MemItemSize(h, n) = e - n - RT_MEMHEAP_SIZE
      /\ RT_MEMHEAP_SIZE \in Nat /\ p \in Pools!MemHeaps
  BY ItemFacts, PoolSizes
<1>2. Ring(g) /\ Listed(g, x)
  BY TakenInKeeps
<1>3. h \in ItemHeaps /\ g \in ItemHeaps
  BY <1>2 DEF Ring
<1>4. /\ Items(g) = Items(h) \ {n}
      /\ \A j \in Items(g) :
             /\ g.items[j].used = h.items[j].used /\ g.items[j].pool = h.items[j].pool
             /\ g.items[j].next = IF j = i THEN e ELSE h.items[j].next
  BY DEF IsTakenIn
<1> HIDE DEF n, e, p
<1>5. FreeItems(g, m) = FreeItems(h, m) \ {n}
  BY <1>4 DEF FreeItems
<1>6. \A j \in FreeItems(h, m) \ {i, n} : g.items[j].next = h.items[j].next
  BY <1>4 DEF FreeItems
<1>7. /\ FreeRoom(h, m) \in Int /\ FreeRoom(g, m) \in Int
      /\ FreeRoom(g, m) + RoomOf(h, m, i) + RoomOf(h, m, n)
             = FreeRoom(h, m) + RoomOf(g, m, i) + RoomOf(g, m, n)
  BY <1>1, <1>2, <1>3, <1>5, <1>6, RoomChange
<1>8. Pools!MemItemSize(g, i) = e - i - RT_MEMHEAP_SIZE
  BY <1>1, <1>4 DEF Pools!MemItemSize
<1>9. ~h.items[n].used
  BY DEF n
<1>10. CASE m # p
  <2>1. /\ i \notin FreeItems(h, m) /\ n \notin FreeItems(h, m)
        /\ i \notin FreeItems(g, m) /\ n \notin FreeItems(g, m)
    BY <1>1, <1>4, <1>10 DEF FreeItems, p
  <2> QED BY <1>1, <1>7, <1>8, <1>10, <2>1 DEF RoomOf, n, p
<1>11. CASE m = p
  <2>1. /\ i \in FreeItems(h, m) <=> ~h.items[i].used
        /\ n \in FreeItems(h, m)
        /\ i \in FreeItems(g, m) <=> ~h.items[i].used
        /\ n \notin FreeItems(g, m)
    BY <1>1, <1>4, <1>9, <1>11 DEF FreeItems, p
  <2>2. /\ RoomOf(h, m, n) = Pools!MemItemSize(h, n) /\ RoomOf(g, m, n) = 0
        /\ h.items[i].used => RoomOf(h, m, i) = 0 /\ RoomOf(g, m, i) = 0
        /\ ~h.items[i].used => /\ RoomOf(h, m, i) = Pools!MemItemSize(h, i)
                               /\ RoomOf(g, m, i) = Pools!MemItemSize(g, i)
    BY <2>1 DEF RoomOf
  <2>3. Pools!MemItemSize(g, i) = Pools!MemItemSize(h, i) + RT_MEMHEAP_SIZE
                                          + Pools!MemItemSize(h, n)
        /\ Pools!MemItemSize(h, i) \in Int /\ Pools!MemItemSize(h, n) \in Int
    BY <1>1, <1>8
  <2>4. CASE h.items[i].used
    BY <1>1, <1>7, <1>11, <2>2, <2>3, <2>4 DEF n, p
  <2>5. CASE ~h.items[i].used
    BY <1>1, <1>7, <1>11, <2>2, <2>3, <2>5 DEF n, p
  <2> QED BY <2>4, <2>5
<1> QED BY <1>10, <1>11

\* A cut costs the header of the new item, or gains its room if it is off an item in
\* use.
LEMMA CutBehindRoom ==
    ASSUME Pools!MemHeapAssumption, NEW h, Ring(h), NEW x \in Items(h) \cup {NoItem},
           Listed(h, x),
           NEW i \in Items(h), ~IsTail(h, i),
           NEW n \in Nat \ {0}, n + RT_MEMHEAP_SIZE < Pools!MemItemSize(h, i),
           NEW g, IsCutBehind(h, g, i, n), NEW m \in Pools!MemHeaps
    PROVE  /\ FreeRoom(h, m) \in Int /\ FreeRoom(g, m) \in Int
           /\ m # h.items[i].pool => FreeRoom(g, m) = FreeRoom(h, m)
           /\ m = h.items[i].pool /\ h.items[i].used
                 => FreeRoom(g, m) = FreeRoom(h, m)
                                        + Pools!MemItemSize(h, i) - n - RT_MEMHEAP_SIZE
           /\ m = h.items[i].pool /\ ~h.items[i].used
                 => FreeRoom(g, m) = FreeRoom(h, m) - RT_MEMHEAP_SIZE
           /\ Pools!MemItemSize(g, i) = n
           /\ Pools!MemItemSize(g, i + RT_MEMHEAP_SIZE + n)
                = Pools!MemItemSize(h, i) - n - RT_MEMHEAP_SIZE
<1> DEFINE new == i + RT_MEMHEAP_SIZE + n
           e == h.items[i].next
           p == h.items[i].pool
<1>1. /\ i \in Nat /\ new \in Nat /\ e \in Nat /\ i # new
      /\ Pools!MemItemSize(h, i) = e - i - RT_MEMHEAP_SIZE
      /\ RT_MEMHEAP_SIZE \in Nat /\ p \in Pools!MemHeaps
      /\ new = i + RT_MEMHEAP_SIZE + n
  BY ItemFacts, PoolSizes
<1>2. Ring(g) /\ Listed(g, x)
  BY CutBehindKeeps
<1>3. h \in ItemHeaps /\ g \in ItemHeaps
  BY <1>2 DEF Ring
<1>4. /\ Items(g) = Items(h) \cup {new} /\ new \notin Items(h)
      /\ g.items[new].used = FALSE /\ g.items[new].pool = p /\ g.items[new].next = e
      /\ \A j \in Items(h) :
             /\ g.items[j].used = h.items[j].used /\ g.items[j].pool = h.items[j].pool
             /\ g.items[j].next = IF j = i THEN new ELSE h.items[j].next
  BY DEF IsCutBehind
<1> HIDE DEF new, e, p
<1>5. FreeItems(g, m) \ {i, new} = FreeItems(h, m) \ {i, new}
  BY <1>4 DEF FreeItems
<1>6. \A j \in FreeItems(h, m) \ {i, new} : g.items[j].next = h.items[j].next
  BY <1>4 DEF FreeItems
<1>7. /\ FreeRoom(h, m) \in Int /\ FreeRoom(g, m) \in Int
      /\ FreeRoom(g, m) + RoomOf(h, m, i) + RoomOf(h, m, new)
             = FreeRoom(h, m) + RoomOf(g, m, i) + RoomOf(g, m, new)
  BY <1>1, <1>2, <1>3, <1>5, <1>6, RoomChange
<1>8. /\ Pools!MemItemSize(g, i) = new - i - RT_MEMHEAP_SIZE
      /\ Pools!MemItemSize(g, new) = e - new - RT_MEMHEAP_SIZE
  BY <1>1, <1>4 DEF Pools!MemItemSize
<1>9. CASE m # p
  <2>1. /\ i \notin FreeItems(h, m) /\ new \notin FreeItems(h, m)
        /\ i \notin FreeItems(g, m) /\ new \notin FreeItems(g, m)
    BY <1>1, <1>4, <1>9 DEF FreeItems, p
  <2> QED BY <1>1, <1>7, <1>8, <1>9, <2>1 DEF RoomOf, p
<1>10. CASE m = p
  <2>1. /\ i \in FreeItems(h, m) <=> ~h.items[i].used
        /\ new \notin FreeItems(h, m) /\ new \in FreeItems(g, m)
        /\ i \in FreeItems(g, m) <=> ~h.items[i].used
    BY <1>1, <1>4, <1>10 DEF FreeItems, p
  <2> QED BY <1>1, <1>7, <1>8, <1>10, <2>1 DEF RoomOf, p
<1> QED BY <1>9, <1>10

\* available_size of m is changed by n.
IsCounted(h, g, m, n) ==
    /\ g \in ItemHeaps /\ g.items = h.items /\ g.free = h.free
    /\ \A k \in Pools!MemHeaps : g.available[k] = IF k = m THEN h.available[k] + n
                                                  ELSE h.available[k]

\* This is what Counted does.
LEMMA CountedIs ==
    ASSUME NEW h \in ItemHeaps, NEW m \in Pools!MemHeaps, NEW n \in Int
    PROVE  IsCounted(h, Pools!Counted(h, m, n), m, n)
<1> DEFINE l == [h.available EXCEPT ![m] = @ + n]
           g == Pools!Counted(h, m, n)
<1>1. h = [items |-> h.items, free |-> h.free, available |-> h.available]
  BY DEF ItemHeaps
<1>2. g = [h EXCEPT !.available = l]
  BY DEF Pools!Counted
<1>3. l \in [Pools!MemHeaps -> Int]
      /\ \A k \in Pools!MemHeaps : l[k] = IF k = m THEN h.available[k] + n ELSE h.available[k]
  BY HeapTyped
<1> HIDE DEF l, g
<1>4. g = [items |-> h.items, free |-> h.free, available |-> l]
  BY <1>1, <1>2
<1>5. g \in ItemHeaps
  BY <1>3, <1>4 DEF ItemHeaps
<1> QED BY <1>3, <1>4, <1>5 DEF IsCounted, g

\* All else is about items and lists.
LEMMA CountedKeeps ==
    ASSUME NEW h, Ring(h), NEW m, NEW n, NEW g, IsCounted(h, g, m, n)
    PROVE  /\ Ring(g) /\ Items(g) = Items(h)
           /\ \A x : /\ Listed(h, x) => Listed(g, x)
                     /\ Unbroken(h, x) => Unbroken(g, x)
           /\ \A k : FreeRoom(g, k) = FreeRoom(h, k)
           /\ \A i : /\ Pools!MemItemSize(g, i) = Pools!MemItemSize(h, i)
                     /\ IsTail(g, i) <=> IsTail(h, i)
<1>1. g \in ItemHeaps /\ g.items = h.items /\ g.free = h.free
  BY DEF IsCounted
<1>2. Items(g) = Items(h)
  BY <1>1 DEF Items
<1>3. \A i : /\ Pools!MemItemSize(g, i) = Pools!MemItemSize(h, i)
             /\ IsTail(g, i) <=> IsTail(h, i)
  BY <1>1 DEF Pools!MemItemSize, IsTail
<1>4. Ring(g)
  BY <1>1, <1>2 DEF Ring, ItemLinked, IsTail
<1>5. ASSUME NEW k PROVE FreeRoom(g, k) = FreeRoom(h, k)
  <2>1. FreeItems(g, k) = FreeItems(h, k)
    BY <1>1, <1>2 DEF FreeItems
  <2>2. Rooms(g) = Rooms(h)
    BY <1>1, <1>2 DEF Rooms
  <2> QED BY <2>1, <2>2 DEF FreeRoom
<1>6. ASSUME NEW x PROVE /\ Listed(h, x) => Listed(g, x)
                         /\ Unbroken(h, x) => Unbroken(g, x)
  BY <1>1, <1>2 DEF Listed, Unbroken
<1> QED BY <1>2, <1>3, <1>4, <1>5, <1>6

\* The item i may become one in use, or free, and the free lists become l.
IsReflagged(h, g, i, l) ==
    /\ g \in ItemHeaps /\ Items(g) = Items(h) /\ g.free = l /\ g.available = h.available
    /\ \A j \in Items(h) :
          /\ j # i => g.items[j].used = h.items[j].used
          /\ g.items[j].next = h.items[j].next /\ g.items[j].prev = h.items[j].prev
          /\ g.items[j].pool = h.items[j].pool

IsFlagged(h, g, i, u, l) == IsReflagged(h, g, i, l) /\ g.items[i].used = u

\* The heap that is made of these is such a heap.
LEMMA FlaggedIs ==
    ASSUME NEW h \in ItemHeaps, NEW i \in Items(h), NEW u \in BOOLEAN,
           NEW l \in [Pools!MemHeaps -> Seq(Nat)],
           NEW f, f = [h.items EXCEPT ![i].used = u],
           NEW g, g = [items |-> f, free |-> l, available |-> h.available]
    PROVE  IsFlagged(h, g, i, u, l)
<1>1. h.items \in [Items(h) -> ItemRecs] /\ Items(h) \in SUBSET Nat
      /\ h.available \in [Pools!MemHeaps -> Int]
  BY HeapTyped
<1>2. f \in [Items(h) -> ItemRecs]
  <2>1. [h.items[i] EXCEPT !.used = u] \in ItemRecs
    BY <1>1 DEF ItemRecs
  <2> QED BY <1>1, <2>1
<1>3. ASSUME NEW j \in Items(h)
      PROVE  /\ f[j].used = IF j = i THEN u ELSE h.items[j].used
             /\ f[j].next = h.items[j].next /\ f[j].prev = h.items[j].prev
             /\ f[j].pool = h.items[j].pool
  <2>1. h.items[j] \in ItemRecs
    BY <1>1
  <2>2. f[j] = IF j = i THEN [h.items[j] EXCEPT !.used = u] ELSE h.items[j]
    BY <1>1
  <2> QED BY <2>1, <2>2 DEF ItemRecs
<1>4. g \in ItemHeaps /\ Items(g) = Items(h)
  BY <1>1, <1>2, TypedHeap
<1>5. g.items = f /\ g.free = l /\ g.available = h.available
  OBVIOUS
<1> QED BY <1>3, <1>4, <1>5, Zenon DEF IsFlagged, IsReflagged

\* Its ring is sound.
LEMMA FlaggedRing ==
    ASSUME NEW h, Ring(h), NEW i \in Items(h), ~IsTail(h, i), NEW l,
           NEW g, IsReflagged(h, g, i, l)
    PROVE  /\ Ring(g)
           /\ \A j \in Items(h) : /\ Pools!MemItemSize(g, j) = Pools!MemItemSize(h, j)
                                  /\ IsTail(g, j) <=> IsTail(h, j)
<1>1. \A j \in Items(h) : /\ Pools!MemItemSize(g, j) = Pools!MemItemSize(h, j)
                          /\ IsTail(g, j) <=> IsTail(h, j)
  BY DEF IsReflagged, Pools!MemItemSize, IsTail
<1>2. ASSUME NEW j \in Items(g) PROVE ItemLinked(g, j)
  <2>1. ItemLinked(h, j) /\ j \in Items(h) /\ (IsTail(g, j) <=> IsTail(h, j))
    BY <1>1 DEF Ring, IsReflagged
  <2>2. IsTail(h, j) => g.items[j].used
    BY <2>1 DEF ItemLinked, IsReflagged
  <2> QED BY <2>1, <2>2 DEF ItemLinked, IsReflagged
<1> QED BY <1>1, <1>2 DEF Ring, IsReflagged

\* What is free changes by the room in the item.
LEMMA FlaggedRoom ==
    ASSUME Pools!MemHeapAssumption, NEW h, Ring(h), NEW x, Listed(h, x),
           NEW i \in Items(h), ~IsTail(h, i), NEW l,
           NEW g, IsReflagged(h, g, i, l), NEW y, Listed(g, y),
           g.items[i].used <=> ~h.items[i].used, NEW m \in Pools!MemHeaps
    PROVE  /\ FreeRoom(h, m) \in Int /\ FreeRoom(g, m) \in Int
           /\ m # h.items[i].pool => FreeRoom(g, m) = FreeRoom(h, m)
           /\ m = h.items[i].pool /\ ~h.items[i].used
                 => FreeRoom(g, m) = FreeRoom(h, m) - Pools!MemItemSize(h, i)
           /\ m = h.items[i].pool /\ h.items[i].used
                 => FreeRoom(g, m) = FreeRoom(h, m) + Pools!MemItemSize(h, i)
<1>1. h \in ItemHeaps /\ g \in ItemHeaps /\ Items(g) = Items(h)
  BY DEF Ring, IsReflagged
<1>2. PICK b : b \notin Items(h)
  <2>1. NoItem \notin Items(h)
    BY <1>1, HeapTyped DEF NoItem
  <2> QED BY <2>1
<1>3. FreeItems(g, m) \ {i, b} = FreeItems(h, m) \ {i, b}
  BY <1>1 DEF FreeItems, IsReflagged
<1>4. \A j \in FreeItems(h, m) \ {i, b} : g.items[j].next = h.items[j].next
  BY DEF FreeItems, IsReflagged
<1>5. /\ FreeRoom(h, m) \in Int /\ FreeRoom(g, m) \in Int
      /\ FreeRoom(g, m) + RoomOf(h, m, i) + RoomOf(h, m, b)
             = FreeRoom(h, m) + RoomOf(g, m, i) + RoomOf(g, m, b)
  <2>1. i # b
    BY <1>2
  <2> QED BY <1>1, <1>3, <1>4, <2>1, RoomChange
<1>6. RoomOf(h, m, b) = 0 /\ RoomOf(g, m, b) = 0
  BY <1>1, <1>2 DEF RoomOf, FreeItems
<1>7. Pools!MemItemSize(g, i) = Pools!MemItemSize(h, i) /\ Pools!MemItemSize(h, i) \in Nat
  BY FlaggedRing, ItemFacts
<1>8. /\ i \in FreeItems(h, m) <=> m = h.items[i].pool /\ ~h.items[i].used
      /\ i \in FreeItems(g, m) <=> m = h.items[i].pool /\ ~g.items[i].used
  BY <1>1 DEF FreeItems, IsReflagged
<1>9. CASE m # h.items[i].pool
  BY <1>5, <1>6, <1>8, <1>9 DEF RoomOf
<1>10. CASE m = h.items[i].pool /\ ~h.items[i].used
  BY <1>5, <1>6, <1>7, <1>8, <1>10 DEF RoomOf
<1>11. CASE m = h.items[i].pool /\ h.items[i].used
  BY <1>5, <1>6, <1>7, <1>8, <1>11 DEF RoomOf
<1> QED BY <1>9, <1>10, <1>11

-----------------------------------------------------------------------------
(* What the calls do to the items.                                         *)

ItemsOK(h) == Ring(h) /\ Listed(h, NoItem) /\ Unbroken(h, NoItem)

\* By how much available_size is off.
Off(h, m) == h.available[m] - FreeRoom(h, m)

\* What others leave of an item in use.
Untouched(h, g, i) ==
    /\ i \in Items(g) /\ g.items[i].used = h.items[i].used
    /\ g.items[i].next = h.items[i].next /\ g.items[i].pool = h.items[i].pool

\* An item that is or may become an area.
InHand(h, i) == i \in Items(h) /\ h.items[i].used /\ ~IsTail(h, i)

\* What an item that is untouched keeps.
LEMMA UntouchedKeeps ==
    ASSUME NEW h, NEW g, NEW i, InHand(h, i), Untouched(h, g, i)
    PROVE  InHand(g, i) /\ Pools!MemItemSize(g, i) = Pools!MemItemSize(h, i)
BY DEF Untouched, InHand, IsTail, Pools!MemItemSize

\* What is free is a number.
LEMMA FreeRoomIsInt ==
    ASSUME Pools!MemHeapAssumption, NEW h \in ItemHeaps, NEW x, Listed(h, x),
           NEW m \in Pools!MemHeaps
    PROVE  FreeRoom(h, m) \in Int
BY RoomChange, 0 # 1

\* An allocation takes a free item, or the front of it, and touches no other in use.
LEMMA AllocIs ==
    ASSUME Pools!MemHeapAssumption, ItemsOK(heap), NEW m \in Pools!MemHeaps,
           NEW i \in Elements(heap.free[m]), NEW n \in Nat \ {0},
           n <= Pools!MemItemSize(heap, i)
    PROVE  LET g == Pools!AllocFrom(m, i, n)
           IN /\ ItemsOK(g)
              /\ i \in Items(heap) /\ ~heap.items[i].used
              /\ InHand(g, i) /\ n <= Pools!MemItemSize(g, i)
              /\ \A j \in Items(heap) : heap.items[j].used => Untouched(heap, g, j)
              /\ \A k \in Pools!MemHeaps : Off(g, k) = Off(heap, k)
<1> DEFINE h == heap
           r == Pools!MemItemSize(h, i)
           new == i + RT_MEMHEAP_SIZE + n
           cut == r >= n + RT_MEMHEAP_SIZE + RT_MEMHEAP_MINIALLOC
           left == IF cut
                   THEN Pools!Counted(Pools!CutBehind(h, i, n), m, 0 - n - RT_MEMHEAP_SIZE)
                   ELSE Pools!Counted(h, m, 0 - r)
           l == [left.free EXCEPT ![m] = Pools!RemoveFirst(@, i)]
           g == Pools!AllocFrom(m, i, n)
<1>1. Ring(h) /\ Listed(h, NoItem) /\ Unbroken(h, NoItem) /\ h \in ItemHeaps
  BY DEF ItemsOK, Ring
<1>2. i \in Items(h) /\ h.items[i].pool = m /\ ~h.items[i].used /\ i # NoItem
  BY <1>1 DEF Listed
<1>3. ~IsTail(h, i)
  BY <1>1, <1>2 DEF Ring, ItemLinked
<1>4. RT_MEMHEAP_SIZE \in Nat \ {0} /\ RT_MEMHEAP_MINIALLOC \in Nat \ {0} /\ r \in Nat
  BY <1>1, <1>2, <1>3, ItemFacts, PoolSizes
<1>5. h.items[h.items[i].next].used
  BY <1>1, <1>2 DEF Unbroken
<1> HIDE DEF h, new
<1>6. /\ Ring(left) /\ Listed(left, NoItem) /\ Unbroken(left, i) /\ i \in Items(left)
      /\ ~left.items[i].used /\ left.items[i].pool = m /\ ~IsTail(left, i)
      /\ n <= Pools!MemItemSize(left, i)
      /\ \A j \in Items(h) : h.items[j].used => Untouched(h, left, j)
      /\ Off(left, m) = Off(h, m) - Pools!MemItemSize(left, i)
      /\ \A k \in Pools!MemHeaps \ {m} : Off(left, k) = Off(h, k)
  <2>1. CASE cut
    <3> DEFINE c == Pools!CutBehind(h, i, n)
               d == 0 - n - RT_MEMHEAP_SIZE
    <3>1. n + RT_MEMHEAP_SIZE < r
      BY <1>4, <2>1
    <3>2. IsCutBehind(h, c, i, n)
      BY <1>1, <1>2, <1>3, <3>1, CutBehindIs
    <3> HIDE DEF c
    <3>3. Ring(c) /\ Listed(c, NoItem)
      BY <1>1, <1>2, <1>3, <3>1, <3>2, CutBehindKeeps
    <3>4. /\ Items(c) = Items(h) \cup {new} /\ new \notin Items(h)
          /\ c.items[new].used = FALSE /\ c.items[new].next = h.items[i].next
          /\ \A j \in Items(h) :
                /\ c.items[j].used = h.items[j].used /\ c.items[j].pool = h.items[j].pool
                /\ c.items[j].next = IF j = i THEN new ELSE h.items[j].next
      BY <3>2 DEF IsCutBehind, new
    <3>5. Unbroken(c, i)
      <4> SUFFICES ASSUME NEW j \in Items(c), j # i, ~c.items[j].used
                   PROVE  c.items[c.items[j].next].used
        BY DEF Unbroken
      <4>1. h.items[i].next \in Items(h)
        BY <1>1, <1>2 DEF Ring, ItemLinked
      <4>2. CASE j = new
        BY <1>5, <3>4, <4>1, <4>2
      <4>3. CASE j # new
        <5>1. j \in Items(h) /\ ~h.items[j].used /\ c.items[j].next = h.items[j].next
          BY <3>4, <4>3
        <5>2. h.items[j].next \in Items(h) /\ j # NoItem
          BY <1>1, <5>1, HeapTyped DEF Ring, ItemLinked, NoItem
        <5>3. h.items[h.items[j].next].used
          BY <1>1, <5>1, <5>2 DEF Unbroken
        <5> QED BY <3>4, <5>1, <5>2, <5>3
      <4> QED BY <4>2, <4>3
    <3>6. \A k \in Pools!MemHeaps :
             /\ FreeRoom(h, k) \in Int /\ FreeRoom(c, k) \in Int
             /\ k # m => FreeRoom(c, k) = FreeRoom(h, k)
             /\ k = m => FreeRoom(c, k) = FreeRoom(h, k) - RT_MEMHEAP_SIZE
             /\ Pools!MemItemSize(c, i) = n
      BY <1>1, <1>2, <1>3, <3>1, <3>2, CutBehindRoom
    <3>7. d \in Int /\ left = Pools!Counted(c, m, d)
      BY <1>4, <2>1 DEF c
    <3>8. IsCounted(c, left, m, d)
      BY <3>3, <3>7, CountedIs DEF Ring
    <3> HIDE DEF left
    <3>9. Ring(left) /\ Listed(left, NoItem) /\ Unbroken(left, i) /\ Items(left) = Items(c)
          /\ left.items = c.items
          /\ \A j : /\ Pools!MemItemSize(left, j) = Pools!MemItemSize(c, j)
                    /\ IsTail(left, j) <=> IsTail(c, j)
          /\ \A k : FreeRoom(left, k) = FreeRoom(c, k)
      <4>1. left.items = c.items
        BY <3>8 DEF IsCounted
      <4>2. Ring(left) /\ Items(left) = Items(c)
        BY <3>3, <3>8, CountedKeeps
      <4>3. Listed(left, NoItem) /\ Unbroken(left, i)
        BY <3>3, <3>5, <3>8, CountedKeeps
      <4>4. /\ \A j : /\ Pools!MemItemSize(left, j) = Pools!MemItemSize(c, j)
                      /\ IsTail(left, j) <=> IsTail(c, j)
            /\ \A k : FreeRoom(left, k) = FreeRoom(c, k)
        BY <3>3, <3>8, CountedKeeps
      <4> QED BY <4>1, <4>2, <4>3, <4>4
    <3>10. \A j \in Items(h) : h.items[j].used => Untouched(h, left, j)
      BY <1>2, <3>4, <3>9 DEF Untouched
    <3>11. ~IsTail(c, i)
      BY <1>2, <1>3, <3>4 DEF IsTail
    <3>12. \A k \in Pools!MemHeaps : /\ h.available[k] \in Int
                                     /\ left.available[k] = IF k = m THEN h.available[k] + d
                                                            ELSE h.available[k]
      BY <1>1, <3>2, <3>8, HeapTyped DEF IsCutBehind, IsCounted
    <3>13. /\ Off(left, m) = Off(h, m) - Pools!MemItemSize(left, i)
           /\ \A k \in Pools!MemHeaps \ {m} : Off(left, k) = Off(h, k)
      BY <1>4, <3>6, <3>9, <3>12 DEF Off
    <3>14. n <= Pools!MemItemSize(left, i)
      BY <3>6, <3>9
    <3> QED BY <1>2, <3>4, <3>9, <3>10, <3>11, <3>13, <3>14
  <2>2. CASE ~cut
    <3>1. left = Pools!Counted(h, m, 0 - r) /\ 0 - r \in Int
      BY <1>4, <2>2
    <3>2. IsCounted(h, left, m, 0 - r)
      BY <1>1, <3>1, CountedIs
    <3> HIDE DEF left
    <3>3. Ring(left) /\ Listed(left, NoItem) /\ Unbroken(left, NoItem)
          /\ Items(left) = Items(h)
          /\ left.items = h.items
          /\ \A j : /\ Pools!MemItemSize(left, j) = Pools!MemItemSize(h, j)
                    /\ IsTail(left, j) <=> IsTail(h, j)
          /\ \A k : FreeRoom(left, k) = FreeRoom(h, k)
      <4>1. left.items = h.items
        BY <3>2 DEF IsCounted
      <4>2. Ring(left) /\ Items(left) = Items(h)
        BY <1>1, <3>2, CountedKeeps
      <4>3. Listed(left, NoItem) /\ Unbroken(left, NoItem)
        BY <1>1, <3>2, CountedKeeps
      <4>4. /\ \A j : /\ Pools!MemItemSize(left, j) = Pools!MemItemSize(h, j)
                      /\ IsTail(left, j) <=> IsTail(h, j)
            /\ \A k : FreeRoom(left, k) = FreeRoom(h, k)
        BY <1>1, <3>2, CountedKeeps
      <4> QED BY <4>1, <4>2, <4>3, <4>4
    <3>4. Unbroken(left, i)
      BY <1>1, <3>3, HeapTyped DEF Unbroken, NoItem
    <3>5. \A j \in Items(h) : h.items[j].used => Untouched(h, left, j)
      BY <3>3 DEF Untouched
    <3>6. \A k \in Pools!MemHeaps : /\ h.available[k] \in Int /\ FreeRoom(h, k) \in Int
                                    /\ left.available[k] = IF k = m THEN h.available[k] - r
                                                           ELSE h.available[k]
      <4>1. \A k \in Pools!MemHeaps : FreeRoom(h, k) \in Int
        BY <1>1, FreeRoomIsInt
      <4>2. \A k \in Pools!MemHeaps : h.available[k] \in Int
        BY <1>1, HeapTyped
      <4>3. \A k \in Pools!MemHeaps :
               left.available[k] = IF k = m THEN h.available[k] + (0 - r)
                                                          ELSE h.available[k]
        BY <3>2 DEF IsCounted
      <4> QED BY <1>4, <4>1, <4>2, <4>3
    <3>7. Pools!MemItemSize(left, i) = r /\ n <= r
      BY <3>3 DEF h
    <3>8. /\ Off(left, m) = Off(h, m) - Pools!MemItemSize(left, i)
          /\ \A k \in Pools!MemHeaps \ {m} : Off(left, k) = Off(h, k)
      BY <1>4, <3>3, <3>6, <3>7 DEF Off
    <3> QED BY <1>2, <1>3, <3>3, <3>4, <3>5, <3>7, <3>8
  <2> QED BY <2>1, <2>2
<1>7. g = [[left EXCEPT !.free = l] EXCEPT !.items = [left.items EXCEPT ![i].used = TRUE]]
  BY <1>6 DEF Pools!AllocFrom, h, Ring, ItemHeaps
<1> HIDE DEF left
<1>8. left \in ItemHeaps
  BY <1>6 DEF Ring
<1>9. l \in [Pools!MemHeaps -> Seq(Nat)]
      /\ \A k \in Pools!MemHeaps : l[k] = IF k = m THEN Pools!RemoveFirst(left.free[k], i)
                                          ELSE left.free[k]
  <2>1. left.free \in [Pools!MemHeaps -> Seq(Nat)]
    BY <1>8, HeapTyped
  <2>2. Pools!RemoveFirst(left.free[m], i) \in Seq(Nat)
    BY <1>6, <2>1, RemovedIs DEF Listed
  <2> QED BY <2>1, <2>2
<1> HIDE DEF l, g
<1>10. g = [items |-> [left.items EXCEPT ![i].used = TRUE], free |-> l,
            available |-> left.available]
  <2>1. left = [items |-> left.items, free |-> left.free, available |-> left.available]
    BY <1>8 DEF ItemHeaps
  <2> DEFINE f == [left.items EXCEPT ![i].used = TRUE]
  <2>2. g = [[left EXCEPT !.free = l] EXCEPT !.items = f]
    BY <1>7
  <2> HIDE DEF f
  <2>3. g = [items |-> f, free |-> l, available |-> left.available]
    BY <2>1, <2>2
  <2> QED BY <2>3 DEF f
<1>11. IsReflagged(left, g, i, l) /\ g.items[i].used
  <2>1. IsFlagged(left, g, i, TRUE, l)
    BY <1>6, <1>8, <1>9, <1>10, FlaggedIs
  <2> QED BY <1>6, <2>1 DEF IsFlagged
<1>12. Ring(g) /\ \A j \in Items(left) :
                     /\ Pools!MemItemSize(g, j) = Pools!MemItemSize(left, j)
                     /\ IsTail(g, j) <=> IsTail(left, j)
  BY <1>6, <1>11, FlaggedRing
<1>13. Listed(g, NoItem)
  <2> SUFFICES ASSUME NEW k \in Pools!MemHeaps
               PROVE  /\ Distinct(g.free[k])
                      /\ Elements(g.free[k]) = {j \in Items(g) : g.items[j].pool = k
                                           /\ ~g.items[j].used /\ j # NoItem}
    BY DEF Listed
  <2>1. left.free[k] \in Seq(Nat) /\ Distinct(left.free[k])
        /\ Elements(left.free[k]) = {j \in Items(left) : left.items[j].pool = k
                                           /\ ~left.items[j].used /\ j # NoItem}
    BY <1>6, <1>8, HeapTyped DEF Listed
  <2>2. g.free[k] = IF k = m THEN Pools!RemoveFirst(left.free[k], i) ELSE left.free[k]
    BY <1>9, <1>11 DEF IsReflagged
  <2>3. {j \in Items(g) : g.items[j].pool = k /\ ~g.items[j].used /\ j # NoItem}
           = IF k = m THEN Elements(left.free[k]) \ {i} ELSE Elements(left.free[k])
    BY <1>6, <1>11, <2>1 DEF IsReflagged
  <2> QED BY <2>1, <2>2, <2>3, RemovedIs
<1>14. Unbroken(g, NoItem)
  <2> SUFFICES ASSUME NEW j \in Items(g), ~g.items[j].used
               PROVE  g.items[g.items[j].next].used
    BY DEF Unbroken
  <2>1. j \in Items(left) /\ j # i /\ ~left.items[j].used /\ g.items[j].next
           = left.items[j].next
    BY <1>11 DEF IsReflagged
  <2>2. left.items[left.items[j].next].used /\ left.items[j].next \in Items(left)
    BY <1>6, <2>1 DEF Unbroken, Ring, ItemLinked
  <2> QED BY <1>11, <2>1, <2>2 DEF IsReflagged
<1>15. \A j \in Items(h) : h.items[j].used => Untouched(h, g, j)
  BY <1>2, <1>6, <1>11 DEF Untouched, IsReflagged, h
<1>16. \A k \in Pools!MemHeaps : Off(g, k) = Off(h, k)
  <2> SUFFICES ASSUME NEW k \in Pools!MemHeaps PROVE Off(g, k) = Off(h, k)
    OBVIOUS
  <2>1. /\ FreeRoom(left, k) \in Int /\ FreeRoom(g, k) \in Int
        /\ k # m => FreeRoom(g, k) = FreeRoom(left, k)
        /\ k = m => FreeRoom(g, k) = FreeRoom(left, k) - Pools!MemItemSize(left, i)
    BY <1>6, <1>11, <1>13, FlaggedRoom
  <2>2. g.available[k] = left.available[k] /\ left.available[k] \in Int
        /\ h.available[k] \in Int
    BY <1>1, <1>8, <1>11, HeapTyped DEF IsReflagged
  <2>3. Pools!MemItemSize(left, i) \in Int /\ FreeRoom(h, k) \in Int
    BY <1>1, <1>6, ItemFacts, FreeRoomIsInt
  <2>4. CASE k = m
    BY <1>6, <2>1, <2>2, <2>3, <2>4 DEF Off
  <2>5. CASE k # m
    BY <1>6, <2>1, <2>2, <2>3, <2>5 DEF Off
  <2> QED BY <2>4, <2>5
<1>17. InHand(g, i) /\ n <= Pools!MemItemSize(g, i)
  BY <1>6, <1>11, <1>12 DEF InHand, IsReflagged
<1> QED BY <1>2, <1>12, <1>13, <1>14, <1>15, <1>16, <1>17 DEF ItemsOK, g, h

-----------------------------------------------------------------------------
(* An item becomes free.                                                   *)

\* A free item takes in the free one behind it, and its header is counted.
Merged(h, i) == Pools!Counted(Pools!TakenIn(h, i), h.items[i].pool, RT_MEMHEAP_SIZE)

IsMerged(h, g, i) ==
    LET n == h.items[i].next
    IN /\ Items(g) = Items(h) \ {n}
       /\ \A j \in Items(g) :
             /\ g.items[j].used = h.items[j].used /\ g.items[j].pool = h.items[j].pool
             /\ g.items[j].next = IF j = i THEN h.items[n].next ELSE h.items[j].next

\* No two free items are neighbours, but for those of S and the ones behind them.
UnbrokenBut(h, S) ==
    \A i \in Items(h) \ S : h.items[i].used \/ h.items[h.items[i].next].used

\* It leaves a ring and free lists, and the count right.
LEMMA MergedIs ==
    ASSUME Pools!MemHeapAssumption, NEW h, Ring(h), NEW x, Listed(h, x),
           NEW i \in Items(h), ~h.items[i].used, ~h.items[h.items[i].next].used
    PROVE  /\ Ring(Merged(h, i)) /\ Listed(Merged(h, i), x) /\ IsMerged(h, Merged(h, i), i)
           /\ \A k \in Pools!MemHeaps : Off(Merged(h, i), k) = Off(h, k)
<1> DEFINE n == h.items[i].next
           m == h.items[i].pool
           t == Pools!TakenIn(h, i)
           g == Merged(h, i)
<1>1. /\ n \in Items(h) /\ ~IsTail(h, i) /\ ~IsTail(h, n) /\ m \in Pools!MemHeaps
      /\ RT_MEMHEAP_SIZE \in Int /\ h \in ItemHeaps
  BY HeapTyped, PoolSizes DEF Ring, ItemLinked
<1>2. IsTakenIn(h, t, i)
  BY <1>1, TakenInIs
<1> HIDE DEF t
<1>3. Ring(t) /\ Listed(t, x) /\ t \in ItemHeaps
  BY <1>1, <1>2, TakenInKeeps DEF Ring
<1>4. IsCounted(t, g, m, RT_MEMHEAP_SIZE)
  BY <1>1, <1>3, CountedIs DEF Merged, t
<1> HIDE DEF g
<1>5. Ring(g) /\ Listed(g, x) /\ g.items = t.items /\ Items(g) = Items(t)
      /\ \A k : FreeRoom(g, k) = FreeRoom(t, k)
  <2>1. Ring(g) /\ Items(g) = Items(t) /\ \A k : FreeRoom(g, k) = FreeRoom(t, k)
    BY <1>3, <1>4, CountedKeeps
  <2>2. Listed(g, x)
    BY <1>3, <1>4, CountedKeeps
  <2>3. g.items = t.items
    BY <1>4 DEF IsCounted
  <2> QED BY <2>1, <2>2, <2>3
<1>6. IsMerged(h, g, i)
  BY <1>2, <1>5 DEF IsTakenIn, IsMerged
<1>7. ASSUME NEW k \in Pools!MemHeaps PROVE Off(g, k) = Off(h, k)
  <2>1. /\ FreeRoom(h, k) \in Int /\ FreeRoom(t, k) \in Int
        /\ k # m => FreeRoom(t, k) = FreeRoom(h, k)
        /\ k = m => FreeRoom(t, k) = FreeRoom(h, k) + RT_MEMHEAP_SIZE
    BY <1>1, <1>2, TakenInRoom
  <2>2. /\ h.available[k] \in Int
        /\ k # m => g.available[k] = h.available[k]
        /\ k = m => g.available[k] = h.available[k] + RT_MEMHEAP_SIZE
    BY <1>1, <1>2, <1>4, HeapTyped DEF IsTakenIn, IsCounted
  <2> QED BY <1>1, <1>5, <2>1, <2>2 DEF Off
<1> QED BY <1>5, <1>6, <1>7 DEF g

\* What it takes in is behind it no more, and what was behind that is.
LEMMA MergedUnbroken ==
    ASSUME Pools!MemHeapAssumption, NEW h, Ring(h), NEW S, UnbrokenBut(h, S),
           NEW i \in Items(h),
           ~h.items[h.items[i].next].used, NEW g, IsMerged(h, g, i)
    PROVE  /\ UnbrokenBut(g, (S \ {h.items[i].next}) \cup {i})
           /\ h.items[i].next \notin S => UnbrokenBut(g, S \ {i})
<1> DEFINE n == h.items[i].next
<1>1. n \in Items(h) /\ n # h.items[n].next /\ h.items[n].next \in Items(h)
  BY HeapTyped, PoolSizes DEF Ring, ItemLinked
<1>2. Items(g) = Items(h) \ {n}
  BY DEF IsMerged
<1>3. ASSUME NEW j \in Items(g) \ (S \cup {i})
      PROVE  g.items[j].used \/ g.items[g.items[j].next].used
  <2>1. /\ j \in Items(h) /\ j # n /\ g.items[j].used = h.items[j].used
        /\ g.items[j].next = h.items[j].next
    BY <1>2, <1>3 DEF IsMerged
  <2>2. h.items[j].used \/ h.items[h.items[j].next].used
    BY <1>3, <2>1 DEF UnbrokenBut
  <2>3. h.items[j].next \in Items(h) /\ h.items[j].next # n
    BY <1>3, <2>1, NextsDiffer DEF Ring, ItemLinked
  <2> QED BY <1>2, <2>1, <2>2, <2>3 DEF IsMerged
<1>4. ASSUME n \notin S, i \in Items(g)
      PROVE  g.items[g.items[i].next].used
  <2>1. h.items[h.items[n].next].used
    BY <1>1, <1>4 DEF UnbrokenBut
  <2>2. g.items[i].next = h.items[n].next
    BY <1>4 DEF IsMerged
  <2> QED BY <1>1, <1>2, <2>1, <2>2 DEF IsMerged
<1> QED BY <1>2, <1>3, <1>4 DEF UnbrokenBut

\* The item is free and its room is counted, but it is in no list.
Opened(h, i) ==
    Pools!Counted([h EXCEPT !.items[i].used = FALSE], h.items[i].pool, Pools!MemItemSize(h, i))

IsOpened(h, g, i) ==
    /\ Items(g) = Items(h) /\ ~g.items[i].used
    /\ \A j \in Items(h) :
          /\ j # i => g.items[j].used = h.items[j].used
          /\ g.items[j].next = h.items[j].next /\ g.items[j].prev = h.items[j].prev
          /\ g.items[j].pool = h.items[j].pool

\* It has free neighbours perhaps, and is missing in the list.
LEMMA OpenedIs ==
    ASSUME Pools!MemHeapAssumption, NEW h, ItemsOK(h), NEW i, InHand(h, i)
    PROVE  /\ Ring(Opened(h, i)) /\ Listed(Opened(h, i), i) /\ IsOpened(h, Opened(h, i), i)
           /\ UnbrokenBut(Opened(h, i), {i, h.items[i].prev})
           /\ \A k \in Pools!MemHeaps : Off(Opened(h, i), k) = Off(h, k)
<1> DEFINE f == [h.items EXCEPT ![i].used = FALSE]
           m == h.items[i].pool
           r == Pools!MemItemSize(h, i)
           o == [h EXCEPT !.items[i].used = FALSE]
           g == Opened(h, i)
<1>1. /\ Ring(h) /\ Listed(h, NoItem) /\ Unbroken(h, NoItem) /\ h \in ItemHeaps
      /\ i \in Items(h) /\ h.items[i].used /\ ~IsTail(h, i)
  BY DEF ItemsOK, Ring, InHand
<1>2. m \in Pools!MemHeaps /\ r \in Int
  BY <1>1, ItemFacts
<1>3. o = [items |-> f, free |-> h.free, available |-> h.available]
  <2>1. h = [items |-> h.items, free |-> h.free, available |-> h.available]
    BY <1>1 DEF ItemHeaps
  <2>2. o = [h EXCEPT !.items = f]
    OBVIOUS
  <2> HIDE DEF f, o
  <2> QED BY <2>1, <2>2
<1>4. g = Pools!Counted(o, m, r)
  BY DEF Opened
<1> HIDE DEF o, g, r
<1>5. IsReflagged(h, o, i, h.free) /\ ~o.items[i].used
  <2>1. h.free \in [Pools!MemHeaps -> Seq(Nat)] /\ f = [h.items EXCEPT ![i].used = FALSE]
    BY <1>1, HeapTyped
  <2> HIDE DEF f
  <2>2. IsFlagged(h, o, i, FALSE, h.free)
    BY <1>1, <1>3, <2>1, FlaggedIs
  <2> QED BY <2>2 DEF IsFlagged
<1>6. Ring(o)
  BY <1>1, <1>5, FlaggedRing
<1>7. Listed(o, i)
  <2> SUFFICES ASSUME NEW k \in Pools!MemHeaps
               PROVE  /\ Distinct(o.free[k])
                      /\ Elements(o.free[k]) = {j \in Items(o) : o.items[j].pool = k
                                                   /\ ~o.items[j].used /\ j # i}
    BY DEF Listed
  <2>1. Distinct(h.free[k])
        /\ Elements(h.free[k]) = {j \in Items(h) : h.items[j].pool = k
                                                   /\ ~h.items[j].used /\ j # NoItem}
    BY <1>1 DEF Listed
  <2>2. NoItem \notin Items(h)
    BY <1>1, HeapTyped DEF NoItem
  <2>3. {j \in Items(h) : h.items[j].pool = k /\ ~h.items[j].used /\ j # NoItem}
          = {j \in Items(o) : o.items[j].pool = k /\ ~o.items[j].used /\ j # i}
    BY <1>1, <1>5, <2>2 DEF IsReflagged
  <2> QED BY <1>5, <2>1, <2>3 DEF IsReflagged
<1>8. IsCounted(o, g, m, r)
  BY <1>2, <1>4, <1>6, CountedIs DEF Ring
<1>9. Ring(g) /\ Listed(g, i) /\ g.items = o.items /\ Items(g) = Items(o)
      /\ \A k : FreeRoom(g, k) = FreeRoom(o, k)
  <2>1. Ring(g) /\ Items(g) = Items(o) /\ \A k : FreeRoom(g, k) = FreeRoom(o, k)
    BY <1>6, <1>8, CountedKeeps
  <2>2. Listed(g, i)
    BY <1>6, <1>7, <1>8, CountedKeeps
  <2>3. g.items = o.items
    BY <1>8 DEF IsCounted
  <2> QED BY <2>1, <2>2, <2>3
<1>10. IsOpened(h, g, i)
  BY <1>5, <1>9 DEF IsReflagged, IsOpened
<1>11. UnbrokenBut(g, {i, h.items[i].prev})
  <2> SUFFICES ASSUME NEW j \in Items(g), j # i, j # h.items[i].prev
               PROVE  g.items[j].used \/ g.items[g.items[j].next].used
    BY DEF UnbrokenBut
  <2>1. /\ j \in Items(h) /\ g.items[j].used = h.items[j].used
        /\ g.items[j].next = h.items[j].next
    BY <1>10 DEF IsOpened
  <2>2. h.items[j].next \in Items(h) /\ h.items[j].next # i /\ j # NoItem
    BY <1>1, <2>1, HeapTyped DEF Ring, ItemLinked, NoItem
  <2>3. h.items[j].used \/ h.items[h.items[j].next].used
    BY <1>1, <2>1, <2>2 DEF Unbroken
  <2> QED BY <1>10, <2>1, <2>2, <2>3 DEF IsOpened
<1>12. ASSUME NEW k \in Pools!MemHeaps PROVE Off(g, k) = Off(h, k)
  <2>1. /\ FreeRoom(h, k) \in Int /\ FreeRoom(o, k) \in Int
        /\ k # m => FreeRoom(o, k) = FreeRoom(h, k)
        /\ k = m => FreeRoom(o, k) = FreeRoom(h, k) + r
    BY <1>1, <1>5, <1>7, FlaggedRoom DEF r
  <2>2. /\ h.available[k] \in Int
        /\ k # m => g.available[k] = h.available[k]
        /\ k = m => g.available[k] = h.available[k] + r
    BY <1>1, <1>5, <1>8, HeapTyped DEF IsReflagged, IsCounted
  <2> QED BY <1>2, <1>9, <2>1, <2>2 DEF Off
<1> QED BY <1>9, <1>10, <1>11, <1>12 DEF g

\* A free item that may have free neighbours takes in the one behind it.
Joined(h, i) == IF ~h.items[h.items[i].next].used THEN Merged(h, i) ELSE h

\* Then it has none, behind it.
LEMMA JoinedIs ==
    ASSUME Pools!MemHeapAssumption, NEW h, Ring(h), NEW x, Listed(h, x),
           NEW i \in Items(h), ~h.items[i].used, UnbrokenBut(h, {i})
    PROVE  /\ Ring(Joined(h, i)) /\ Listed(Joined(h, i), x) /\ UnbrokenBut(Joined(h, i), {})
           /\ i \in Items(Joined(h, i)) /\ ~Joined(h, i).items[i].used
           /\ Joined(h, i).items[i].pool = h.items[i].pool
           /\ \A j \in Items(h) : h.items[j].used => Untouched(h, Joined(h, i), j)
           /\ \A k \in Pools!MemHeaps : Off(Joined(h, i), k) = Off(h, k)
<1> DEFINE n == h.items[i].next
           g == Joined(h, i)
<1>1. n \in Items(h) /\ n # i
  BY HeapTyped, PoolSizes DEF Ring, ItemLinked
<1>2. CASE ~h.items[n].used
  <2>1. g = Merged(h, i)
    BY <1>2 DEF Joined
  <2> HIDE DEF g
  <2>2. /\ Ring(g) /\ Listed(g, x) /\ IsMerged(h, g, i)
        /\ \A k \in Pools!MemHeaps : Off(g, k) = Off(h, k)
    BY <1>2, <2>1, MergedIs
  <2>3. UnbrokenBut(g, {i} \ {i})
    BY <1>1, <1>2, <2>2, MergedUnbroken
  <2>4. /\ i \in Items(g) /\ ~g.items[i].used /\ g.items[i].pool = h.items[i].pool
        /\ \A j \in Items(h) : h.items[j].used => Untouched(h, g, j)
    BY <1>1, <1>2, <2>2 DEF IsMerged, Untouched
  <2>5. {i} \ {i} = {}
    OBVIOUS
  <2> QED BY <2>2, <2>3, <2>4, <2>5 DEF g
<1>3. CASE h.items[n].used
  <2>1. g = h
    BY <1>3 DEF Joined
  <2>2. UnbrokenBut(h, {})
    BY <1>3 DEF UnbrokenBut
  <2>3. \A j \in Items(h) : Untouched(h, h, j)
    BY DEF Untouched
  <2> QED BY <2>1, <2>2, <2>3
<1> QED BY <1>2, <1>3

\* Without exceptions, no item need be named.
LEMMA UnbrokenButNone ==
    ASSUME NEW h, UnbrokenBut(h, {})
    PROVE  Unbroken(h, NoItem)
BY DEF UnbrokenBut, Unbroken

\* The item is freed: it joins the free items beside it.
LEMMA FreedIs ==
    ASSUME Pools!MemHeapAssumption, NEW h, ItemsOK(h), NEW i, InHand(h, i)
    PROVE  LET g == Pools!Freed(h, i)
           IN /\ ItemsOK(g)
              /\ \A j \in Items(h) \ {i} : h.items[j].used => Untouched(h, g, j)
              /\ \A k \in Pools!MemHeaps : Off(g, k) = Off(h, k)
<1> DEFINE m == h.items[i].pool
           prev == h.items[i].prev
           left == ~h.items[prev].used
           one == Opened(h, i)
           g == Pools!Freed(h, i)
<1>1. /\ Ring(one) /\ Listed(one, i) /\ IsOpened(h, one, i)
      /\ UnbrokenBut(one, {i, prev})
      /\ \A k \in Pools!MemHeaps : Off(one, k) = Off(h, k)
  BY OpenedIs
<1>2. /\ i \in Items(h) /\ prev \in Items(h) /\ h.items[prev].next = i
      /\ h.items[prev].pool = m /\ m \in Pools!MemHeaps /\ i # prev
  <2>1. Ring(h) /\ i \in Items(h) /\ ~IsTail(h, i)
    BY DEF ItemsOK, InHand
  <2> QED BY <2>1, HeapTyped, PoolSizes, ItemFacts DEF Ring, ItemLinked
<1> HIDE DEF one
<1>3. CASE left
  <2> DEFINE two == Merged(one, prev)
             all == Joined(two, prev)
  <2>1. ~one.items[prev].used /\ one.items[prev].next = i /\ one.items[prev].pool = m
        /\ ~one.items[i].used /\ prev \in Items(one)
    BY <1>1, <1>2, <1>3 DEF IsOpened
  <2>2. /\ Ring(two) /\ Listed(two, i) /\ IsMerged(one, two, prev)
        /\ \A k \in Pools!MemHeaps : Off(two, k) = Off(one, k)
    BY <1>1, <2>1, MergedIs
  <2>3. UnbrokenBut(two, {prev})
    <3>1. UnbrokenBut(two, ({i, prev} \ {i}) \cup {prev})
      BY <1>1, <2>1, <2>2, MergedUnbroken
    <3>2. ({i, prev} \ {i}) \cup {prev} = {prev}
      OBVIOUS
    <3> QED BY <3>1, <3>2
  <2>4. Items(two) = Items(one) \ {i} /\ prev \in Items(two) /\ ~two.items[prev].used
        /\ two.items[prev].pool = m
    BY <1>2, <2>1, <2>2 DEF IsMerged
  <2>5. Listed(two, NoItem)
    <3>1. i \notin Items(two) /\ NoItem \notin Items(two)
      BY <2>2, <2>4, HeapTyped DEF Ring, NoItem
    <3> HIDE DEF two
    <3>2. ASSUME NEW k \in Pools!MemHeaps
          PROVE  {j \in Items(two) : two.items[j].pool = k /\ ~two.items[j].used /\ j # i}
                  = {j \in Items(two) : two.items[j].pool = k /\ ~two.items[j].used
                                         /\ j # NoItem}
      BY <3>1
    <3> QED BY <2>2, <3>2 DEF Listed
  <2>6. g = all
    BY <1>3, <2>1, <2>4 DEF Pools!Freed, one, Opened, Merged, Joined
  <2> HIDE DEF two, g, all
  <2>7. /\ Ring(all) /\ Listed(all, NoItem) /\ UnbrokenBut(all, {})
        /\ \A j \in Items(two) : two.items[j].used => Untouched(two, all, j)
        /\ \A k \in Pools!MemHeaps : Off(all, k) = Off(two, k)
    BY <2>2, <2>3, <2>4, <2>5, JoinedIs DEF all
  <2>8. ItemsOK(g)
    BY <2>6, <2>7, UnbrokenButNone DEF ItemsOK
  <2>9. ASSUME NEW j \in Items(h) \ {i}, h.items[j].used PROVE Untouched(h, g, j)
    <3>1. j \in Items(two) /\ j # prev
      BY <1>1, <1>3, <2>4, <2>9 DEF IsOpened
    <3>2. two.items[j].used = h.items[j].used /\ two.items[j].next = h.items[j].next
          /\ two.items[j].pool = h.items[j].pool
      BY <1>1, <2>2, <2>9, <3>1 DEF IsOpened, IsMerged
    <3> QED BY <2>6, <2>7, <2>9, <3>1, <3>2 DEF Untouched
  <2> QED BY <1>1, <2>2, <2>6, <2>7, <2>8, <2>9 DEF g
<1>4. CASE ~left
  <2> DEFINE all == Joined(one, i)
             l == [all.free EXCEPT ![m] = <<i>> \o @]
  <2>1. i \in Items(one) /\ ~one.items[i].used /\ one.items[i].pool = m
    BY <1>1, <1>2 DEF IsOpened
  <2>2. UnbrokenBut(one, {i})
    BY <1>1, <1>2, <1>4 DEF UnbrokenBut, IsOpened
  <2>3. /\ Ring(all) /\ Listed(all, i) /\ UnbrokenBut(all, {})
        /\ i \in Items(all) /\ ~all.items[i].used /\ all.items[i].pool = m
        /\ \A j \in Items(one) : one.items[j].used => Untouched(one, all, j)
        /\ \A k \in Pools!MemHeaps : Off(all, k) = Off(one, k)
    BY <1>1, <2>1, <2>2, JoinedIs
  <2>4. g = [all EXCEPT !.free = l]
    BY <1>4, <2>1 DEF Pools!Freed, one, Opened, Merged, Joined
  <2> HIDE DEF all, g
  <2>5. all = [items |-> all.items, free |-> all.free, available |-> all.available]
        /\ all \in ItemHeaps
    BY <2>3 DEF Ring, ItemHeaps
  <2>6. /\ \A k \in Pools!MemHeaps : l[k] = IF k = m THEN <<i>> \o all.free[k]
                                            ELSE all.free[k]
        /\ l \in [Pools!MemHeaps -> Seq(Nat)]
    <3>1. all.free \in [Pools!MemHeaps -> Seq(Nat)] /\ i \in Nat
      BY <2>3, <2>5, HeapTyped
    <3>2. <<i>> \o all.free[m] \in Seq(Nat)
      BY <1>2, <3>1, HeadedIs
    <3> QED BY <3>1, <3>2
  <2> HIDE DEF l
  <2>7. g = [items |-> all.items, free |-> l, available |-> all.available]
    BY <2>4, <2>5
  <2>8. /\ g \in ItemHeaps /\ g.items = all.items /\ g.available = all.available
        /\ g.free = l /\ Items(g) = Items(all)
    BY <2>5, <2>6, <2>7, HeapTyped, TypedHeap DEF Items
  <2>9. Ring(g) /\ Unbroken(g, NoItem)
    <3>1. Unbroken(all, NoItem)
      BY <2>3, UnbrokenButNone
    <3> QED BY <2>3, <2>8, <3>1 DEF Ring, ItemLinked, IsTail, Unbroken
  <2>10. Listed(g, NoItem)
    <3> SUFFICES ASSUME NEW k \in Pools!MemHeaps
                 PROVE  /\ Distinct(g.free[k])
                        /\ Elements(g.free[k]) = {j \in Items(g) : g.items[j].pool = k
                                                /\ ~g.items[j].used /\ j # NoItem}
      BY DEF Listed
    <3>1. Distinct(all.free[k]) /\ all.free[k] \in Seq(Nat) /\ i \in Nat
          /\ Elements(all.free[k]) = {j \in Items(all) : all.items[j].pool = k
                                                /\ ~all.items[j].used /\ j # i}
      BY <2>3, <2>5, HeapTyped DEF Listed
    <3>2. NoItem \notin Items(all)
      BY <2>5, HeapTyped DEF NoItem
    <3>3. {j \in Items(g) : g.items[j].pool = k /\ ~g.items[j].used /\ j # NoItem}
            = IF k = m THEN Elements(all.free[k]) \cup {i} ELSE Elements(all.free[k])
      BY <2>3, <2>8, <3>1, <3>2
    <3>4. g.free[k] = IF k = m THEN <<i>> \o all.free[k] ELSE all.free[k]
      BY <2>6, <2>8
    <3> QED BY <3>1, <3>3, <3>4, HeadedIs
  <2>11. ASSUME NEW j \in Items(h) \ {i}, h.items[j].used PROVE Untouched(h, g, j)
    <3>1. j \in Items(one) /\ one.items[j].used = h.items[j].used
          /\ one.items[j].next = h.items[j].next /\ one.items[j].pool = h.items[j].pool
      BY <1>1, <2>11 DEF IsOpened
    <3> QED BY <2>3, <2>8, <2>11, <3>1 DEF Untouched
  <2>12. ASSUME NEW k \in Pools!MemHeaps PROVE Off(g, k) = Off(h, k)
    <3>1. FreeRoom(g, k) = FreeRoom(all, k)
      <4>1. FreeItems(g, k) = FreeItems(all, k) /\ Rooms(g) = Rooms(all)
        BY <2>8 DEF FreeItems, Rooms
      <4> QED BY <4>1 DEF FreeRoom
    <3> QED BY <1>1, <2>3, <2>8, <3>1 DEF Off
  <2> QED BY <2>9, <2>10, <2>11, <2>12 DEF g, ItemsOK
<1> QED BY <1>3, <1>4

-----------------------------------------------------------------------------
(* An area grows or shrinks in place.                                      *)

\* The two ways to say that no neighbours are free.
LEMMA UnbrokenBut0 ==
    ASSUME NEW h \in ItemHeaps, Unbroken(h, NoItem)
    PROVE  UnbrokenBut(h, {})
BY HeapTyped DEF UnbrokenBut, Unbroken, NoItem

\* The rest of an item in use that is cut may be before a free item.
LEMMA CutUnbroken ==
    ASSUME NEW h, Ring(h), UnbrokenBut(h, {}), NEW i \in Items(h), h.items[i].used,
           NEW n, NEW g, IsCutBehind(h, g, i, n)
    PROVE  /\ UnbrokenBut(g, {i + RT_MEMHEAP_SIZE + n})
           /\ h.items[h.items[i].next].used => UnbrokenBut(g, {})
<1> DEFINE new == i + RT_MEMHEAP_SIZE + n
           e == h.items[i].next
<1>1. /\ Items(g) = Items(h) \cup {new} /\ new \notin Items(h)
      /\ g.items[new].next = e /\ e \in Items(h)
      /\ \A j \in Items(h) :
            /\ g.items[j].used = h.items[j].used
            /\ g.items[j].next = IF j = i THEN new ELSE h.items[j].next
  BY DEF IsCutBehind, Ring, ItemLinked
<1> HIDE DEF new
<1>2. ASSUME NEW j \in Items(h), ~g.items[j].used
      PROVE  g.items[g.items[j].next].used
  <2>1. j # i /\ h.items[j].next \in Items(h) /\ h.items[h.items[j].next].used
    BY <1>1, <1>2 DEF UnbrokenBut, Ring, ItemLinked
  <2> QED BY <1>1, <1>2, <2>1
<1> QED BY <1>1, <1>2 DEF UnbrokenBut, new

\* An item that grows takes what it needs of the free one behind it.
LEMMA GrowIs ==
    ASSUME Pools!MemHeapAssumption, NEW h, ItemsOK(h), NEW i, InHand(h, i),
           NEW n \in Nat \ {0}, Pools!Grows(h, i, n)
    PROVE  LET m == h.items[i].pool
               g == Pools!CutBehind(
                     Pools!TakenIn(Pools!Counted(h, m, Pools!MemItemSize(h, i) - n), i), i, n)
           IN /\ ItemsOK(g) /\ InHand(g, i) /\ Pools!MemItemSize(g, i) = n
              /\ \A j \in Items(h) \ {i} : h.items[j].used => Untouched(h, g, j)
              /\ \A k \in Pools!MemHeaps : Off(g, k) = Off(h, k)
<1> DEFINE m == h.items[i].pool
           s == Pools!MemItemSize(h, i)
           next == h.items[i].next
           z == Pools!MemItemSize(h, next)
           c == Pools!Counted(h, m, s - n)
           t == Pools!TakenIn(c, i)
           g == Pools!CutBehind(t, i, n)
           new == i + RT_MEMHEAP_SIZE + n
<1>1. /\ Ring(h) /\ Listed(h, NoItem) /\ UnbrokenBut(h, {}) /\ h \in ItemHeaps
      /\ i \in Items(h) /\ h.items[i].used /\ ~IsTail(h, i)
  BY UnbrokenBut0 DEF ItemsOK, InHand, Ring
<1>2. /\ next \in Items(h) /\ ~h.items[next].used /\ z + s > n + RT_MEMHEAP_MINIALLOC
  BY <1>1 DEF Pools!Grows, Ring, ItemLinked
<1>3. /\ ~IsTail(h, next) /\ s \in Nat /\ z \in Nat /\ m \in Pools!MemHeaps
      /\ RT_MEMHEAP_SIZE \in Nat /\ RT_MEMHEAP_MINIALLOC \in Nat
  <2>1. ~IsTail(h, next)
    BY <1>1, <1>2 DEF Ring, ItemLinked
  <2> QED BY <1>1, <1>2, <2>1, ItemFacts, PoolSizes
<1> HIDE DEF s, z, c, t, g
<1>4. IsCounted(h, c, m, s - n)
  BY <1>1, <1>3, CountedIs DEF c
<1>5. /\ Ring(c) /\ Items(c) = Items(h) /\ c.items = h.items
      /\ Listed(c, NoItem) /\ UnbrokenBut(c, {})
      /\ \A k : FreeRoom(c, k) = FreeRoom(h, k)
      /\ ~IsTail(c, i) /\ ~IsTail(c, next) /\ c \in ItemHeaps
  <2>1. Ring(c) /\ Items(c) = Items(h) /\ \A k : FreeRoom(c, k) = FreeRoom(h, k)
    BY <1>1, <1>4, CountedKeeps
  <2>2. Listed(c, NoItem)
    BY <1>1, <1>4, CountedKeeps
  <2>3. c.items = h.items
    BY <1>4 DEF IsCounted
  <2> QED BY <1>1, <1>3, <2>1, <2>2, <2>3 DEF UnbrokenBut, IsTail, Ring
<1>6. IsTakenIn(c, t, i)
  BY <1>1, <1>5, TakenInIs DEF t
<1>7. Ring(t) /\ Listed(t, NoItem)
  BY <1>1, <1>5, <1>6, TakenInKeeps
<1>8. /\ IsMerged(c, t, i) /\ i \in Items(t) /\ ~IsTail(t, i) /\ t.items[i].used
      /\ t.items[i].pool = m /\ t.items[i].next = h.items[next].next
  BY <1>1, <1>2, <1>5, <1>6 DEF IsTakenIn, IsMerged, IsTail, Ring, ItemLinked
<1>9. UnbrokenBut(t, {}) /\ t.items[t.items[i].next].used
  <2>1. UnbrokenBut(t, {} \ {i})
    BY <1>1, <1>2, <1>5, <1>8, MergedUnbroken
  <2>2. h.items[h.items[next].next].used /\ h.items[next].next \in Items(h)
        /\ h.items[next].next # next
    BY <1>1, <1>2 DEF UnbrokenBut, Ring, ItemLinked
  <2>3. {} \ {i} = {}
    OBVIOUS
  <2> QED BY <1>5, <1>8, <2>1, <2>2, <2>3 DEF IsMerged
<1>10. /\ Pools!MemItemSize(t, i) = s + RT_MEMHEAP_SIZE + z
       /\ \A k \in Pools!MemHeaps :
             /\ FreeRoom(c, k) \in Int /\ FreeRoom(t, k) \in Int
             /\ k # m => FreeRoom(t, k) = FreeRoom(c, k)
             /\ k = m => FreeRoom(t, k) = FreeRoom(c, k) - z
  <2>1. Pools!MemItemSize(c, i) = s /\ Pools!MemItemSize(c, next) = z
    BY <1>5 DEF Pools!MemItemSize, s, z
  <2> QED BY <1>1, <1>2, <1>3, <1>5, <1>6, <2>1, TakenInRoom
<1>11. n + RT_MEMHEAP_SIZE < Pools!MemItemSize(t, i)
  BY <1>2, <1>3, <1>10
<1>12. IsCutBehind(t, g, i, n)
  BY <1>7, <1>8, <1>11, CutBehindIs DEF g
<1>13. Ring(g) /\ Listed(g, NoItem)
  BY <1>7, <1>8, <1>11, <1>12, CutBehindKeeps
<1>14. UnbrokenBut(g, {})
  BY <1>7, <1>8, <1>9, <1>12, CutUnbroken
<1>15. ASSUME NEW k \in Pools!MemHeaps
       PROVE  /\ Pools!MemItemSize(g, i) = n /\ FreeRoom(g, k) \in Int
              /\ k # m => FreeRoom(g, k) = FreeRoom(t, k)
              /\ k = m => FreeRoom(g, k) = FreeRoom(t, k)
                            + Pools!MemItemSize(t, i) - n - RT_MEMHEAP_SIZE
  <2>1. NoItem \in Items(t) \cup {NoItem} /\ Ring(t) /\ Listed(t, NoItem)
    BY <1>7
  <2>2. m = t.items[i].pool /\ t.items[i].used
    BY <1>8
  <2>3. /\ Pools!MemItemSize(g, i) = n /\ FreeRoom(g, k) \in Int
        /\ k # t.items[i].pool => FreeRoom(g, k) = FreeRoom(t, k)
        /\ k = t.items[i].pool /\ t.items[i].used => FreeRoom(g, k) = FreeRoom(t, k)
                            + Pools!MemItemSize(t, i) - n - RT_MEMHEAP_SIZE
    BY <1>8, <1>11, <1>12, <2>1, CutBehindRoom
  <2> QED BY <2>2, <2>3
<1>16. ASSUME NEW k \in Pools!MemHeaps PROVE Off(g, k) = Off(h, k)
  <2>1. /\ h.available[k] \in Int
        /\ k # m => g.available[k] = h.available[k]
        /\ k = m => g.available[k] = h.available[k] + (s - n)
    BY <1>1, <1>4, <1>6, <1>12, HeapTyped DEF IsCounted, IsTakenIn, IsCutBehind
  <2>2. FreeRoom(c, k) = FreeRoom(h, k)
    BY <1>5
  <2> QED BY <1>3, <1>10, <1>15, <2>1, <2>2 DEF Off
<1>17. ASSUME NEW j \in Items(h) \ {i}, h.items[j].used PROVE Untouched(h, g, j)
  <2>1. j \in Items(t)
    BY <1>2, <1>5, <1>8, <1>17 DEF IsMerged
  <2>2. /\ t.items[j].used = h.items[j].used /\ t.items[j].pool = h.items[j].pool
        /\ t.items[j].next = h.items[j].next
    BY <1>5, <1>8, <1>17, <2>1 DEF IsMerged
  <2> QED BY <1>12, <1>17, <2>1, <2>2 DEF IsCutBehind, Untouched
<1>18. InHand(g, i)
  BY <1>8, <1>12 DEF IsCutBehind, InHand, IsTail
<1>19. ItemsOK(g)
  BY <1>13, <1>14, UnbrokenButNone DEF ItemsOK
<1>20. Pools!MemItemSize(g, i) = n
  BY <1>3, <1>15
<1> QED BY <1>16, <1>17, <1>18, <1>19, <1>20 DEF g, t, c, s

\* What ReallocShrinks makes of the memory heap of item i.
CutDown(h, i, n) ==
    LET new  == i + RT_MEMHEAP_SIZE + n
        m    == h.items[i].pool
        cut  == Pools!CutBehind(h, i, n)
        next == cut.items[new].next
        all  == IF cut.items[next].used THEN cut
                ELSE Pools!Counted(Pools!TakenIn(cut, new), m,
                                   0 - Pools!MemItemSize(cut, next))
    IN Pools!Counted(all, m, Pools!MemItemSize(all, new))

\* An item that shrinks leaves a free one, with what was free behind it.
LEMMA CutDownIs ==
    ASSUME Pools!MemHeapAssumption, NEW h, ItemsOK(h), NEW i, InHand(h, i),
           NEW n \in Nat \ {0}, n + RT_MEMHEAP_SIZE < Pools!MemItemSize(h, i)
    PROVE  LET g == CutDown(h, i, n)
           IN /\ ItemsOK(g) /\ InHand(g, i) /\ Pools!MemItemSize(g, i) = n
              /\ \A j \in Items(h) \ {i} : h.items[j].used => Untouched(h, g, j)
              /\ \A k \in Pools!MemHeaps : Off(g, k) = Off(h, k)
<1> DEFINE m == h.items[i].pool
           s == Pools!MemItemSize(h, i)
           e == h.items[i].next
           new == i + RT_MEMHEAP_SIZE + n
           c == Pools!CutBehind(h, i, n)
           z == Pools!MemItemSize(c, e)
           t == Pools!TakenIn(c, new)
           all == IF c.items[e].used THEN c ELSE Pools!Counted(t, m, 0 - z)
           w == Pools!MemItemSize(all, new)
           g == Pools!Counted(all, m, w)
<1>1. /\ Ring(h) /\ Listed(h, NoItem) /\ UnbrokenBut(h, {}) /\ h \in ItemHeaps
      /\ i \in Items(h) /\ h.items[i].used /\ ~IsTail(h, i)
  BY UnbrokenBut0 DEF ItemsOK, InHand, Ring
<1>2. /\ s \in Nat /\ m \in Pools!MemHeaps /\ RT_MEMHEAP_SIZE \in Nat
      /\ NoItem \in Items(h) \cup {NoItem} /\ e \in Items(h)
      /\ e \in Nat /\ i \in Nat /\ s = e - i - RT_MEMHEAP_SIZE
  BY <1>1, ItemFacts, PoolSizes
<1> HIDE DEF s, c, new
<1>3. IsCutBehind(h, c, i, n)
  BY <1>1, CutBehindIs DEF c
<1>4. Ring(c) /\ Listed(c, NoItem) /\ c \in ItemHeaps
  BY <1>1, <1>2, <1>3, CutBehindKeeps DEF Ring
<1>5. /\ Items(c) = Items(h) \cup {new} /\ new \notin Items(h)
      /\ ~c.items[new].used /\ c.items[new].next = e /\ c.items[new].pool = m
      /\ \A j \in Items(h) :
            /\ c.items[j].used = h.items[j].used /\ c.items[j].pool = h.items[j].pool
            /\ c.items[j].next = IF j = i THEN new ELSE h.items[j].next
      /\ c.available = h.available
  BY <1>3 DEF IsCutBehind, new
<1>6. UnbrokenBut(c, {new}) /\ (h.items[e].used => UnbrokenBut(c, {}))
  BY <1>1, <1>3, CutUnbroken DEF new
<1>7. ASSUME NEW k \in Pools!MemHeaps
      PROVE  /\ FreeRoom(h, k) \in Int /\ FreeRoom(c, k) \in Int
             /\ k # m => FreeRoom(c, k) = FreeRoom(h, k)
             /\ k = m => FreeRoom(c, k) = FreeRoom(h, k) + s - n - RT_MEMHEAP_SIZE
             /\ Pools!MemItemSize(c, i) = n
             /\ Pools!MemItemSize(c, new) = s - n - RT_MEMHEAP_SIZE
  BY <1>1, <1>2, <1>3, CutBehindRoom DEF s, new
<1>8. ~IsTail(c, new)
  BY <1>4, <1>5 DEF Ring, ItemLinked
<1>9. /\ Ring(all) /\ Listed(all, NoItem) /\ UnbrokenBut(all, {}) /\ w \in Int
      /\ InHand(all, i) /\ Pools!MemItemSize(all, i) = n
      /\ \A j \in Items(h) \ {i} : h.items[j].used => Untouched(h, all, j)
      /\ \A k \in Pools!MemHeaps : /\ all.available[k] \in Int /\ FreeRoom(all, k) \in Int
                                   /\ k # m => Off(all, k) = Off(h, k)
                                   /\ k = m => Off(all, k) = Off(h, k) - w
  <2>1. CASE c.items[e].used
    <3>1. all = c
      BY <2>1
    <3>2. UnbrokenBut(c, {})
      BY <1>2, <1>5, <1>6, <2>1
    <3>3. InHand(c, i)
      BY <1>1, <1>5 DEF InHand, IsTail
    <3>4. \A j \in Items(h) \ {i} : h.items[j].used => Untouched(h, c, j)
      BY <1>5 DEF Untouched
    <3>5. \A k \in Pools!MemHeaps : h.available[k] \in Int
      BY <1>1, HeapTyped
    <3>6. Pools!MemItemSize(c, i) = n /\ Pools!MemItemSize(c, new) = s - n - RT_MEMHEAP_SIZE
          /\ Pools!MemItemSize(c, new) \in Int
      BY <1>2, <1>7
    <3> HIDE DEF all
    <3>7. ASSUME NEW k \in Pools!MemHeaps
          PROVE  /\ c.available[k] \in Int /\ FreeRoom(c, k) \in Int
                 /\ k # m => Off(c, k) = Off(h, k)
                 /\ k = m => Off(c, k) = Off(h, k) - Pools!MemItemSize(c, new)
      BY <1>2, <1>5, <1>7, <3>5, <3>6 DEF Off
    <3> QED BY <1>4, <3>1, <3>2, <3>3, <3>4, <3>6, <3>7
  <2>2. CASE ~c.items[e].used
    <3>1. all = Pools!Counted(t, m, 0 - z)
      BY <2>2
    <3>2. ~IsTail(c, e) /\ e \in Items(c)
      BY <1>2, <1>4, <1>5, <2>2 DEF Ring, ItemLinked
    <3>3. IsTakenIn(c, t, new)
      BY <1>4, <1>5, <1>8, <3>2, TakenInIs
    <3>4. z \in Int
      BY <1>4, <3>2, ItemFacts
    <3> HIDE DEF t, all, z
    <3>5. Ring(t) /\ Listed(t, NoItem) /\ t \in ItemHeaps
      BY <1>4, <1>5, <1>8, <3>2, <3>3, TakenInKeeps DEF Ring
    <3>6. IsMerged(c, t, new)
      BY <3>3 DEF IsTakenIn, IsMerged
    <3>7. UnbrokenBut(t, {})
      <4>1. UnbrokenBut(t, {new} \ {new})
        BY <1>2, <1>4, <1>5, <1>6, <2>2, <3>6, MergedUnbroken
      <4>2. {new} \ {new} = {}
        OBVIOUS
      <4> QED BY <4>1, <4>2
    <3>8. ASSUME NEW k \in Pools!MemHeaps
          PROVE  /\ FreeRoom(t, k) \in Int
                 /\ k # m => FreeRoom(t, k) = FreeRoom(c, k)
                 /\ k = m => FreeRoom(t, k) = FreeRoom(c, k) + RT_MEMHEAP_SIZE
                 /\ Pools!MemItemSize(t, new) = Pools!MemItemSize(c, new)
                                                  + RT_MEMHEAP_SIZE + z
      BY <1>4, <1>5, <1>8, <2>2, <3>2, <3>3, TakenInRoom DEF z
    <3>9. IsCounted(t, all, m, 0 - z)
      BY <1>2, <3>1, <3>4, <3>5, CountedIs
    <3>10. /\ Ring(all) /\ Listed(all, NoItem) /\ all.items = t.items /\ Items(all) = Items(t)
           /\ \A k : FreeRoom(all, k) = FreeRoom(t, k)
           /\ \A j : Pools!MemItemSize(all, j) = Pools!MemItemSize(t, j)
      <4>1. /\ Ring(all) /\ Items(all) = Items(t) /\ \A k : FreeRoom(all, k) = FreeRoom(t, k)
            /\ \A j : Pools!MemItemSize(all, j) = Pools!MemItemSize(t, j)
        BY <3>5, <3>9, CountedKeeps
      <4>2. Listed(all, NoItem)
        BY <3>5, <3>9, CountedKeeps
      <4>3. all.items = t.items
        BY <3>9 DEF IsCounted
      <4> QED BY <4>1, <4>2, <4>3
    <3>11. UnbrokenBut(all, {})
      BY <3>7, <3>10 DEF UnbrokenBut
    <3>12. /\ Items(t) = Items(c) \ {e}
           /\ \A j \in Items(t) :
                 /\ t.items[j].used = c.items[j].used /\ t.items[j].pool = c.items[j].pool
                 /\ j # new => t.items[j].next = c.items[j].next
      BY <1>5, <3>6 DEF IsMerged
    <3>13. i \in Items(t) /\ i # new
      BY <1>1, <1>5, <2>2, <3>12
    <3>14. InHand(all, i)
      BY <1>1, <1>5, <3>10, <3>12, <3>13 DEF InHand, IsTail
    <3>15. Pools!MemItemSize(all, i) = n
      BY <1>2, <1>7, <3>10, <3>12, <3>13 DEF Pools!MemItemSize
    <3>16. ASSUME NEW j \in Items(h) \ {i}, h.items[j].used PROVE Untouched(h, all, j)
      <4>1. /\ j \in Items(c) /\ j # new /\ c.items[j].used = h.items[j].used
            /\ c.items[j].next = h.items[j].next /\ c.items[j].pool = h.items[j].pool
        BY <1>5, <3>16
      <4>2. j \in Items(t)
        BY <2>2, <3>12, <3>16, <4>1
      <4> QED BY <3>10, <3>12, <4>1, <4>2 DEF Untouched
    <3>17. w = s - n + z /\ w \in Int
      BY <1>2, <1>7, <3>4, <3>8, <3>10
    <3>18. ASSUME NEW k \in Pools!MemHeaps
           PROVE  /\ all.available[k] \in Int /\ FreeRoom(all, k) \in Int
                  /\ k # m => Off(all, k) = Off(h, k)
                  /\ k = m => Off(all, k) = Off(h, k) - w
      <4>1. /\ h.available[k] \in Int
            /\ k # m => all.available[k] = h.available[k]
            /\ k = m => all.available[k] = h.available[k] + (0 - z)
        BY <1>1, <1>5, <3>3, <3>9, HeapTyped DEF IsTakenIn, IsCounted
      <4>2. FreeRoom(all, k) = FreeRoom(t, k)
        BY <3>10
      <4> HIDE DEF w
      <4> QED BY <1>2, <1>7, <3>4, <3>8, <3>17, <4>1, <4>2 DEF Off
    <3> QED BY <3>10, <3>11, <3>14, <3>15, <3>16, <3>17, <3>18
  <2> QED BY <2>1, <2>2
<1>10. g = CutDown(h, i, n)
  BY <1>5 DEF CutDown, c, new
<1> HIDE DEF all, w, g
<1>11. IsCounted(all, g, m, w)
  BY <1>2, <1>9, CountedIs DEF Ring, g
<1>12. /\ Ring(g) /\ Listed(g, NoItem) /\ g.items = all.items /\ Items(g) = Items(all)
       /\ \A k : FreeRoom(g, k) = FreeRoom(all, k)
       /\ \A j : Pools!MemItemSize(g, j) = Pools!MemItemSize(all, j)
  <2>1. /\ Ring(g) /\ Items(g) = Items(all) /\ \A k : FreeRoom(g, k) = FreeRoom(all, k)
        /\ \A j : Pools!MemItemSize(g, j) = Pools!MemItemSize(all, j)
    BY <1>9, <1>11, CountedKeeps
  <2>2. Listed(g, NoItem)
    BY <1>9, <1>11, CountedKeeps
  <2>3. g.items = all.items
    BY <1>11 DEF IsCounted
  <2> QED BY <2>1, <2>2, <2>3
<1>13. ItemsOK(g)
  <2>1. UnbrokenBut(g, {})
    BY <1>9, <1>12 DEF UnbrokenBut
  <2> QED BY <1>12, <2>1, UnbrokenButNone DEF ItemsOK
<1>14. InHand(g, i) /\ Pools!MemItemSize(g, i) = n
  BY <1>9, <1>12 DEF InHand, IsTail
<1>15. \A j \in Items(h) \ {i} : h.items[j].used => Untouched(h, g, j)
  BY <1>9, <1>12 DEF Untouched
<1>16. ASSUME NEW k \in Pools!MemHeaps PROVE Off(g, k) = Off(h, k)
  <2>1. /\ all.available[k] \in Int /\ FreeRoom(all, k) \in Int /\ w \in Int
        /\ k # m => Off(all, k) = Off(h, k)
        /\ k = m => Off(all, k) = Off(h, k) - w
    BY <1>9
  <2>2. /\ k # m => g.available[k] = all.available[k]
        /\ k = m => g.available[k] = all.available[k] + w
    BY <1>11 DEF IsCounted
  <2>3. FreeRoom(g, k) = FreeRoom(all, k)
    BY <1>12
  <2>4. h.available[k] \in Int /\ FreeRoom(h, k) \in Int
    BY <1>1, <1>7, HeapTyped
  <2> QED BY <2>1, <2>2, <2>3, <2>4 DEF Off
<1> QED BY <1>10, <1>13, <1>14, <1>15, <1>16

-----------------------------------------------------------------------------
(* The calls of the threads on the memory heaps.                           *)

\* Where a thread may be in a call, and its locals.
PoolLabels == {"ready", "alloc", "ownalloc", "copied", "free", "grow", "shrink"}

PoolTypes ==
    /\ pc \in [Threads -> PoolLabels] /\ size \in [Threads -> Nat]
    /\ ptr \in [Threads -> Int] /\ old \in [Threads -> Int]

\* An area is in an item in use; one that rt_memheap_free is about to free is no
\* caller's; and no size that was read without the lock is out of date.
AskOK(t) ==
    /\ pc[t] \in {"ready", "free"} => old[t] = Pools!NoBlock
    /\ pc[t] \in {"ownalloc", "copied", "grow", "shrink"} => old[t] # Pools!NoBlock
    /\ old[t] # Pools!NoBlock => old[t] \in DOMAIN given
    /\ pc[t] \in {"alloc", "ownalloc", "grow", "shrink"} => size[t] > 0
    /\ pc[t] = "alloc" => ptr[t] \in Pools!MemHeaps
    /\ pc[t] = "shrink" => size[t] + RT_MEMHEAP_SIZE + RT_MEMHEAP_MINIALLOC
                             < Pools!MemItemSize(heap, old[t] - RT_MEMHEAP_SIZE)
    /\ pc[t] = "free" => /\ InHand(heap, ptr[t])
                         /\ ptr[t] + RT_MEMHEAP_SIZE \notin DOMAIN given

\* An area is inside an item in use.
AreaOK(a) ==
    /\ a \in Nat /\ given[a] \in Nat \ {0} /\ InHand(heap, a - RT_MEMHEAP_SIZE)
    /\ given[a] <= Pools!MemItemSize(heap, a - RT_MEMHEAP_SIZE)

\* No two calls work on one area, or free one item.
AsksApart ==
    \A t, u \in Threads : t # u =>
        /\ old[t] = old[u] => old[t] = Pools!NoBlock
        /\ pc[t] = "free" /\ pc[u] = "free" => ptr[t] # ptr[u]

\* The inductive invariant.
PoolInv ==
    /\ PoolTypes /\ app \in Applications /\ ItemsOK(heap)
    /\ \A a \in DOMAIN given : AreaOK(a)
    /\ \A t \in Threads : AskOK(t)
    /\ AsksApart

\* What is free of memory heap m is what it counts.
PoolExact == \A m \in Pools!MemHeaps : Off(heap, m) = 0

\* What the step of another thread leaves of an area, and of a call.
LEMMA AreaKept ==
    ASSUME NEW a, AreaOK(a), Untouched(heap, heap', a - RT_MEMHEAP_SIZE), given'[a] = given[a]
    PROVE  AreaOK(a)'
<1>1. /\ InHand(heap, a - RT_MEMHEAP_SIZE)'
      /\ Pools!MemItemSize(heap, a - RT_MEMHEAP_SIZE)'
           = Pools!MemItemSize(heap, a - RT_MEMHEAP_SIZE)
  BY UntouchedKeeps DEF AreaOK
<1> QED BY <1>1 DEF AreaOK

LEMMA AskKept ==
    ASSUME NEW u, AskOK(u),
           pc'[u] = pc[u], size'[u] = size[u], ptr'[u] = ptr[u], old'[u] = old[u],
           old[u] # Pools!NoBlock => /\ old[u] \in DOMAIN given'
                                     /\ AreaOK(old[u])
                                     /\ Untouched(heap, heap', old[u] - RT_MEMHEAP_SIZE),
           pc[u] = "free" => /\ Untouched(heap, heap', ptr[u])
                             /\ ptr[u] + RT_MEMHEAP_SIZE \notin DOMAIN given'
    PROVE  AskOK(u)'
<1>1. ASSUME pc[u] = "shrink"
      PROVE  Pools!MemItemSize(heap', old[u] - RT_MEMHEAP_SIZE)
               = Pools!MemItemSize(heap, old[u] - RT_MEMHEAP_SIZE)
  BY <1>1, UntouchedKeeps DEF AskOK, AreaOK
<1>2. ASSUME pc[u] = "free" PROVE InHand(heap', ptr[u])
  BY <1>2, UntouchedKeeps DEF AskOK
<1> QED BY <1>1, <1>2 DEF AskOK

-----------------------------------------------------------------------------
(* Steps that leave the items alone.                                       *)

\* At first each memory heap is one free item and its tail.
LEMMA PoolInit == ASSUME Pools!MemHeapAssumption, Pools!Init PROVE PoolInv /\ PoolExact
<1> DEFINE S == {start_addr[m] : m \in Pools!MemHeaps}
           T == {Pools!TailOf(m) : m \in Pools!MemHeaps}
           h == heap
<1>1. /\ RT_MEMHEAP_SIZE \in Nat \ {0}
      /\ \A m \in Pools!MemHeaps :
            /\ start_addr[m] \in Nat /\ pool_size[m] \in Nat /\ Pools!TailOf(m) \in Nat
            /\ Pools!TailOf(m) = start_addr[m] + pool_size[m] - RT_MEMHEAP_SIZE
            /\ start_addr[m] + RT_MEMHEAP_SIZE < Pools!TailOf(m)
      /\ \A m, n \in Pools!MemHeaps : \/ m = n
                               \/ start_addr[m] + pool_size[m] <= start_addr[n]
                               \/ start_addr[n] + pool_size[n] <= start_addr[m]
  BY PoolSizes DEF Pools!MemHeapAssumption
<1>2. \A m, n \in Pools!MemHeaps :
         /\ start_addr[m] # Pools!TailOf(n)
         /\ m # n => start_addr[m] # start_addr[n] /\ Pools!TailOf(m) # Pools!TailOf(n)
  BY <1>1
<1>3. /\ Items(h) = S \cup T
      /\ \A m \in Pools!MemHeaps :
            /\ h.items[start_addr[m]] = Pools!Item(FALSE, Pools!TailOf(m), Pools!TailOf(m), m)
            /\ h.items[Pools!TailOf(m)] = Pools!Item(TRUE, start_addr[m], start_addr[m], m)
            /\ h.free[m] = <<start_addr[m]>>
            /\ h.available[m] = pool_size[m] - 2 * RT_MEMHEAP_SIZE
      /\ h.free \in [Pools!MemHeaps -> Seq(Nat)] /\ h.available \in [Pools!MemHeaps -> Int]
      /\ h = [items |-> h.items, free |-> h.free, available |-> h.available]
      /\ h.items = [i \in S \cup T |-> h.items[i]]
  <2> DEFINE who(i) == CHOOSE n \in Pools!MemHeaps : i \in {start_addr[n], Pools!TailOf(n)}
             f == [i \in S \cup T |->
                     IF i = Pools!TailOf(who(i))
                     THEN Pools!Item(TRUE, start_addr[who(i)], start_addr[who(i)], who(i))
                     ELSE Pools!Item(FALSE, Pools!TailOf(who(i)), Pools!TailOf(who(i)),
                                     who(i))]
             l == [m \in Pools!MemHeaps |-> <<start_addr[m]>>]
             v == [m \in Pools!MemHeaps |-> pool_size[m] - 2 * RT_MEMHEAP_SIZE]
  <2>1. h = [items |-> f, free |-> l, available |-> v]
    BY DEF Pools!Init
  <2>2. h.items = f /\ h.free = l /\ h.available = v
    BY <2>1
  <2>3. ASSUME NEW m \in Pools!MemHeaps
        PROVE  /\ who(start_addr[m]) = m /\ who(Pools!TailOf(m)) = m
    BY <1>2
  <2> HIDE DEF who
  <2>4. ASSUME NEW m \in Pools!MemHeaps
        PROVE  /\ f[start_addr[m]] = Pools!Item(FALSE, Pools!TailOf(m), Pools!TailOf(m), m)
               /\ f[Pools!TailOf(m)] = Pools!Item(TRUE, start_addr[m], start_addr[m], m)
    BY <1>2, <2>3
  <2>5. l \in [Pools!MemHeaps -> Seq(Nat)] /\ v \in [Pools!MemHeaps -> Int]
    BY <1>1
  <2>6. h.items = [i \in S \cup T |-> h.items[i]] /\ Items(h) = S \cup T
    BY <2>2 DEF Items
  <2> HIDE DEF f
  <2> QED BY <2>1, <2>2, <2>4, <2>5, <2>6
<1> HIDE DEF h
<1>4. /\ \A i \in Items(h) : \E m \in Pools!MemHeaps : i = start_addr[m] \/ i = Pools!TailOf(m)
      /\ \A m \in Pools!MemHeaps : start_addr[m] \in Items(h) /\ Pools!TailOf(m) \in Items(h)
  BY <1>3
<1>5. ASSUME NEW m \in Pools!MemHeaps
      PROVE  /\ h.items[start_addr[m]] = [used |-> FALSE, next |-> Pools!TailOf(m),
                                          prev |-> Pools!TailOf(m), pool |-> m]
             /\ h.items[Pools!TailOf(m)] = [used |-> TRUE, next |-> start_addr[m],
                                            prev |-> start_addr[m], pool |-> m]
  BY <1>3 DEF Pools!Item
<1>6. ASSUME NEW m \in Pools!MemHeaps
      PROVE  /\ ~h.items[start_addr[m]].used /\ h.items[start_addr[m]].pool = m
             /\ h.items[start_addr[m]].next = Pools!TailOf(m)
             /\ h.items[start_addr[m]].prev = Pools!TailOf(m)
             /\ h.items[Pools!TailOf(m)].used /\ h.items[Pools!TailOf(m)].pool = m
             /\ h.items[Pools!TailOf(m)].next = start_addr[m]
             /\ h.items[Pools!TailOf(m)].prev = start_addr[m]
  <2> DEFINE e == Pools!TailOf(m)
  <2>1. h.items[start_addr[m]] = [used |-> FALSE, next |-> e, prev |-> e, pool |-> m]
    BY <1>5
  <2>2. h.items[e] = [used |-> TRUE, next |-> start_addr[m], prev |-> start_addr[m],
                      pool |-> m]
    BY <1>5
  <2> HIDE DEF S, T, e
  <2>3. /\ ~h.items[start_addr[m]].used /\ h.items[start_addr[m]].pool = m
        /\ h.items[start_addr[m]].next = e /\ h.items[start_addr[m]].prev = e
    BY <2>1
  <2>4. /\ h.items[e].used /\ h.items[e].pool = m
        /\ h.items[e].next = start_addr[m] /\ h.items[e].prev = start_addr[m]
    BY <2>2
  <2> QED BY <2>3, <2>4 DEF e
<1>7. h \in ItemHeaps
  <2>1. ASSUME NEW i \in Items(h) PROVE h.items[i] \in ItemRecs /\ i \in Nat
    <3>1. PICK m \in Pools!MemHeaps : i = start_addr[m] \/ i = Pools!TailOf(m)
      BY <1>4
    <3>2. start_addr[m] \in Nat /\ Pools!TailOf(m) \in Nat
      BY <1>1
    <3>3. CASE i = start_addr[m]
      <4>1. PICK e : e = Pools!TailOf(m)
        OBVIOUS
      <4>2. h.items[i] = [used |-> FALSE, next |-> e, prev |-> e, pool |-> m]
        BY <1>5, <3>3, <4>1
      <4>3. e \in Nat
        BY <3>2, <4>1
      <4> QED BY <3>2, <3>3, <4>2, <4>3 DEF ItemRecs
    <3>4. CASE i = Pools!TailOf(m)
      <4>1. PICK e : e = start_addr[m]
        OBVIOUS
      <4>2. h.items[i] = [used |-> TRUE, next |-> e, prev |-> e, pool |-> m]
        BY <1>5, <3>4, <4>1
      <4>3. e \in Nat
        BY <3>2, <4>1
      <4> QED BY <3>2, <3>4, <4>2, <4>3 DEF ItemRecs
    <3> QED BY <3>1, <3>3, <3>4
  <2>2. h.items = [i \in Items(h) |-> h.items[i]]
    BY <1>3
  <2>3. Items(h) \in SUBSET Nat /\ h.items \in [Items(h) -> ItemRecs]
    BY <2>1, <2>2
  <2>4. /\ h = [items |-> h.items, free |-> h.free, available |-> h.available]
        /\ h.free \in [Pools!MemHeaps -> Seq(Nat)] /\ h.available \in [Pools!MemHeaps -> Int]
    BY <1>3
  <2> QED BY <2>3, <2>4, TypedHeap
<1>8. Ring(h)
  <2> SUFFICES ASSUME NEW i \in Items(h) PROVE ItemLinked(h, i)
    BY <1>7 DEF Ring
  <2>1. PICK m \in Pools!MemHeaps : i = start_addr[m] \/ i = Pools!TailOf(m)
    BY <1>4
  <2>2. CASE i = start_addr[m]
    <3>1. ASSUME NEW j \in Items(h) PROVE j <= i \/ Pools!TailOf(m) <= j
      <4>1. PICK k \in Pools!MemHeaps : j = start_addr[k] \/ j = Pools!TailOf(k)
        BY <1>4
      <4> QED BY <1>1, <2>2, <4>1
    <3> QED BY <1>1, <1>4, <1>6, <2>2, <3>1 DEF ItemLinked, IsTail
  <2>3. CASE i = Pools!TailOf(m)
    BY <1>1, <1>4, <1>6, <2>3 DEF ItemLinked, IsTail
  <2> QED BY <2>1, <2>2, <2>3
<1>9. ASSUME NEW m \in Pools!MemHeaps
      PROVE  FreeItems(h, m) = {start_addr[m]}
  BY <1>4, <1>6 DEF FreeItems
<1>10. Listed(h, NoItem)
  <2> SUFFICES ASSUME NEW m \in Pools!MemHeaps
               PROVE  /\ Distinct(h.free[m])
                      /\ Elements(h.free[m]) = {i \in Items(h) : h.items[i].pool = m
                                               /\ ~h.items[i].used /\ i # NoItem}
    BY DEF Listed
  <2>1. {i \in Items(h) : h.items[i].pool = m /\ ~h.items[i].used /\ i # NoItem}
           = FreeItems(h, m)
    BY <1>7, HeapTyped DEF FreeItems, NoItem
  <2>2. Distinct(<<start_addr[m]>>) /\ Elements(<<start_addr[m]>>) = {start_addr[m]}
    BY DEF Distinct, Elements
  <2>3. h.free[m] = <<start_addr[m]>>
    BY <1>3
  <2> QED BY <1>9, <2>1, <2>2, <2>3
<1>11. Unbroken(h, NoItem)
  <2> SUFFICES ASSUME NEW i \in Items(h), ~h.items[i].used
               PROVE  h.items[h.items[i].next].used
    BY DEF Unbroken
  <2>1. PICK m \in Pools!MemHeaps : i = start_addr[m] \/ i = Pools!TailOf(m)
    BY <1>4
  <2> QED BY <1>6, <2>1
<1>12. ASSUME NEW m \in Pools!MemHeaps PROVE Off(h, m) = 0
  <2>1. /\ Weight(Rooms(h), FreeItems(h, m) \ {start_addr[m]}) \in Int
        /\ Weight(Rooms(h), FreeItems(h, m))
             = Weight(Rooms(h), FreeItems(h, m) \ {start_addr[m]})
                 + Pools!MemItemSize(h, start_addr[m])
    <3>1. start_addr[m] \in FreeItems(h, m) /\ FreeItems(h, m) \in SUBSET FreeItems(h, m)
      BY <1>9
    <3> QED BY <1>7, <1>10, <3>1, RoomWithout
  <2>2. FreeItems(h, m) \ {start_addr[m]} = {}
    BY <1>9
  <2>3. Weight(Rooms(h), {}) = 0
    <3>1. PICK S0 : S0 = {}
      OBVIOUS
    <3>2. IsFiniteSet(S0) /\ Whole(Rooms(h), S0)
      BY <3>1, FS_EmptySet DEF Whole
    <3>3. PICK F : Computes(F, Rooms(h), S0) /\ Weight(Rooms(h), S0) = F[S0]
      BY <3>2, WeightIs
    <3> QED BY <3>1, <3>3 DEF Computes, Sums
  <2>4. Pools!MemItemSize(h, start_addr[m]) = pool_size[m] - 2 * RT_MEMHEAP_SIZE
    BY <1>1, <1>6 DEF Pools!MemItemSize
  <2>5. h.available[m] = pool_size[m] - 2 * RT_MEMHEAP_SIZE /\ h.available[m] \in Int
    BY <1>1, <1>3
  <2>6. FreeRoom(h, m) = pool_size[m] - 2 * RT_MEMHEAP_SIZE
    <3>1. Weight(Rooms(h), FreeItems(h, m) \ {start_addr[m]}) = 0
      BY <2>2, <2>3
    <3>2. pool_size[m] - 2 * RT_MEMHEAP_SIZE \in Int
      BY <1>1
    <3> QED BY <2>1, <2>4, <3>1, <3>2 DEF FreeRoom
  <2> QED BY <2>5, <2>6 DEF Off
<1>13. /\ app \in Applications /\ DOMAIN given = {}
       /\ pc = [t \in Threads |-> "ready"] /\ size = [t \in Threads |-> 0]
       /\ ptr = [t \in Threads |-> Pools!NoBlock] /\ old = [t \in Threads |-> Pools!NoBlock]
       /\ Pools!NoBlock \in Int
  BY DEF Pools!Init, Pools!CallsInit, Pools!NoBlock
<1>14. PoolTypes /\ (\A t \in Threads : AskOK(t)) /\ AsksApart
  BY <1>13 DEF PoolTypes, PoolLabels, AskOK, AsksApart
<1> QED BY <1>8, <1>10, <1>11, <1>12, <1>13, <1>14 DEF PoolInv, PoolExact, ItemsOK, h

\* A step of t on the item x, or on none, keeps the invariant if what it makes of its own
\* call, of its area and of x is in order, and the others have nothing in x.
LEMMA PoolStep ==
    ASSUME PoolInv, NEW t \in Threads, NEW x, app' = app, PoolTypes', ItemsOK(heap'),
           \A j \in Items(heap) \ {x} : heap.items[j].used => Untouched(heap, heap', j),
           \A u \in Threads \ {t} :
              /\ pc'[u] = pc[u] /\ size'[u] = size[u] /\ ptr'[u] = ptr[u] /\ old'[u] = old[u]
              /\ old[u] # Pools!NoBlock => /\ old[u] \in DOMAIN given' /\ old[u] # old'[t]
                                           /\ old[u] - RT_MEMHEAP_SIZE # x
              /\ pc[u] = "free" => /\ ptr[u] + RT_MEMHEAP_SIZE \notin DOMAIN given'
                                   /\ ptr[u] # x
                                   /\ pc'[t] = "free" => ptr[u] # ptr'[t],
           \A a \in DOMAIN given' :
              AreaOK(a)' \/ /\ a \in DOMAIN given /\ given'[a] = given[a]
                            /\ a - RT_MEMHEAP_SIZE # x,
           AskOK(t)'
    PROVE  PoolInv'
<1>1. \A a \in DOMAIN given : AreaOK(a)
  BY DEF PoolInv
<1>2. ASSUME NEW a \in DOMAIN given, a - RT_MEMHEAP_SIZE # x
      PROVE  Untouched(heap, heap', a - RT_MEMHEAP_SIZE)
  BY <1>1, <1>2 DEF AreaOK, InHand
<1>3. ASSUME NEW a \in DOMAIN given' PROVE AreaOK(a)'
  BY <1>1, <1>2, AreaKept
<1>4. ASSUME NEW u \in Threads PROVE AskOK(u)'
  <2>1. CASE u = t
    BY <2>1
  <2>2. CASE u # t
    <3>1. AskOK(u)
      BY DEF PoolInv
    <3>2. old[u] # Pools!NoBlock => /\ old[u] \in DOMAIN given' /\ AreaOK(old[u])
                                    /\ Untouched(heap, heap', old[u] - RT_MEMHEAP_SIZE)
      BY <1>1, <1>2, <2>2, <3>1 DEF AskOK
    <3>3. pc[u] = "free" => /\ Untouched(heap, heap', ptr[u])
                            /\ ptr[u] + RT_MEMHEAP_SIZE \notin DOMAIN given'
      BY <2>2, <3>1 DEF AskOK, InHand
    <3>4. pc'[u] = pc[u] /\ size'[u] = size[u] /\ ptr'[u] = ptr[u] /\ old'[u] = old[u]
      BY <2>2
    <3> QED BY <3>1, <3>2, <3>3, <3>4, AskKept
  <2> QED BY <2>1, <2>2
<1>5. AsksApart'
  <2> SUFFICES ASSUME NEW u \in Threads, NEW v \in Threads, u # v
               PROVE  /\ old'[u] = old'[v] => old'[u] = Pools!NoBlock
                      /\ pc'[u] = "free" /\ pc'[v] = "free" => ptr'[u] # ptr'[v]
    BY DEF AsksApart, Pools!NoBlock
  <2>1. CASE u # t /\ v # t
    BY <2>1 DEF PoolInv, AsksApart
  <2>2. CASE u = t \/ v = t
    BY <2>2
  <2> QED BY <2>1, <2>2
<1> QED BY <1>3, <1>4, <1>5 DEF PoolInv

\* What an area says of its item, and who else may have it.
LEMMA PoolArea ==
    ASSUME Pools!MemHeapAssumption, PoolInv, NEW a \in DOMAIN given
    PROVE  /\ a \in Nat /\ given[a] \in Nat \ {0}
           /\ InHand(heap, a - RT_MEMHEAP_SIZE) /\ a - RT_MEMHEAP_SIZE \in Nat
           /\ a - RT_MEMHEAP_SIZE + RT_MEMHEAP_SIZE = a
           /\ given[a] <= Pools!MemItemSize(heap, a - RT_MEMHEAP_SIZE)
           /\ \A b \in DOMAIN given :
                 b - RT_MEMHEAP_SIZE = a - RT_MEMHEAP_SIZE => b = a
           /\ \A u \in Threads : pc[u] = "free" => ptr[u] # a - RT_MEMHEAP_SIZE
           /\ heap.items[a - RT_MEMHEAP_SIZE].pool \in Pools!MemHeaps
<1>1. \A b \in DOMAIN given : AreaOK(b)
  BY DEF PoolInv
<1>2. RT_MEMHEAP_SIZE \in Nat
  BY PoolSizes
<1>3. /\ \A b \in DOMAIN given : b \in Nat
      /\ given[a] \in Nat \ {0} /\ InHand(heap, a - RT_MEMHEAP_SIZE)
      /\ given[a] <= Pools!MemItemSize(heap, a - RT_MEMHEAP_SIZE)
  BY <1>1 DEF AreaOK
<1>4. a - RT_MEMHEAP_SIZE \in Nat /\ heap.items[a - RT_MEMHEAP_SIZE].pool \in Pools!MemHeaps
  BY <1>3, HeapTyped DEF PoolInv, ItemsOK, Ring, InHand
<1>5. a - RT_MEMHEAP_SIZE + RT_MEMHEAP_SIZE = a
      /\ \A b \in DOMAIN given : b - RT_MEMHEAP_SIZE = a - RT_MEMHEAP_SIZE => b = a
  BY <1>2, <1>3
<1>6. ASSUME NEW u \in Threads, pc[u] = "free" PROVE ptr[u] # a - RT_MEMHEAP_SIZE
  <2>1. AskOK(u)
    BY DEF PoolInv
  <2> QED BY <1>5, <1>6, <2>1 DEF AskOK
<1> QED BY <1>3, <1>4, <1>5, <1>6

\* A step that only changes where t is.
LEMMA PoolLocal ==
    ASSUME Pools!MemHeapAssumption, PoolInv, NEW t \in Threads, app' = app, heap' = heap,
           given' = given, PoolTypes',
           \A u \in Threads \ {t} :
              /\ pc'[u] = pc[u] /\ size'[u] = size[u] /\ ptr'[u] = ptr[u] /\ old'[u] = old[u]
              /\ old[u] # Pools!NoBlock => old[u] # old'[t],
           pc'[t] # "free", AskOK(t)'
    PROVE  PoolInv'
<1>1. ItemsOK(heap) /\ \A j \in Items(heap) : Untouched(heap, heap, j)
  BY DEF PoolInv, Untouched
<1>2. \A u \in Threads : AskOK(u)
  BY DEF PoolInv
<1>3. \A a \in DOMAIN given : a - RT_MEMHEAP_SIZE # NoItem
  BY PoolArea DEF NoItem
<1>4. \A u \in Threads : pc[u] = "free" => ptr[u] # NoItem
                                            /\ ptr[u] + RT_MEMHEAP_SIZE \notin DOMAIN given
  BY <1>1, <1>2, HeapTyped DEF AskOK, InHand, NoItem, ItemsOK, Ring
<1>5. \A u \in Threads : old[u] # Pools!NoBlock => old[u] \in DOMAIN given
  BY <1>2 DEF AskOK
<1> QED BY <1>1, <1>3, <1>4, <1>5, PoolStep

\* A thread takes the lock of a memory heap, or waits for it.
LEMMA PoolTakeKeeps ==
    ASSUME Pools!MemHeapAssumption, PoolInv, NEW t \in Threads, NEW m \in Pools!MemHeaps,
           Pools!Take(t, m), app' = app
    PROVE  PoolInv' /\ heap' = heap
<1>1. /\ heap' = heap /\ pc' = pc /\ size' = size /\ ptr' = ptr /\ old' = old
      /\ given' = given
  BY DEF Pools!Take
<1>2. AskOK(t) /\ PoolTypes /\ AsksApart
  BY DEF PoolInv
<1> QED BY <1>1, <1>2 DEF PoolInv, PoolTypes, AskOK, AreaOK, AsksApart

\* A call asks the first memory heap ...
LEMMA PoolMallocCallKeeps ==
    ASSUME Pools!MemHeapAssumption, PoolInv, NEW t \in Threads, NEW n \in Nat \ {0},
           Pools!MallocCall(t, n), app' = app
    PROVE  PoolInv' /\ heap' = heap
<1> DEFINE k == Pools!AtLeastMin(Pools!Aligned(n))
<1>1. /\ pc[t] = "ready" /\ heap' = heap /\ given' = given /\ old' = old
      /\ size' = [size EXCEPT ![t] = k] /\ ptr' = [ptr EXCEPT ![t] = Pools!System]
      /\ pc' = [pc EXCEPT ![t] = "alloc"]
  BY DEF Pools!MallocCall, Pools!Ready, Pools!Goto
<1>2. k \in Nat \ {0}
  BY AlignedIsLarger, PoolSizes DEF Pools!AtLeastMin, Pools!Aligned, Small!Aligned,
     Pools!Up, Small!Up
<1>3. Pools!System \in Pools!MemHeaps /\ Pools!System \in Int
  BY DEF Pools!MemHeapAssumption, Pools!System
<1> HIDE DEF k
<1>4. AskOK(t) /\ PoolTypes /\ AsksApart
  BY DEF PoolInv
<1>5. PoolTypes'
  BY <1>1, <1>2, <1>3, <1>4 DEF PoolTypes, PoolLabels
<1>6. pc'[t] = "alloc" /\ size'[t] = k /\ ptr'[t] = Pools!System /\ old'[t] = old[t]
  BY <1>1, <1>4 DEF PoolTypes
<1>7. AskOK(t)'
  BY <1>1, <1>2, <1>3, <1>4, <1>6 DEF AskOK
<1>8. \A u \in Threads \ {t} :
         /\ pc'[u] = pc[u] /\ size'[u] = size[u] /\ ptr'[u] = ptr[u] /\ old'[u] = old[u]
         /\ old[u] # Pools!NoBlock => old[u] # old'[t]
  BY <1>1, <1>4, <1>6 DEF PoolTypes, AsksApart
<1> QED BY <1>1, <1>5, <1>6, <1>7, <1>8, PoolLocal

\* ... or, when it has nothing for it, the next memory heap.
LEMMA AskNextKeeps ==
    ASSUME Pools!MemHeapAssumption, PoolInv, NEW t \in Threads, NEW m \in Pools!MemHeaps,
           Pools!AskNext(t, m), app' = app
    PROVE  PoolInv' /\ heap' = heap
<1>1. /\ pc[t] \in {"alloc", "ownalloc"} /\ heap' = heap /\ given' = given
      /\ IF pc[t] = "ownalloc" \/ m + 1 \in Pools!MemHeaps
         THEN /\ ptr' = [ptr EXCEPT ![t] = IF pc[t] = "ownalloc" THEN Pools!System ELSE m + 1]
              /\ pc' = [pc EXCEPT ![t] = "alloc"] /\ size' = size /\ old' = old
         ELSE /\ pc' = [pc EXCEPT ![t] = "ready"] /\ size' = [size EXCEPT ![t] = 0]
              /\ ptr' = [ptr EXCEPT ![t] = Pools!NoBlock]
              /\ old' = [old EXCEPT ![t] = Pools!NoBlock]
  BY DEF Pools!AskNext, Pools!At, Pools!Goto, Pools!Leave
<1>2. AskOK(t) /\ PoolTypes /\ AsksApart
  BY DEF PoolInv
<1>3. Pools!System \in Pools!MemHeaps /\ \A k \in Pools!MemHeaps : k \in Int
  BY DEF Pools!MemHeapAssumption, Pools!MemHeaps
<1>4. PoolTypes'
  BY <1>1, <1>2, <1>3 DEF PoolTypes, PoolLabels, Pools!NoBlock
<1>5. CASE pc[t] = "ownalloc" \/ m + 1 \in Pools!MemHeaps
  <2>1. /\ pc'[t] = "alloc" /\ size'[t] = size[t] /\ old'[t] = old[t]
        /\ ptr'[t] \in Pools!MemHeaps
    BY <1>1, <1>2, <1>3, <1>5 DEF PoolTypes
  <2>2. AskOK(t)'
    BY <1>1, <1>2, <2>1 DEF AskOK
  <2>3. \A u \in Threads \ {t} :
           /\ pc'[u] = pc[u] /\ size'[u] = size[u] /\ ptr'[u] = ptr[u] /\ old'[u] = old[u]
           /\ old[u] # Pools!NoBlock => old[u] # old'[t]
    BY <1>1, <1>2, <1>5, <2>1 DEF PoolTypes, AsksApart
  <2> QED BY <1>1, <1>4, <2>1, <2>2, <2>3, PoolLocal
<1>6. CASE ~(pc[t] = "ownalloc" \/ m + 1 \in Pools!MemHeaps)
  <2>1. pc'[t] = "ready" /\ old'[t] = Pools!NoBlock
    BY <1>1, <1>2, <1>6 DEF PoolTypes
  <2>2. AskOK(t)'
    BY <2>1 DEF AskOK
  <2>3. \A u \in Threads \ {t} :
           /\ pc'[u] = pc[u] /\ size'[u] = size[u] /\ ptr'[u] = ptr[u] /\ old'[u] = old[u]
           /\ old[u] # Pools!NoBlock => old[u] # old'[t]
    BY <1>1, <1>2, <1>6, <2>1 DEF PoolTypes
  <2> QED BY <1>1, <1>4, <2>1, <2>2, <2>3, PoolLocal
<1> QED BY <1>1, <1>5, <1>6

\* rt_realloc finds that it has to move the area.
LEMMA PoolMovesKeeps ==
    ASSUME Pools!MemHeapAssumption, PoolInv, NEW t \in Threads, NEW m \in Pools!MemHeaps,
           Pools!ReallocMoves(t, m), app' = app
    PROVE  PoolInv' /\ heap' = heap
<1>1. /\ pc[t] = "grow" /\ pc' = [pc EXCEPT ![t] = "ownalloc"] /\ heap' = heap
      /\ size' = size /\ ptr' = ptr /\ old' = old /\ given' = given
  BY DEF Pools!ReallocMoves, Pools!At, Pools!Goto
<1>2. AskOK(t) /\ PoolTypes /\ AsksApart
  BY DEF PoolInv
<1>3. PoolTypes' /\ pc'[t] = "ownalloc"
  BY <1>1, <1>2 DEF PoolTypes, PoolLabels
<1>4. AskOK(t)'
  BY <1>1, <1>2, <1>3 DEF AskOK
<1>5. \A u \in Threads \ {t} :
         /\ pc'[u] = pc[u] /\ size'[u] = size[u] /\ ptr'[u] = ptr[u] /\ old'[u] = old[u]
         /\ old[u] # Pools!NoBlock => old[u] # old'[t]
  BY <1>1, <1>2 DEF PoolTypes, AsksApart
<1> QED BY <1>1, <1>3, <1>4, <1>5, PoolLocal

\* What applications pass to a call is no other call's.
LEMMA IdleIs ==
    ASSUME PoolInv, NEW a \in Pools!Idle
    PROVE  a \in DOMAIN given /\ \A u \in Threads : old[u] # a
BY DEF Pools!Idle, Pools!Range, PoolInv, PoolTypes

\* rt_realloc reads the size of an item that only it may change.
LEMMA PoolReallocCallKeeps ==
    ASSUME Pools!MemHeapAssumption, PoolInv, NEW t \in Threads, NEW a \in Pools!Idle,
           NEW n \in Nat \ {0}, Pools!ReallocCall(t, a, n), app' = app
    PROVE  PoolInv' /\ heap' = heap
<1> DEFINE i == a - RT_MEMHEAP_SIZE
           new == Pools!AtLeastMin(Pools!Aligned(n))
           have == Pools!MemItemSize(heap, i)
<1>1. /\ pc[t] = "ready" /\ heap' = heap /\ ptr' = ptr
      /\ IF new <= have /\ new + RT_MEMHEAP_SIZE + RT_MEMHEAP_MINIALLOC >= have
         THEN /\ given' = [given EXCEPT ![a] = new]
              /\ pc' = pc /\ size' = size /\ old' = old
         ELSE /\ size' = [size EXCEPT ![t] = new] /\ old' = [old EXCEPT ![t] = a]
              /\ pc' = [pc EXCEPT ![t] = IF new > have THEN "grow" ELSE "shrink"]
              /\ given' = given
  BY DEF Pools!ReallocCall, Pools!Ready, Pools!Goto
<1>2. new \in Nat \ {0}
  BY AlignedIsLarger, PoolSizes DEF Pools!AtLeastMin, Pools!Aligned, Small!Aligned,
     Pools!Up, Small!Up
<1>3. a \in DOMAIN given /\ \A u \in Threads : old[u] # a
  BY IdleIs
<1>4. /\ a \in Nat /\ InHand(heap, i) /\ i \in Nat /\ i + RT_MEMHEAP_SIZE = a
      /\ \A b \in DOMAIN given : b - RT_MEMHEAP_SIZE = i => b = a
      /\ \A u \in Threads : pc[u] = "free" => ptr[u] # i
      /\ given[a] \in Nat
  BY <1>3, PoolArea
<1>5. AskOK(t) /\ PoolTypes /\ AsksApart /\ ItemsOK(heap) /\ \A u \in Threads : AskOK(u)
  BY DEF PoolInv
<1>6. have \in Nat /\ RT_MEMHEAP_SIZE \in Nat /\ RT_MEMHEAP_MINIALLOC \in Nat
  BY <1>4, <1>5, ItemFacts, PoolSizes DEF InHand, ItemsOK
<1> HIDE DEF i, new, have
<1>7. CASE new <= have /\ new + RT_MEMHEAP_SIZE + RT_MEMHEAP_MINIALLOC >= have
  <2>1. given' = [given EXCEPT ![a] = new] /\ pc' = pc /\ size' = size /\ old' = old
    BY <1>1, <1>7
  <2>2. /\ DOMAIN given' = DOMAIN given /\ given'[a] = new
        /\ \A b \in DOMAIN given \ {a} : given'[b] = given[b]
    BY <1>3, <2>1
  <2>3. AreaOK(a)'
    BY <1>1, <1>2, <1>4, <1>7, <2>2 DEF AreaOK, i, have
  <2>4. AskOK(t)' /\ PoolTypes' /\ ItemsOK(heap')
    BY <1>1, <1>5, <2>1, <2>2 DEF AskOK, PoolTypes
  <2>5. \A j \in Items(heap) \ {i} : heap.items[j].used => Untouched(heap, heap', j)
    BY <1>1 DEF Untouched
  <2>6. \A u \in Threads \ {t} :
           /\ pc'[u] = pc[u] /\ size'[u] = size[u] /\ ptr'[u] = ptr[u] /\ old'[u] = old[u]
           /\ old[u] # Pools!NoBlock => /\ old[u] \in DOMAIN given' /\ old[u] # old'[t]
                                        /\ old[u] - RT_MEMHEAP_SIZE # i
           /\ pc[u] = "free" => /\ ptr[u] + RT_MEMHEAP_SIZE \notin DOMAIN given'
                                /\ ptr[u] # i
                                /\ pc'[t] = "free" => ptr[u] # ptr'[t]
    BY <1>1, <1>3, <1>4, <1>5, <2>1, <2>2 DEF AskOK, AsksApart
  <2>7. \A b \in DOMAIN given' :
           AreaOK(b)' \/ /\ b \in DOMAIN given /\ given'[b] = given[b]
                         /\ b - RT_MEMHEAP_SIZE # i
    BY <1>4, <2>2, <2>3
  <2> QED BY <1>1, <2>4, <2>5, <2>6, <2>7, PoolStep
<1>8. CASE ~(new <= have /\ new + RT_MEMHEAP_SIZE + RT_MEMHEAP_MINIALLOC >= have)
  <2>1. /\ size' = [size EXCEPT ![t] = new] /\ old' = [old EXCEPT ![t] = a]
        /\ pc' = [pc EXCEPT ![t] = IF new > have THEN "grow" ELSE "shrink"]
        /\ given' = given
    BY <1>1, <1>8
  <2>2. PoolTypes'
    BY <1>1, <1>2, <1>4, <1>5, <2>1 DEF PoolTypes, PoolLabels
  <2>3. /\ size'[t] = new /\ old'[t] = a /\ pc'[t] \in {"grow", "shrink"}
        /\ pc'[t] = "shrink" => new <= have
    BY <1>2, <1>5, <1>6, <2>1 DEF PoolTypes
  <2>4. AskOK(t)'
    <3>1. a # Pools!NoBlock
      BY <1>4 DEF Pools!NoBlock
    <3>2. pc'[t] = "shrink" => new + RT_MEMHEAP_SIZE + RT_MEMHEAP_MINIALLOC
                                 < Pools!MemItemSize(heap', a - RT_MEMHEAP_SIZE)
      BY <1>1, <1>2, <1>6, <1>8, <2>3 DEF have, i
    <3> QED BY <1>2, <1>3, <2>1, <2>3, <3>1, <3>2 DEF AskOK
  <2>5. \A u \in Threads \ {t} :
           /\ pc'[u] = pc[u] /\ size'[u] = size[u] /\ ptr'[u] = ptr[u] /\ old'[u] = old[u]
           /\ old[u] # Pools!NoBlock => old[u] # old'[t]
    BY <1>1, <1>3, <1>5, <2>1, <2>3 DEF PoolTypes
  <2>6. pc'[t] # "free"
    BY <2>3
  <2> QED BY <1>1, <2>1, <2>2, <2>4, <2>5, <2>6, PoolLocal
<1> QED BY <1>1, <1>7, <1>8

\* The area is given up, and its item is no caller's.
LEMMA PoolFreeArea ==
    ASSUME Pools!MemHeapAssumption, PoolInv, NEW t \in Threads, NEW a \in DOMAIN given,
           pc[t] # "free", \A u \in Threads \ {t} : old[u] # a,
           Pools!FreeArea(t, a), app' = app,
           old' = [old EXCEPT ![t] = Pools!NoBlock]
    PROVE  PoolInv' /\ heap' = heap
<1> DEFINE i == a - RT_MEMHEAP_SIZE
<1>1. /\ given' = [b \in DOMAIN given \ {a} |-> given[b]] /\ ptr' = [ptr EXCEPT ![t] = i]
      /\ pc' = [pc EXCEPT ![t] = "free"] /\ heap' = heap /\ size' = size
  BY DEF Pools!FreeArea, Pools!Surrender, Pools!Goto
<1>2. /\ InHand(heap, i) /\ i \in Nat /\ i + RT_MEMHEAP_SIZE = a
      /\ \A b \in DOMAIN given : b - RT_MEMHEAP_SIZE = i => b = a
      /\ \A u \in Threads : pc[u] = "free" => ptr[u] # i
  BY PoolArea
<1>3. PoolTypes /\ AsksApart /\ ItemsOK(heap) /\ \A u \in Threads : AskOK(u)
  BY DEF PoolInv
<1> HIDE DEF i
<1>4. /\ DOMAIN given' = DOMAIN given \ {a} /\ \A b \in DOMAIN given' : given'[b] = given[b]
  BY <1>1
<1>5. PoolTypes' /\ pc'[t] = "free" /\ ptr'[t] = i /\ old'[t] = Pools!NoBlock
  BY <1>1, <1>2, <1>3 DEF PoolTypes, PoolLabels, Pools!NoBlock
<1>6. AskOK(t)'
  BY <1>1, <1>2, <1>4, <1>5 DEF AskOK
<1>7. \A j \in Items(heap) : Untouched(heap, heap', j)
  BY <1>1 DEF Untouched
<1>8. \A u \in Threads \ {t} :
         /\ pc'[u] = pc[u] /\ size'[u] = size[u] /\ ptr'[u] = ptr[u] /\ old'[u] = old[u]
         /\ old[u] # Pools!NoBlock => /\ old[u] \in DOMAIN given' /\ old[u] # old'[t]
                                      /\ old[u] - RT_MEMHEAP_SIZE # i
         /\ pc[u] = "free" => /\ ptr[u] + RT_MEMHEAP_SIZE \notin DOMAIN given'
                              /\ ptr[u] # i /\ ptr[u] # ptr'[t]
  BY <1>1, <1>2, <1>3, <1>4, <1>5 DEF AskOK, PoolTypes
<1>9. \A b \in DOMAIN given' :
         AreaOK(b)' \/ /\ b \in DOMAIN given /\ given'[b] = given[b]
                       /\ b - RT_MEMHEAP_SIZE # i
  BY <1>2, <1>4
<1>10. /\ ItemsOK(heap')
       /\ \A j \in Items(heap) \ {i} : heap.items[j].used => Untouched(heap, heap', j)
  BY <1>1, <1>3, <1>7
<1>11. PoolInv'
  BY <1>5, <1>6, <1>8, <1>9, <1>10, PoolStep
<1> QED BY <1>1, <1>11

\* rt_free gets it from the caller, ...
LEMMA PoolFreeCallKeeps ==
    ASSUME Pools!MemHeapAssumption, PoolInv, NEW t \in Threads, NEW a \in Pools!Idle,
           Pools!FreeCall(t, a), app' = app
    PROVE  PoolInv' /\ heap' = heap
<1>1. pc[t] = "ready" /\ Pools!FreeArea(t, a) /\ old' = old
  BY DEF Pools!FreeCall, Pools!Ready
<1>2. old' = [old EXCEPT ![t] = Pools!NoBlock]
  BY <1>1 DEF PoolInv, AskOK, PoolTypes
<1> QED BY <1>1, <1>2, IdleIs, PoolFreeArea

\* ... or from rt_realloc.
LEMMA PoolFreeOldKeeps ==
    ASSUME Pools!MemHeapAssumption, PoolInv, NEW t \in Threads, Pools!FreeOld(t), app' = app
    PROVE  PoolInv' /\ heap' = heap
<1>1. pc[t] = "copied" /\ Pools!FreeArea(t, old[t])
      /\ old' = [old EXCEPT ![t] = Pools!NoBlock]
  BY DEF Pools!FreeOld
<1>2. old[t] \in DOMAIN given /\ \A u \in Threads \ {t} : old[u] # old[t]
  BY <1>1 DEF PoolInv, AskOK, AsksApart
<1> QED BY <1>1, <1>2, PoolFreeArea

-----------------------------------------------------------------------------
(* Steps that change the items.                                            *)

\* What rt_memheap_alloc finds is a free item that is large enough.
LEMMA FirstFitIs ==
    ASSUME ItemsOK(heap), NEW m \in Pools!MemHeaps, NEW n, Pools!FirstFit(m, n) # 0
    PROVE  /\ heap.free[m][Pools!FirstFit(m, n)] \in Elements(heap.free[m])
           /\ Pools!MemItemSize(heap, heap.free[m][Pools!FirstFit(m, n)]) >= n
<1> DEFINE s == heap.free[m]
           I == {k \in 1..Len(s) : Pools!MemItemSize(heap, s[k]) >= n}
<1>1. s \in Seq(Nat)
  BY HeapTyped DEF ItemsOK, Ring
<1>2. Pools!FirstFit(m, n) = IF I = {} THEN 0 ELSE Pools!Min(I)
  BY DEF Pools!FirstFit, Pools!SelectInSeq
<1>3. I # {} /\ Pools!FirstFit(m, n) = Pools!Min(I)
  BY <1>2
<1>4. I \in SUBSET Nat
  BY <1>1
<1>5. Pools!Min(I) \in I
  BY <1>3, <1>4, HasMinimum DEF Pools!Min
<1> QED BY <1>3, <1>5 DEF Elements

\* An item becomes the area of the caller, ...
LEMMA PoolAllocKeeps ==
    ASSUME Pools!MemHeapAssumption, PoolInv, NEW t \in Threads, NEW m \in Pools!MemHeaps,
           Pools!Alloc(t, m), app' = app
    PROVE  PoolInv' /\ \A k \in Pools!MemHeaps : Off(heap', k) = Off(heap, k)
<1> DEFINE i == heap.free[m][Pools!FirstFit(m, size[t])]
           a == i + RT_MEMHEAP_SIZE
           n == size[t]
<1>1. /\ pc[t] \in {"alloc", "ownalloc"} /\ Pools!FirstFit(m, n) # 0
      /\ heap' = Pools!AllocFrom(m, i, n)
      /\ given' = [b \in DOMAIN given \cup {a} |-> IF b = a THEN n ELSE given[b]]
      /\ IF old[t] = Pools!NoBlock
         THEN /\ pc' = [pc EXCEPT ![t] = "ready"] /\ size' = [size EXCEPT ![t] = 0]
              /\ ptr' = [ptr EXCEPT ![t] = Pools!NoBlock]
              /\ old' = [old EXCEPT ![t] = Pools!NoBlock]
         ELSE /\ pc' = [pc EXCEPT ![t] = "copied"] /\ size' = size /\ ptr' = ptr
              /\ old' = old
  BY DEF Pools!Alloc, Pools!At, Pools!HandOver, Pools!Leave, Pools!Goto
<1>2. PoolTypes /\ AsksApart /\ ItemsOK(heap) /\ \A u \in Threads : AskOK(u)
  BY DEF PoolInv
<1>3. n \in Nat \ {0}
  BY <1>1, <1>2 DEF AskOK, PoolTypes
<1>4. i \in Elements(heap.free[m]) /\ Pools!MemItemSize(heap, i) >= n
  BY <1>1, <1>2, FirstFitIs
<1> HIDE DEF i, n
<1>5. /\ ItemsOK(heap') /\ i \in Items(heap) /\ ~heap.items[i].used
      /\ InHand(heap', i) /\ n <= Pools!MemItemSize(heap', i)
      /\ \A j \in Items(heap) : heap.items[j].used => Untouched(heap, heap', j)
      /\ \A k \in Pools!MemHeaps : Off(heap', k) = Off(heap, k)
  <2>1. n <= Pools!MemItemSize(heap, i)
    <3>1. Pools!MemItemSize(heap, i) \in Int
      BY <1>2, <1>4, HeapTyped, PoolSizes DEF Listed, ItemsOK, Ring, Pools!MemItemSize
    <3> QED BY <1>3, <1>4, <3>1
  <2> QED BY <1>1, <1>2, <1>3, <1>4, <2>1, AllocIs
<1>6. i \in Nat /\ a \in Nat /\ a - RT_MEMHEAP_SIZE = i
  BY <1>2, <1>5, HeapTyped, PoolSizes DEF ItemsOK, Ring
<1>7. \A b \in DOMAIN given : b # a /\ b - RT_MEMHEAP_SIZE # i
  BY <1>5, <1>6, PoolArea DEF InHand
<1>8. \A u \in Threads : pc[u] = "free" => ptr[u] # i /\ ptr[u] \in Nat
  BY <1>2, <1>5, HeapTyped DEF AskOK, InHand, ItemsOK, Ring
<1>9. RT_MEMHEAP_SIZE \in Nat
  BY PoolSizes
<1> HIDE DEF a
<1>10. /\ DOMAIN given' = DOMAIN given \cup {a} /\ given'[a] = n
       /\ \A b \in DOMAIN given : given'[b] = given[b]
  BY <1>1, <1>7
<1>11. PoolTypes' /\ pc'[t] \in {"ready", "copied"}
       /\ (pc'[t] = "ready" <=> old[t] = Pools!NoBlock) /\ old'[t] = old[t]
  BY <1>1, <1>2 DEF PoolTypes, PoolLabels, Pools!NoBlock
<1>12. AskOK(t)'
  BY <1>2, <1>10, <1>11 DEF AskOK
<1>13. \A u \in Threads \ {t} :
         /\ pc'[u] = pc[u] /\ size'[u] = size[u] /\ ptr'[u] = ptr[u] /\ old'[u] = old[u]
         /\ old[u] # Pools!NoBlock => /\ old[u] \in DOMAIN given' /\ old[u] # old'[t]
                                      /\ old[u] - RT_MEMHEAP_SIZE # i
         /\ pc[u] = "free" => /\ ptr[u] + RT_MEMHEAP_SIZE \notin DOMAIN given'
                              /\ ptr[u] # i
                              /\ pc'[t] = "free" => ptr[u] # ptr'[t]
  <2> SUFFICES ASSUME NEW u \in Threads \ {t}
               PROVE  /\ pc'[u] = pc[u] /\ size'[u] = size[u] /\ ptr'[u] = ptr[u]
                      /\ old'[u] = old[u]
                      /\ old[u] # Pools!NoBlock => /\ old[u] \in DOMAIN given'
                                                   /\ old[u] # old'[t]
                                                   /\ old[u] - RT_MEMHEAP_SIZE # i
                      /\ pc[u] = "free" => /\ ptr[u] + RT_MEMHEAP_SIZE \notin DOMAIN given'
                                           /\ ptr[u] # i
                                           /\ pc'[t] = "free" => ptr[u] # ptr'[t]
    OBVIOUS
  <2>1. /\ pc'[u] = pc[u] /\ size'[u] = size[u] /\ ptr'[u] = ptr[u] /\ old'[u] = old[u]
    BY <1>1, <1>2 DEF PoolTypes
  <2>2. old[u] # Pools!NoBlock => /\ old[u] \in DOMAIN given' /\ old[u] # old'[t]
                                  /\ old[u] - RT_MEMHEAP_SIZE # i
    BY <1>2, <1>7, <1>10, <1>11 DEF AskOK, AsksApart
  <2>3. pc[u] = "free" => ptr[u] + RT_MEMHEAP_SIZE \notin DOMAIN given' /\ ptr[u] # i
    <3>1. ASSUME pc[u] = "free" PROVE ptr[u] + RT_MEMHEAP_SIZE # a
      BY <1>6, <1>8, <1>9, <3>1
    <3> QED BY <1>2, <1>8, <1>10, <3>1 DEF AskOK
  <2> QED BY <1>11, <2>1, <2>2, <2>3
<1>14. \A b \in DOMAIN given' :
         AreaOK(b)' \/ /\ b \in DOMAIN given /\ given'[b] = given[b]
                       /\ b - RT_MEMHEAP_SIZE # i
  <2> SUFFICES ASSUME NEW b \in DOMAIN given', b = a PROVE AreaOK(b)'
    BY <1>7, <1>10
  <2>1. b \in Nat /\ given'[b] = n /\ b - RT_MEMHEAP_SIZE = i
    BY <1>6, <1>10
  <2> QED BY <1>3, <1>5, <2>1 DEF AreaOK
<1>15. \A j \in Items(heap) \ {i} : heap.items[j].used => Untouched(heap, heap', j)
  BY <1>5
<1>16. PoolInv'
  BY <1>5, <1>11, <1>12, <1>13, <1>14, <1>15, PoolStep
<1> QED BY <1>5, <1>16

\* ... or one that no caller has becomes free.
LEMMA PoolFreeKeeps ==
    ASSUME Pools!MemHeapAssumption, PoolInv, NEW t \in Threads, NEW m \in Pools!MemHeaps,
           Pools!Free(t, m), app' = app
    PROVE  PoolInv' /\ \A k \in Pools!MemHeaps : Off(heap', k) = Off(heap, k)
<1> DEFINE i == ptr[t]
<1>1. /\ pc[t] = "free" /\ heap' = Pools!Freed(heap, i) /\ given' = given
      /\ pc' = [pc EXCEPT ![t] = "ready"] /\ size' = [size EXCEPT ![t] = 0]
      /\ ptr' = [ptr EXCEPT ![t] = Pools!NoBlock] /\ old' = [old EXCEPT ![t] = Pools!NoBlock]
  BY DEF Pools!Free, Pools!At, Pools!Leave
<1>2. PoolTypes /\ AsksApart /\ ItemsOK(heap) /\ \A u \in Threads : AskOK(u)
  BY DEF PoolInv
<1>3. InHand(heap, i) /\ \A u \in Threads \ {t} : pc[u] = "free" => ptr[u] # i
  BY <1>1, <1>2 DEF AskOK, AsksApart
<1>4. \A b \in DOMAIN given : b - RT_MEMHEAP_SIZE # i
  BY <1>1, PoolArea
<1> HIDE DEF i
<1>5. /\ ItemsOK(heap')
      /\ \A j \in Items(heap) \ {i} : heap.items[j].used => Untouched(heap, heap', j)
      /\ \A k \in Pools!MemHeaps : Off(heap', k) = Off(heap, k)
  BY <1>1, <1>2, <1>3, FreedIs
<1>6. PoolTypes' /\ pc'[t] = "ready" /\ old'[t] = Pools!NoBlock
  BY <1>1, <1>2 DEF PoolTypes, PoolLabels, Pools!NoBlock
<1>7. AskOK(t)'
  BY <1>6 DEF AskOK
<1>8. \A u \in Threads \ {t} :
         /\ pc'[u] = pc[u] /\ size'[u] = size[u] /\ ptr'[u] = ptr[u] /\ old'[u] = old[u]
         /\ old[u] # Pools!NoBlock => /\ old[u] \in DOMAIN given' /\ old[u] # old'[t]
                                      /\ old[u] - RT_MEMHEAP_SIZE # i
         /\ pc[u] = "free" => /\ ptr[u] + RT_MEMHEAP_SIZE \notin DOMAIN given'
                              /\ ptr[u] # i
                              /\ pc'[t] = "free" => ptr[u] # ptr'[t]
  BY <1>1, <1>2, <1>3, <1>4, <1>6 DEF AskOK, PoolTypes
<1>9. \A b \in DOMAIN given' :
         AreaOK(b)' \/ /\ b \in DOMAIN given /\ given'[b] = given[b]
                       /\ b - RT_MEMHEAP_SIZE # i
  BY <1>1, <1>4
<1>10. PoolInv'
  BY <1>5, <1>6, <1>7, <1>8, <1>9, PoolStep
<1> QED BY <1>5, <1>10

\* An item that is grown or shrunk in place is that of the caller's area.
LEMMA PoolResizes ==
    ASSUME Pools!MemHeapAssumption, PoolInv, NEW t \in Threads, app' = app,
           pc[t] \in {"grow", "shrink"}, Pools!Resized(t), Pools!Leave(t),
           NEW i, i = old[t] - RT_MEMHEAP_SIZE,
           ItemsOK(heap'), InHand(heap', i), Pools!MemItemSize(heap', i) = size[t],
           \A j \in Items(heap) \ {i} : heap.items[j].used => Untouched(heap, heap', j)
    PROVE  PoolInv'
<1>1. /\ given' = [given EXCEPT ![old[t]] = size[t]]
      /\ pc' = [pc EXCEPT ![t] = "ready"] /\ size' = [size EXCEPT ![t] = 0]
      /\ ptr' = [ptr EXCEPT ![t] = Pools!NoBlock] /\ old' = [old EXCEPT ![t] = Pools!NoBlock]
  BY DEF Pools!Resized, Pools!Leave
<1>2. PoolTypes /\ AsksApart /\ \A u \in Threads : AskOK(u)
  BY DEF PoolInv
<1>3. old[t] # Pools!NoBlock /\ old[t] \in DOMAIN given /\ size[t] \in Nat \ {0}
  BY <1>2 DEF AskOK, PoolTypes
<1>4. /\ old[t] \in Nat /\ i \in Nat
      /\ \A b \in DOMAIN given : b - RT_MEMHEAP_SIZE = i => b = old[t]
      /\ \A u \in Threads : pc[u] = "free" => ptr[u] # i
  BY <1>3, PoolArea
<1>5. /\ DOMAIN given' = DOMAIN given /\ given'[old[t]] = size[t]
      /\ \A b \in DOMAIN given \ {old[t]} : given'[b] = given[b]
  BY <1>1, <1>3
<1>6. PoolTypes' /\ pc'[t] = "ready" /\ old'[t] = Pools!NoBlock
  BY <1>1, <1>2 DEF PoolTypes, PoolLabels, Pools!NoBlock
<1>7. AskOK(t)'
  BY <1>6 DEF AskOK
<1>8. \A u \in Threads \ {t} :
         /\ pc'[u] = pc[u] /\ size'[u] = size[u] /\ ptr'[u] = ptr[u] /\ old'[u] = old[u]
         /\ old[u] # Pools!NoBlock => /\ old[u] \in DOMAIN given' /\ old[u] # old'[t]
                                      /\ old[u] - RT_MEMHEAP_SIZE # i
         /\ pc[u] = "free" => /\ ptr[u] + RT_MEMHEAP_SIZE \notin DOMAIN given'
                              /\ ptr[u] # i
                              /\ pc'[t] = "free" => ptr[u] # ptr'[t]
  BY <1>1, <1>2, <1>3, <1>4, <1>5, <1>6 DEF AskOK, PoolTypes, AsksApart
<1>9. \A b \in DOMAIN given' :
         AreaOK(b)' \/ /\ b \in DOMAIN given /\ given'[b] = given[b]
                       /\ b - RT_MEMHEAP_SIZE # i
  <2> SUFFICES ASSUME NEW b \in DOMAIN given', b = old[t] PROVE AreaOK(b)'
    BY <1>4, <1>5
  <2>1. b \in Nat /\ given'[b] = size[t] /\ b - RT_MEMHEAP_SIZE = i
    BY <1>4, <1>5
  <2> QED BY <1>3, <2>1 DEF AreaOK
<1> QED BY <1>6, <1>7, <1>8, <1>9, PoolStep

\* It takes in a part of the free item behind it, ...
LEMMA PoolGrowsKeeps ==
    ASSUME Pools!MemHeapAssumption, PoolInv, NEW t \in Threads, NEW m \in Pools!MemHeaps,
           Pools!ReallocGrows(t, m), app' = app
    PROVE  PoolInv' /\ \A k \in Pools!MemHeaps : Off(heap', k) = Off(heap, k)
<1>1. PICK i : i = old[t] - RT_MEMHEAP_SIZE
  OBVIOUS
<1>2. PICK n : n = size[t]
  OBVIOUS
<1>3. /\ pc[t] = "grow" /\ heap.items[i].pool = m /\ Pools!Grows(heap, i, n)
      /\ heap' = Pools!CutBehind(Pools!TakenIn(
                    Pools!Counted(heap, m, Pools!MemItemSize(heap, i) - n), i), i, n)
      /\ Pools!Resized(t) /\ Pools!Leave(t)
  BY <1>1, <1>2 DEF Pools!ReallocGrows, Pools!At, Pools!PoolOf
<1>4. old[t] \in DOMAIN given /\ n \in Nat \ {0} /\ ItemsOK(heap)
  BY <1>2, <1>3 DEF PoolInv, AskOK, PoolTypes
<1>5. InHand(heap, i)
  BY <1>1, <1>4, PoolArea
<1>6. /\ ItemsOK(heap') /\ InHand(heap', i) /\ Pools!MemItemSize(heap', i) = n
      /\ \A j \in Items(heap) \ {i} : heap.items[j].used => Untouched(heap, heap', j)
      /\ \A k \in Pools!MemHeaps : Off(heap', k) = Off(heap, k)
  BY <1>3, <1>4, <1>5, GrowIs
<1>7. PoolInv'
  BY <1>1, <1>2, <1>3, <1>6, PoolResizes
<1> QED BY <1>6, <1>7

\* ... or makes a free item of its end.
LEMMA PoolShrinksKeeps ==
    ASSUME Pools!MemHeapAssumption, PoolInv, NEW t \in Threads, NEW m \in Pools!MemHeaps,
           Pools!ReallocShrinks(t, m), app' = app
    PROVE  PoolInv' /\ \A k \in Pools!MemHeaps : Off(heap', k) = Off(heap, k)
<1>1. PICK i : i = old[t] - RT_MEMHEAP_SIZE
  OBVIOUS
<1>2. PICK n : n = size[t]
  OBVIOUS
<1>3. /\ pc[t] = "shrink" /\ heap.items[i].pool = m /\ heap' = CutDown(heap, i, n)
      /\ Pools!Resized(t) /\ Pools!Leave(t)
  BY <1>1, <1>2 DEF Pools!ReallocShrinks, Pools!At, Pools!PoolOf, CutDown
<1>4. /\ old[t] \in DOMAIN given /\ n \in Nat \ {0} /\ ItemsOK(heap)
      /\ n + RT_MEMHEAP_SIZE + RT_MEMHEAP_MINIALLOC < Pools!MemItemSize(heap, i)
  BY <1>1, <1>2, <1>3 DEF PoolInv, AskOK, PoolTypes
<1>5. InHand(heap, i)
  BY <1>1, <1>4, PoolArea
<1>6. n + RT_MEMHEAP_SIZE < Pools!MemItemSize(heap, i)
  <2>1. Pools!MemItemSize(heap, i) \in Nat
    BY <1>4, <1>5, ItemFacts DEF ItemsOK, InHand
  <2> QED BY <1>4, <2>1, PoolSizes
<1>7. /\ ItemsOK(heap') /\ InHand(heap', i) /\ Pools!MemItemSize(heap', i) = n
      /\ \A j \in Items(heap) \ {i} : heap.items[j].used => Untouched(heap, heap', j)
      /\ \A k \in Pools!MemHeaps : Off(heap', k) = Off(heap, k)
  BY <1>3, <1>4, <1>5, <1>6, CutDownIs
<1>8. PoolInv'
  BY <1>1, <1>2, <1>3, <1>7, PoolResizes
<1> QED BY <1>7, <1>8

\* No call changes an item before it has the lock.
LEMMA PoolCallKeeps ==
    ASSUME Pools!MemHeapAssumption, PoolInv, NEW t \in Threads, Pools!Call(t), app' = app
    PROVE  PoolInv' /\ heap' = heap
<1>1. \A n \in app.asks[t] : n \in Nat \ {0}
  <2>1. app.asks \in [Threads -> SUBSET (Nat \ {0})]
    BY HeapCallsAssumption DEF PoolInv
  <2> QED BY <2>1
<1>2. CASE \E n \in app.asks[t] : Pools!MallocCall(t, n)
  BY <1>1, <1>2, PoolMallocCallKeeps
<1>3. CASE \E n \in app.asks[t] : \E a \in Pools!Idle : Pools!ReallocCall(t, a, n)
  BY <1>1, <1>3, PoolReallocCallKeeps
<1>4. CASE \E a \in Pools!Idle : Pools!FreeCall(t, a)
  BY <1>4, PoolFreeCallKeeps
<1> QED BY <1>2, <1>3, <1>4 DEF Pools!Call

\* So every step keeps the invariant, and the counts exact.
LEMMA PoolNextKeeps ==
    ASSUME Pools!MemHeapAssumption, PoolInv, [Pools!Next]_Pools!vars
    PROVE  PoolInv' /\ (PoolExact => PoolExact')
<1>1. ASSUME heap' = heap PROVE PoolExact => PoolExact'
  BY <1>1 DEF PoolExact
<1>2. ASSUME \A k \in Pools!MemHeaps : Off(heap', k) = Off(heap, k)
      PROVE  PoolExact => PoolExact'
  BY <1>2 DEF PoolExact
<1>3. CASE UNCHANGED Pools!vars
  <2>1. /\ heap' = heap /\ pc' = pc /\ size' = size /\ ptr' = ptr
        /\ old' = old /\ given' = given /\ app' = app
    BY <1>3 DEF Pools!vars
  <2>2. PoolInv'
    BY <2>1 DEF PoolInv, PoolTypes, AreaOK, AskOK, AsksApart
  <2> QED BY <1>1, <2>1, <2>2
<1>4. ASSUME NEW t \in Threads, Pools!Call(t), app' = app
      PROVE  PoolInv' /\ (PoolExact => PoolExact')
  BY <1>1, <1>4, PoolCallKeeps
<1>5. ASSUME NEW t \in Threads, Pools!Step(t), app' = app
      PROVE  PoolInv' /\ (PoolExact => PoolExact')
  <2>1. CASE Pools!FreeOld(t)
    BY <1>1, <1>5, <2>1, PoolFreeOldKeeps
  <2>2. ASSUME NEW m \in Pools!MemHeaps,
               Pools!Take(t, m) \/ Pools!AskNext(t, m) \/ Pools!ReallocMoves(t, m)
        PROVE  PoolInv' /\ (PoolExact => PoolExact')
    BY <1>1, <1>5, <2>2, PoolTakeKeeps, AskNextKeeps, PoolMovesKeeps
  <2>3. ASSUME NEW m \in Pools!MemHeaps, Pools!Alloc(t, m) \/ Pools!Free(t, m)
        PROVE  PoolInv' /\ (PoolExact => PoolExact')
    BY <1>2, <1>5, <2>3, PoolAllocKeeps, PoolFreeKeeps
  <2>4. ASSUME NEW m \in Pools!MemHeaps, Pools!ReallocGrows(t, m) \/ Pools!ReallocShrinks(t, m)
        PROVE  PoolInv' /\ (PoolExact => PoolExact')
    BY <1>2, <1>5, <2>4, PoolGrowsKeeps, PoolShrinksKeeps
  <2> QED BY <1>5, <2>1, <2>2, <2>3, <2>4 DEF Pools!Step
<1> QED BY <1>3, <1>4, <1>5 DEF Pools!Next

-----------------------------------------------------------------------------
(* What the invariant says.                                                *)

\* A free list has the free items of its memory heap.
LEMMA FreeListIs ==
    ASSUME PoolInv, NEW m \in Pools!MemHeaps
    PROVE  /\ Pools!Range(heap.free[m]) = FreeItems(heap, m)
           /\ Pools!FreeListed(heap, m)
<1>1. /\ Ring(heap) /\ Listed(heap, NoItem) /\ Unbroken(heap, NoItem)
      /\ heap \in ItemHeaps
  BY DEF PoolInv, ItemsOK, Ring
<1>2. heap.free[m] \in Seq(Nat)
  BY <1>1, HeapTyped
<1>3. /\ Pools!Range(heap.free[m]) = Elements(heap.free[m])
      /\ Pools!IsInjective(heap.free[m])
  BY <1>1, <1>2, ElementsAre DEF Listed
<1>4. \A i \in Items(heap) : i # NoItem
  BY <1>1, HeapTyped DEF NoItem
<1>5. Elements(heap.free[m]) = FreeItems(heap, m)
  BY <1>1, <1>4 DEF Listed, FreeItems
<1>6. FreeItems(heap, m) = {i \in Pools!ItemsOf(heap, m) : ~heap.items[i].used}
  BY DEF FreeItems, Pools!ItemsOf, Items
<1>7. \A i \in FreeItems(heap, m) : heap.items[heap.items[i].next].used
  BY <1>1, <1>4 DEF Unbroken, FreeItems
<1> QED BY <1>3, <1>5, <1>6, <1>7 DEF Pools!FreeListed

\* The invariant says more than MemHeapIsSound does.
LEMMA PoolSoundEnough ==
    ASSUME Pools!MemHeapAssumption, PoolInv PROVE Pools!MemHeapIsSound
<1>1. /\ Ring(heap) /\ Listed(heap, NoItem) /\ Unbroken(heap, NoItem)
      /\ heap \in ItemHeaps
  BY DEF PoolInv, ItemsOK, Ring
<1>2. ASSUME NEW m \in Pools!MemHeaps PROVE Pools!Tiled(heap, m)
  <2> SUFFICES ASSUME NEW i \in Pools!ItemsOf(heap, m)
               PROVE  /\ heap.items[i].next \in Pools!ItemsOf(heap, m)
                      /\ heap.items[heap.items[i].next].prev = i
                      /\ \/ i = Pools!TailOf(m)
                         \/ \A j \in Pools!ItemsOf(heap, m) : j <= i \/ heap.items[i].next <= j
    BY DEF Pools!Tiled
  <2>1. i \in Items(heap) /\ heap.items[i].pool = m
        /\ \A j \in Pools!ItemsOf(heap, m) : j \in Items(heap)
    BY DEF Pools!ItemsOf, Items
  <2>2. ItemLinked(heap, i)
    BY <1>1, <2>1 DEF Ring
  <2>3. \A j \in Items(heap) : heap.items[j].pool = m => j \in Pools!ItemsOf(heap, m)
    BY DEF Pools!ItemsOf, Items
  <2> QED BY <2>1, <2>2, <2>3 DEF ItemLinked, IsTail
<1>3. ASSUME NEW a \in DOMAIN given
      PROVE  /\ a - RT_MEMHEAP_SIZE \in DOMAIN heap.items
             /\ heap.items[a - RT_MEMHEAP_SIZE].used
             /\ given[a] <= Pools!MemItemSize(heap, a - RT_MEMHEAP_SIZE)
  BY PoolArea DEF InHand, Items
<1> QED BY <1>2, <1>3, FreeListIs DEF Pools!MemHeapIsSound

\* What is free, as memheap.c counts it.
SumOfSizes(h, S) == Pools!MapThenSumSet(LAMBDA i : Pools!MemItemSize(h, i), S)

\* Rooms and Weight are the sizes and the sum of memheap.c.
LEMMA RoomIsSum ==
    ASSUME Pools!MemHeapAssumption, NEW h \in ItemHeaps, NEW S \in SUBSET Items(h)
    PROVE  SumOfSizes(h, S) = Weight(Rooms(h), S)
<1>1. ASSUME NEW s \in SUBSET S, s # {}
      PROVE  Pools!MemItemSize(h, Pick(s)) = Span(Rooms(h), Pick(s))
  BY <1>1, Picked, RoomSpan
<1> DEFINE A(F) == F = [s \in SUBSET S |->
                          IF s = {} THEN 0
                          ELSE LET x == CHOOSE x \in s : TRUE
                               IN  Pools!MemItemSize(h, x) + F[s \ {x}]]
           B(F) == F = [s \in SUBSET S |->
                          IF s = {} THEN 0
                          ELSE LET x == CHOOSE x \in s : TRUE
                               IN  Span(Rooms(h), x) + F[s \ {x}]]
<1>2. ASSUME NEW F PROVE A(F) <=> B(F)
  <2>1. ASSUME NEW s \in SUBSET S
        PROVE  (IF s = {} THEN 0
                ELSE LET x == CHOOSE x \in s : TRUE
                     IN  Pools!MemItemSize(h, x) + F[s \ {x}])
               = (IF s = {} THEN 0
                  ELSE LET x == CHOOSE x \in s : TRUE
                       IN  Span(Rooms(h), x) + F[s \ {x}])
    BY <1>1 DEF Pick
  <2> QED BY <2>1
<1>3. SumOfSizes(h, S) = (CHOOSE F : A(F))[S]
  BY DEF SumOfSizes, Pools!MapThenSumSet, Pools!MapThenFoldSet
<1>4. Weight(Rooms(h), S) = (CHOOSE F : B(F))[S]
  BY DEF Weight, MapThenSumSet, MapThenFoldSet
<1> HIDE DEF A, B
<1>5. (CHOOSE F : A(F)) = (CHOOSE F : B(F))
  BY <1>2
<1> QED BY <1>3, <1>4, <1>5

\* What is free is what available_size counts.
LEMMA PoolExactIs ==
    ASSUME Pools!MemHeapAssumption, PoolInv, PoolExact
    PROVE  Pools!AvailableIsExact
<1>1. heap \in ItemHeaps
  BY DEF PoolInv, ItemsOK, Ring
<1>2. ASSUME NEW m \in Pools!MemHeaps
      PROVE  heap.available[m] = SumOfSizes(heap, Pools!Range(heap.free[m]))
  <2>1. Pools!Range(heap.free[m]) = FreeItems(heap, m)
    BY FreeListIs
  <2>2. FreeItems(heap, m) \in SUBSET Items(heap)
    BY DEF FreeItems
  <2>3. SumOfSizes(heap, FreeItems(heap, m)) = FreeRoom(heap, m)
    BY <1>1, <2>2, RoomIsSum DEF FreeRoom
  <2>4. heap.available[m] \in Int
    BY <1>1, HeapTyped
  <2>5. FreeRoom(heap, m) \in Int
    BY <1>1, FreeRoomIsInt DEF PoolInv, ItemsOK
  <2>6. heap.available[m] = FreeRoom(heap, m)
    BY <2>4, <2>5 DEF PoolExact, Off
  <2> QED BY <2>1, <2>3, <2>6
<1> QED BY <1>2 DEF Pools!AvailableIsExact, SumOfSizes

-----------------------------------------------------------------------------
(* The areas of the memory heaps.                                          *)

\* The areas of two items do not overlap, ...
LEMMA HandsApart ==
    ASSUME Pools!MemHeapAssumption, NEW h, Ring(h), NEW i, InHand(h, i),
           NEW j, InHand(h, j), i # j,
           NEW n \in Nat, n <= Pools!MemItemSize(h, i),
           NEW k \in Nat, k <= Pools!MemItemSize(h, j)
    PROVE  i + RT_MEMHEAP_SIZE + n <= j \/ j + RT_MEMHEAP_SIZE + k <= i
<1>1. RT_MEMHEAP_SIZE \in Nat
  BY PoolSizes
<1>2. /\ i \in Nat /\ j \in Nat /\ h.items[i].next \in Nat /\ h.items[j].next \in Nat
  BY ItemFacts DEF InHand
<1>3. /\ j <= i \/ h.items[i].next <= j
      /\ i <= j \/ h.items[j].next <= i
  BY DEF InHand, Ring, ItemLinked
<1>4. /\ i + RT_MEMHEAP_SIZE + n <= h.items[i].next
      /\ j + RT_MEMHEAP_SIZE + k <= h.items[j].next
  BY <1>1, <1>2 DEF Pools!MemItemSize
<1> QED BY <1>1, <1>2, <1>3, <1>4

\* ... and are inside the memory the application runs on.
LEMMA InMemory ==
    ASSUME Pools!MemHeapAssumption, NEW h, Ring(h), NEW i, InHand(h, i),
           NEW n \in Nat \ {0}, n <= Pools!MemItemSize(h, i), NEW f, f.heap = "memheap"
    PROVE  /\ i + RT_MEMHEAP_SIZE \in Addresses(f)
           /\ i + RT_MEMHEAP_SIZE + n - 1 \in Addresses(f)
<1> DEFINE m == h.items[i].pool
           a == i + RT_MEMHEAP_SIZE
<1>1. /\ i \in Nat /\ h.items[i].next \in Nat /\ m \in Pools!MemHeaps
      /\ h.items[i].next <= Pools!TailOf(m)
  BY ItemFacts DEF InHand
<1>2. start_addr[m] <= i
  BY DEF InHand, Ring, ItemLinked
<1> HIDE DEF m
<1>3. /\ RT_MEMHEAP_SIZE \in Nat /\ start_addr[m] \in Nat /\ pool_size[m] \in Nat
      /\ Pools!TailOf(m) \in Nat
      /\ Pools!TailOf(m) = start_addr[m] + pool_size[m] - RT_MEMHEAP_SIZE
  BY <1>1, PoolSizes
<1>4. a + n <= h.items[i].next
  BY <1>1, <1>3 DEF Pools!MemItemSize
<1>5. /\ a \in start_addr[m]..start_addr[m] + pool_size[m] - 1
      /\ a + n - 1 \in start_addr[m]..start_addr[m] + pool_size[m] - 1
  BY <1>1, <1>2, <1>3, <1>4
<1> HIDE DEF a
<1>6. Addresses(f) = UNION {start_addr[k]..start_addr[k] + pool_size[k] - 1
                              : k \in Pools!MemHeaps}
  BY DEF Addresses, Pools!MemHeaps
<1>7. a \in Addresses(f) /\ a + n - 1 \in Addresses(f)
  BY <1>1, <1>5, <1>6
<1> QED BY <1>7 DEF a

\* An area there is after a step fits what else there was before it.
LEMMA AreaFits ==
    ASSUME Pools!MemHeapAssumption, PoolInv', NEW f, f.heap = "memheap",
           NEW a \in DOMAIN given',
           \A b \in DOMAIN given \ {a} : b \in DOMAIN given' /\ given'[b] = given[b]
    PROVE  Abstract(f)!Fits(a, given'[a], given)
<1>1. Ring(heap') /\ RT_MEMHEAP_SIZE \in Nat
  BY PoolSizes DEF PoolInv, ItemsOK
<1>2. \A b \in DOMAIN given' :
         /\ b \in Nat /\ given'[b] \in Nat \ {0} /\ InHand(heap', b - RT_MEMHEAP_SIZE)
         /\ given'[b] <= Pools!MemItemSize(heap', b - RT_MEMHEAP_SIZE)
         /\ b - RT_MEMHEAP_SIZE \in Int
  BY <1>1 DEF PoolInv, AreaOK
<1>3. PICK i : i = a - RT_MEMHEAP_SIZE
  OBVIOUS
<1>4. /\ InHand(heap', i) /\ given'[a] \in Nat \ {0} /\ i + RT_MEMHEAP_SIZE = a
      /\ given'[a] <= Pools!MemItemSize(heap', i) /\ a \in Nat /\ i \in Int
  BY <1>1, <1>2, <1>3
<1>5. a \in Addresses(f) /\ a + given'[a] - 1 \in Addresses(f)
  <2>1. PICK n \in Nat \ {0} : n = given'[a]
    BY <1>4
  <2>2. /\ i + RT_MEMHEAP_SIZE \in Addresses(f)
        /\ i + RT_MEMHEAP_SIZE + n - 1 \in Addresses(f)
    BY <1>1, <1>4, <2>1, InMemory
  <2> QED BY <1>4, <2>1, <2>2
<1>6. ASSUME NEW b \in DOMAIN given \ {a}
      PROVE  a + given'[a] <= b \/ b + given[b] <= a
  <2>1. PICK j : j = b - RT_MEMHEAP_SIZE
    OBVIOUS
  <2>2. b \in DOMAIN given' /\ given'[b] = given[b]
    OBVIOUS
  <2>3. /\ InHand(heap', j) /\ given[b] \in Nat /\ j + RT_MEMHEAP_SIZE = b
        /\ given[b] <= Pools!MemItemSize(heap', j) /\ b \in Nat /\ j \in Int
    BY <1>1, <1>2, <2>1, <2>2
  <2>4. i # j
    BY <1>4, <2>3
  <2>5. \/ i + RT_MEMHEAP_SIZE + given'[a] <= j
        \/ j + RT_MEMHEAP_SIZE + given[b] <= i
    BY <1>1, <1>4, <2>3, <2>4, HandsApart
  <2> QED BY <1>1, <1>4, <2>3, <2>5
<1> QED BY <1>4, <1>5, <1>6 DEF Abstract!Fits

\* A call gets the area of an item that was free, ...
LEMMA PoolGives ==
    ASSUME Pools!MemHeapAssumption, PoolInv, PoolInv', NEW f, f.heap = "memheap",
           NEW t \in Threads, NEW m \in Pools!MemHeaps, Pools!Alloc(t, m)
    PROVE  Abstract(f)!Next
<1> DEFINE i == heap.free[m][Pools!FirstFit(m, size[t])]
           a == i + RT_MEMHEAP_SIZE
<1>1. /\ Pools!FirstFit(m, size[t]) # 0
      /\ given' = [b \in DOMAIN given \cup {a} |-> IF b = a THEN size[t] ELSE given[b]]
  BY DEF Pools!Alloc, Pools!HandOver
<1>2. ItemsOK(heap)
  BY DEF PoolInv
<1>3. i \in Elements(heap.free[m])
  BY <1>1, <1>2, FirstFitIs
<1> HIDE DEF i
<1>4. i \in Nat /\ ~heap.items[i].used
  BY <1>2, <1>3, HeapTyped DEF ItemsOK, Ring, Listed
<1>5. a \notin DOMAIN given
  <2> SUFFICES ASSUME a \in DOMAIN given PROVE FALSE
    OBVIOUS
  <2>1. a - RT_MEMHEAP_SIZE = i
    BY <1>4, PoolSizes
  <2> QED BY <1>4, <2>1, PoolArea DEF InHand
<1> HIDE DEF a
<1>6. /\ a \in DOMAIN given' /\ given'[a] = size[t]
      /\ \A b \in DOMAIN given \ {a} : b \in DOMAIN given' /\ given'[b] = given[b]
  BY <1>1
<1>7. Abstract(f)!Fits(a, given'[a], given)
  BY <1>6, AreaFits
<1>8. Abstract(f)!Give(a, given'[a])
  BY <1>1, <1>5, <1>6, <1>7 DEF Abstract!Give
<1> QED BY <1>6, <1>8 DEF Abstract!Next

\* ... or one of another size at the place of its own, ...
LEMMA PoolResizesTo ==
    ASSUME Pools!MemHeapAssumption, PoolInv', NEW f, f.heap = "memheap",
           NEW a \in DOMAIN given, NEW n, given' = [given EXCEPT ![a] = n]
    PROVE  Abstract(f)!Next
<1>1. /\ a \in DOMAIN given' /\ given'[a] = n
      /\ \A b \in DOMAIN given \ {a} : b \in DOMAIN given' /\ given'[b] = given[b]
  OBVIOUS
<1>2. Abstract(f)!Fits(a, given'[a], given)
  BY <1>1, AreaFits
<1>3. Abstract(f)!Resize(a, given'[a])
  BY <1>1, <1>2 DEF Abstract!Resize
<1> QED BY <1>1, <1>3 DEF Abstract!Next

\* ... or gives it up.
LEMMA PoolTakesBack ==
    ASSUME NEW f, NEW a \in DOMAIN given, Pools!Surrender(a)
    PROVE  Abstract(f)!Next
<1>1. Abstract(f)!TakeBack(a)
  BY DEF Pools!Surrender, Abstract!TakeBack
<1> QED BY <1>1 DEF Abstract!Next

\* So the steps of calls are steps of Allocator, or leave the areas as they are.
LEMMA PoolCallIsAbstract ==
    ASSUME Pools!MemHeapAssumption, PoolInv, PoolInv', NEW f, f.heap = "memheap",
           NEW t \in Threads, Pools!Call(t)
    PROVE  Abstract(f)!Next \/ given' = given
<1>1. CASE \E n \in app.asks[t] : Pools!MallocCall(t, n)
  BY <1>1 DEF Pools!MallocCall
<1>2. ASSUME NEW n, NEW a \in Pools!Idle, Pools!ReallocCall(t, a, n)
      PROVE  Abstract(f)!Next \/ given' = given
  <2>1. a \in DOMAIN given
    BY IdleIs
  <2>2. \/ given' = given
        \/ given' = [given EXCEPT ![a] = Pools!AtLeastMin(Pools!Aligned(n))]
    BY <1>2 DEF Pools!ReallocCall
  <2> QED BY <2>1, <2>2, PoolResizesTo
<1>3. ASSUME NEW a \in Pools!Idle, Pools!FreeCall(t, a) PROVE Abstract(f)!Next
  BY <1>3, IdleIs, PoolTakesBack DEF Pools!FreeCall, Pools!FreeArea
<1> QED BY <1>1, <1>2, <1>3 DEF Pools!Call

LEMMA PoolStepIsAbstract ==
    ASSUME Pools!MemHeapAssumption, PoolInv, PoolInv', NEW f, f.heap = "memheap",
           NEW t \in Threads, Pools!Step(t)
    PROVE  Abstract(f)!Next \/ given' = given
<1>1. CASE Pools!FreeOld(t)
  <2>1. old[t] \in DOMAIN given /\ Pools!Surrender(old[t])
    BY <1>1 DEF Pools!FreeOld, Pools!FreeArea, PoolInv, AskOK
  <2> QED BY <2>1, PoolTakesBack
<1>2. ASSUME NEW m \in Pools!MemHeaps,
             \/ Pools!Take(t, m) \/ Pools!AskNext(t, m) \/ Pools!Free(t, m)
             \/ Pools!ReallocMoves(t, m)
      PROVE  given' = given
  BY <1>2 DEF Pools!Take, Pools!AskNext, Pools!Free, Pools!ReallocMoves
<1>3. ASSUME NEW m \in Pools!MemHeaps, Pools!Alloc(t, m) PROVE Abstract(f)!Next
  BY <1>3, PoolGives
<1>4. ASSUME NEW m \in Pools!MemHeaps, Pools!ReallocGrows(t, m) \/ Pools!ReallocShrinks(t, m)
      PROVE  Abstract(f)!Next
  <2>1. pc[t] \in {"grow", "shrink"} /\ given' = [given EXCEPT ![old[t]] = size[t]]
    BY <1>4 DEF Pools!ReallocGrows, Pools!ReallocShrinks, Pools!At, Pools!Resized
  <2>2. old[t] \in DOMAIN given
    BY <2>1 DEF PoolInv, AskOK
  <2> QED BY <2>1, <2>2, PoolResizesTo
<1> QED BY <1>1, <1>2, <1>3, <1>4 DEF Pools!Step

\* A step gives an area, takes one back, resizes one, or changes none.
LEMMA PoolNextIsAbstract ==
    ASSUME Pools!MemHeapAssumption, PoolInv, [Pools!Next]_Pools!vars,
           NEW f, f.heap = "memheap"
    PROVE  [Abstract(f)!Next]_given
<1>1. PoolInv'
  BY PoolNextKeeps
<1>2. CASE UNCHANGED Pools!vars
  BY <1>2 DEF Pools!vars
<1>3. CASE \E t \in Threads : Pools!Call(t) \/ Pools!Step(t)
  BY <1>1, <1>3, PoolCallIsAbstract, PoolStepIsAbstract
<1> QED BY <1>2, <1>3 DEF Pools!Next

-----------------------------------------------------------------------------
(* The heap of the system.                                                 *)

SmallInv == Uses("mem") => IInv

LEMMA Assumptions == Small!HeapAssumption
BY MemoryAssumption

LEMMA Inits == Init => SmallInv
<1>1. Init /\ Uses("mem") => Small!Init
  BY DEF Init, Uses
<1> QED BY <1>1, Assumptions, InitIsSound DEF SmallInv

LEMMA Steps == Uses("mem") /\ [Next]_vars => [Small!Next]_Small!vars /\ app' = app
<1> SUFFICES ASSUME Uses("mem"), [Next]_vars
             PROVE  [Small!Next]_Small!vars /\ app' = app
  OBVIOUS
<1>1. CASE UNCHANGED vars
  BY <1>1 DEF vars, Small!vars
<1>2. CASE Next
  <2>1. PICK t \in Threads : Call(t) \/ Step(t)
    BY <1>2 DEF Next
  <2>2. Small!Call(t) \/ Small!Step(t)
    BY <2>1 DEF Call, Step, Uses
  <2> QED BY <1>2, <2>2 DEF Next, Small!Next
<1> QED BY <1>1, <1>2

LEMMA InvKeeps ==
    ASSUME SmallInv, [Next]_vars
    PROVE  SmallInv' /\ (Uses("mem")' <=> Uses("mem"))
<1>1. app' = app
  BY DEF Next, vars
<1>2. Uses("mem")' <=> Uses("mem")
  BY <1>1 DEF Uses
<1>3. CASE Uses("mem")
  BY <1>2, <1>3, Assumptions, Steps, NextKeeps DEF SmallInv
<1> QED BY <1>2, <1>3 DEF SmallInv

\* And the same for the memory heaps.
PoolsInv == Uses("memheap") => PoolInv

LEMMA PoolAssumptions == Pools!MemHeapAssumption
BY MemoryAssumption

LEMMA PoolInits == Init => PoolsInv /\ (Uses("memheap") => PoolExact)
<1>1. Init /\ Uses("memheap") => Pools!Init
  BY DEF Init, Uses
<1> QED BY <1>1, PoolAssumptions, PoolInit DEF PoolsInv

LEMMA PoolSteps == Uses("memheap") /\ [Next]_vars => [Pools!Next]_Pools!vars
<1> SUFFICES ASSUME Uses("memheap"), [Next]_vars PROVE [Pools!Next]_Pools!vars
  OBVIOUS
<1>1. CASE UNCHANGED vars
  BY <1>1 DEF vars, Pools!vars
<1>2. CASE Next
  <2>1. PICK t \in Threads : Call(t) \/ Step(t)
    BY <1>2 DEF Next
  <2>2. Pools!Call(t) \/ Pools!Step(t)
    BY <2>1 DEF Call, Step, Uses
  <2> QED BY <1>2, <2>2 DEF Next, Pools!Next
<1> QED BY <1>1, <1>2

LEMMA PoolsKeep ==
    ASSUME PoolsInv, [Next]_vars
    PROVE  /\ PoolsInv' /\ (Uses("memheap")' <=> Uses("memheap"))
           /\ Uses("memheap") /\ PoolExact => PoolExact'
<1>1. app' = app
  BY DEF Next, vars
<1>2. Uses("memheap")' <=> Uses("memheap")
  BY <1>1 DEF Uses
<1>3. CASE Uses("memheap")
  BY <1>2, <1>3, PoolAssumptions, PoolSteps, PoolNextKeeps DEF PoolsInv
<1> QED BY <1>2, <1>3 DEF PoolsInv

-----------------------------------------------------------------------------
(* The properties.                                                         *)

\* Where rt_malloc is that of mem.c, its headers tile the memory without unmerged
\* holes and areas are inside blocks in use, whatever the threads call and when.
THEOREM HeapIsSoundHolds == Spec => []HeapIsSound
<1>1. Init => SmallInv
  BY Inits
<1>2. SmallInv /\ [Next]_vars => SmallInv'
  BY InvKeeps
<1>3. SmallInv => HeapIsSound
  BY SoundEnough DEF SmallInv, HeapIsSound
<1> QED BY <1>1, <1>2, <1>3, PTL DEF Spec

\* And where rt_malloc is that of mem.c, areas are inside the memory and apart from
\* their return until they are freed, moved or resized.
THEOREM SmallIsAllocator == Spec /\ Uses("mem") => IsAllocator
<1> DEFINE AStep == \A f \in Applications : f = app => Abstract(f)!Next
<1>1. Init => \A f \in Applications : Abstract(f)!Init
  BY DEF Init, Small!Init, Small!CallsInit, Slab!Init, Slab!CallsInit, Pools!Init,
     Pools!CallsInit, Abstract!Init
<1>2. Init => SmallInv
  BY Inits
<1>3. (SmallInv /\ Uses("mem")) /\ [Next]_vars => (SmallInv /\ Uses("mem"))'
  BY InvKeeps
<1>4. (SmallInv /\ Uses("mem")) /\ [Next]_vars => [AStep]_given
  <2> SUFFICES ASSUME SmallInv, Uses("mem"), [Next]_vars, given' # given,
                      NEW f \in Applications, f = app
               PROVE  Abstract(f)!Next
    OBVIOUS
  <2>1. IInv /\ [Small!Next]_Small!vars
    BY Steps DEF SmallInv
  <2>2. Small!Abstract!Next
    BY <2>1, Assumptions, StepIsAbstract
  <2>3. Addresses(f) = 0..Small!heap_end - 1
    <3>1. f.heap = "mem"
      BY DEF Uses
    <3>2. Addresses(f) = 0..mem_size_aligned + SIZEOF_STRUCT_MEM - 1
      BY <3>1 DEF Addresses
    <3>3. Small!heap_end = mem_size_aligned + SIZEOF_STRUCT_MEM
      BY DEF Small!heap_end
    <3>4. mem_size_aligned \in Nat /\ SIZEOF_STRUCT_MEM \in Nat
      BY Assumptions DEF Small!HeapAssumption
    <3> QED BY <3>2, <3>3, <3>4
  <2>4. 1..mem_size_aligned \subseteq Nat \ {0}
    OBVIOUS
  <2> QED BY <2>2, <2>3, <2>4 DEF Abstract!Next, Small!Abstract!Next, Abstract!Give,
             Small!Abstract!Give, Abstract!Resize, Small!Abstract!Resize,
             Abstract!TakeBack, Small!Abstract!TakeBack, Abstract!Fits,
             Small!Abstract!Fits
<1> HIDE DEF AStep
<1>5. Spec /\ Uses("mem") => [][AStep]_given
  BY <1>2, <1>3, <1>4, PTL DEF Spec
<1>6. Spec => Init
  BY DEF Spec
<1> QED BY <1>1, <1>5, <1>6 DEF IsAllocator, AStep

\* And there used_mem, which list_mem reports, is what the blocks in use take with
\* their headers, however blocks are cut, taken whole, merged and shrunk.
THEOREM UsedMemIsExactHolds == Spec /\ Uses("mem") => []UsedMemIsExact
<1> DEFINE Inv == SmallInv /\ (Uses("mem") => Exact)
<1>1. Init => Inv
  <2>1. Init /\ Uses("mem") => Small!Init
    BY DEF Init, Uses
  <2> QED BY <2>1, Inits, Assumptions, ExactInit
<1>2. Inv /\ [Next]_vars => Inv' /\ (Uses("mem")' <=> Uses("mem"))
  <2> SUFFICES ASSUME Inv, [Next]_vars PROVE Inv' /\ (Uses("mem")' <=> Uses("mem"))
    OBVIOUS
  <2>1. SmallInv' /\ (Uses("mem")' <=> Uses("mem"))
    BY InvKeeps
  <2>2. ASSUME Uses("mem") PROVE Exact'
    BY <2>2, Assumptions, Steps, ExactKept DEF SmallInv
  <2> QED BY <2>1, <2>2
<1>3. Inv /\ Uses("mem") => UsedMemIsExact
  BY ExactIs DEF UsedMemIsExact, Uses
<1> QED BY <1>1, <1>2, <1>3, PTL DEF Spec

\* Where it is that of memheap.c, the items of each memory heap are a ring that
\* tiles its memory, the free ones are listed once each and have no free neighbour,
\* and areas are inside items in use.
THEOREM MemHeapIsSoundHolds == Spec => []MemHeapIsSound
<1>1. Init => PoolsInv
  BY PoolInits
<1>2. PoolsInv /\ [Next]_vars => PoolsInv'
  BY PoolsKeep
<1>3. PoolsInv => MemHeapIsSound
  BY PoolAssumptions, PoolSoundEnough DEF PoolsInv, MemHeapIsSound
<1> QED BY <1>1, <1>2, <1>3, PTL DEF Spec

\* There areas are inside the memory heaps and apart as well, whichever memory heap
\* serves a call, and when rt_realloc moves the area or changes it in place.
THEOREM PoolsIsAllocator == Spec /\ Uses("memheap") => IsAllocator
<1> DEFINE AStep == \A f \in Applications : f = app => Abstract(f)!Next
<1>1. Init => \A f \in Applications : Abstract(f)!Init
  BY DEF Init, Small!Init, Small!CallsInit, Slab!Init, Slab!CallsInit, Pools!Init,
     Pools!CallsInit, Abstract!Init
<1>2. Init => PoolsInv
  BY PoolInits
<1>3. (PoolsInv /\ Uses("memheap")) /\ [Next]_vars => (PoolsInv /\ Uses("memheap"))'
  BY PoolsKeep
<1>4. (PoolsInv /\ Uses("memheap")) /\ [Next]_vars => [AStep]_given
  <2> SUFFICES ASSUME PoolsInv, Uses("memheap"), [Next]_vars, given' # given,
                      NEW f \in Applications, f = app
               PROVE  Abstract(f)!Next
    OBVIOUS
  <2>1. PoolInv /\ [Pools!Next]_Pools!vars /\ f.heap = "memheap"
    BY PoolSteps DEF PoolsInv, Uses
  <2> QED BY <2>1, PoolAssumptions, PoolNextIsAbstract
<1> HIDE DEF AStep
<1>5. Spec /\ Uses("memheap") => [][AStep]_given
  BY <1>2, <1>3, <1>4, PTL DEF Spec
<1>6. Spec => Init
  BY DEF Spec
<1> QED BY <1>1, <1>5, <1>6 DEF IsAllocator, AStep

\* And there available_size, which rt_memheap_alloc decides by before it has the
\* lock, is what the free items have room for, at every step.
THEOREM AvailableIsExactHolds == Spec /\ Uses("memheap") => []UsedMemIsExact
<1> DEFINE Inv == PoolsInv /\ (Uses("memheap") => PoolExact)
<1>1. Init => Inv
  BY PoolInits
<1>2. Inv /\ [Next]_vars => Inv' /\ (Uses("memheap")' <=> Uses("memheap"))
  BY PoolsKeep
<1>3. Inv /\ Uses("memheap") => UsedMemIsExact
  BY PoolAssumptions, PoolExactIs DEF PoolsInv, UsedMemIsExact, Uses
<1> QED BY <1>1, <1>2, <1>3, PTL DEF Spec
=============================================================================
