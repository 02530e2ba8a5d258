------------------------------ MODULE HeapProofs ------------------------------
(***************************************************************************)
(* Proofs about module Heap, for every size of the array, header and unit: *)
(* its state; the walks along the block list (first fit and heap_stats);   *)
(* fragmentation; and the allocator that heap.h promises.                  *)
(***************************************************************************)
EXTENDS Heap, FiniteSetTheorems, TLAPS

-----------------------------------------------------------------------------
(* The helpers that rewrite the list keep it a tiling.                     *)

(* A record of the six functions is a heap. *)
LEMMA HeapRecord ==
  ASSUME NEW h \in HeapType
  PROVE  /\ h.size \in [Units -> Nat]
         /\ h.prev \in [Units -> Address]
         /\ h.next \in [Units -> Address]
         /\ h.magic \in [Units -> BOOLEAN]
         /\ h.free \in [Units -> BOOLEAN]
         /\ h.data \in [Units -> Values \cup {Unknown}]
  BY DEF HeapType

(* g is h with block b cut off at r: what split_block does, by address.    *)
CutAt(h, b, r, g) ==
  \A u \in Units :
    /\ g.size[u] = IF u = b THEN r - b - HeaderUnits
                   ELSE IF u = r THEN End(h, b) - r - HeaderUnits
                   ELSE h.size[u]
    /\ g.prev[u] = IF u = r THEN b ELSE IF u = h.next[b] THEN r ELSE h.prev[u]
    /\ g.next[u] = IF u = b THEN r ELSE IF u = r THEN h.next[b] ELSE h.next[u]
    /\ g.magic[u] <=> (u = r \/ h.magic[u])
    /\ g.free[u] <=> (u = r \/ h.free[u])
    /\ g.data[u] = IF u \in r .. (End(h, b) - 1) THEN Unknown ELSE h.data[u]

(* split_block, where the rest has room for a header and a unit, cuts the *)
(* block as CutAt says, address by address.                                *)
LEMMA SplitCuts ==
  ASSUME NEW h \in HeapType, Tiled(h), NEW b \in Blocks(h), NEW n \in Nat \ {0},
         h.size[b] >= n + HeaderUnits + 1,
         NEW g, g = split_block(h, b, n),
         NEW r, r = b + HeaderUnits + n
  PROVE  /\ g \in HeapType
         /\ r \in Units /\ r > b /\ r < End(h, b)
         /\ CutAt(h, b, r, g)
  <1>1. b \in Units /\ h.size[b] \in Nat /\ End(h, b) <= HeapUnits /\ h.next[b] \in Address
        /\ HeaderUnits \in Nat \ {0} /\ HeapUnits \in Nat /\ n \in Nat /\ n > 0
    BY HeapAssumption, HeapRecord DEF Tiled, Blocks
  <1>2. r \in Units /\ r > b /\ r < End(h, b)
    BY <1>1 DEF Units, End
  <1>3. h.size[b] - n - HeaderUnits \in Nat
    BY <1>1
  <1>4. g = [size |-> [h.size EXCEPT ![b] = n, ![r] = h.size[b] - n - HeaderUnits],
             prev |-> [u \in Units |-> IF u = r THEN b ELSE IF u = h.next[b] THEN r ELSE h.prev[u]],
             next |-> [h.next EXCEPT ![b] = r, ![r] = h.next[b]],
             magic |-> [h.magic EXCEPT ![r] = TRUE],
             free |-> [h.free EXCEPT ![r] = TRUE],
             data |-> [u \in Units |-> IF u \in r .. (End(h, b) - 1) THEN Unknown ELSE h.data[u]]]
    <2>1. ~(h.size[b] < n + HeaderUnits + 1)
      BY <1>1
    <2> QED  BY <2>1 DEF split_block, block_payload
  <1>5. /\ g.size \in [Units -> Nat]
        /\ g.prev \in [Units -> Address]
        /\ g.next \in [Units -> Address]
        /\ g.magic \in [Units -> BOOLEAN]
        /\ g.free \in [Units -> BOOLEAN]
        /\ g.data \in [Units -> Values \cup {Unknown}]
    BY <1>1, <1>2, <1>3, <1>4, HeapRecord DEF Address
  <1>6. g \in HeapType
    BY <1>4, <1>5 DEF HeapType
  <1>7. CutAt(h, b, r, g)
    <2> SUFFICES ASSUME NEW u \in Units
                 PROVE  /\ g.size[u] = IF u = b THEN r - b - HeaderUnits
                                       ELSE IF u = r THEN End(h, b) - r - HeaderUnits
                                       ELSE h.size[u]
                        /\ g.prev[u] = IF u = r THEN b ELSE IF u = h.next[b] THEN r ELSE h.prev[u]
                        /\ g.next[u] = IF u = b THEN r ELSE IF u = r THEN h.next[b] ELSE h.next[u]
                        /\ g.magic[u] <=> (u = r \/ h.magic[u])
                        /\ g.free[u] <=> (u = r \/ h.free[u])
                        /\ g.data[u] = IF u \in r .. (End(h, b) - 1) THEN Unknown ELSE h.data[u]
      BY DEF CutAt
    <2>1. /\ n = r - b - HeaderUnits
          /\ h.size[b] - n - HeaderUnits = End(h, b) - r - HeaderUnits
      BY <1>1, <1>2 DEF End, Units
    <2>2. g.size[u] = IF u = b THEN r - b - HeaderUnits
                      ELSE IF u = r THEN End(h, b) - r - HeaderUnits
                      ELSE h.size[u]
      BY <1>1, <1>2, <1>4, <2>1, HeapRecord
    <2>3. /\ g.prev[u] = IF u = r THEN b ELSE IF u = h.next[b] THEN r ELSE h.prev[u]
          /\ g.data[u] = IF u \in r .. (End(h, b) - 1) THEN Unknown ELSE h.data[u]
      BY <1>4
    <2>4. g.next[u] = IF u = b THEN r ELSE IF u = r THEN h.next[b] ELSE h.next[u]
      BY <1>1, <1>2, <1>4, HeapRecord
    <2>5. (g.magic[u] <=> (u = r \/ h.magic[u])) /\ (g.free[u] <=> (u = r \/ h.free[u]))
      BY <1>1, <1>2, <1>4, HeapRecord
    <2> QED  BY <2>2, <2>3, <2>4, <2>5
  <1> QED  BY <1>2, <1>6, <1>7

(* What a tiling says of a block and of two blocks, in numbers. *)
LEMMA BlockBounds ==
  ASSUME NEW h \in HeapType, Tiled(h), NEW b \in Blocks(h)
  PROVE  /\ b \in Nat /\ b \in Units /\ h.magic[b]
         /\ h.size[b] \in Nat /\ h.size[b] >= 1
         /\ End(h, b) = b + HeaderUnits + h.size[b]
         /\ End(h, b) \in Nat /\ End(h, b) <= HeapUnits
         /\ LinksForward(h, b) /\ LinksBack(h, b)
         /\ h.next[b] \in Address /\ h.prev[b] \in Address
         /\ \A c \in Blocks(h) : b < c => End(h, b) <= c
         /\ \A c \in Blocks(h) : c < b => End(h, c) <= b
  <1>1. HeaderUnits \in Nat /\ HeapUnits \in Nat
    BY HeapAssumption
  <1>2. b \in Units /\ h.magic[b]
    BY DEF Blocks
  <1>3. h.size[b] \in Nat /\ h.next[b] \in Address /\ h.prev[b] \in Address
    BY <1>2, HeapRecord
  <1>4. /\ h.size[b] >= 1 /\ End(h, b) <= HeapUnits
        /\ LinksForward(h, b) /\ LinksBack(h, b)
        /\ \A c \in Blocks(h) : b < c => End(h, b) <= c
        /\ \A c \in Blocks(h) : c < b => End(h, c) <= b
    BY DEF Tiled
  <1>5. b \in Nat
    BY <1>1, <1>2 DEF Units
  <1>6. End(h, b) = b + HeaderUnits + h.size[b] /\ End(h, b) \in Nat
    BY <1>1, <1>3, <1>5 DEF End
  <1> QED  BY <1>2, <1>3, <1>4, <1>5, <1>6

(***************************************************************************)
(* Cutting a block of a tiling gives a tiling with one more block.         *)
(***************************************************************************)
LEMMA CutTiled ==
  ASSUME NEW h \in HeapType, Tiled(h), NEW b \in Blocks(h), NEW r \in Units,
         r > b + HeaderUnits, r + HeaderUnits < End(h, b),
         NEW g \in HeapType, CutAt(h, b, r, g)
  PROVE  /\ Tiled(g)
         /\ Blocks(g) = Blocks(h) \cup {r}
         /\ r \notin Blocks(h)
  <1>1. HeaderUnits \in Nat \ {0} /\ HeapUnits \in Nat /\ r \in Nat
    BY HeapAssumption DEF Units
  <1>2. ASSUME NEW c \in Blocks(h)
        PROVE  /\ c \in Nat /\ c \in Units /\ h.magic[c]
               /\ h.size[c] \in Nat /\ h.size[c] >= 1
               /\ End(h, c) = c + HeaderUnits + h.size[c]
               /\ End(h, c) \in Nat /\ End(h, c) <= HeapUnits
               /\ LinksForward(h, c) /\ LinksBack(h, c)
               /\ h.next[c] \in Address /\ h.prev[c] \in Address
               /\ \A d \in Blocks(h) : c < d => End(h, c) <= d
               /\ \A d \in Blocks(h) : d < c => End(h, d) <= c
    BY BlockBounds
  <1>3. r \notin Blocks(h)
    BY <1>1, <1>2
  <1>4. Blocks(g) = Blocks(h) \cup {r}
    BY DEF Blocks, CutAt
  <1>5. /\ g.size[b] = r - b - HeaderUnits
        /\ g.size[r] = End(h, b) - r - HeaderUnits
        /\ \A c \in Blocks(h) \ {b} : g.size[c] = h.size[c]
    BY <1>1, <1>2, <1>3 DEF CutAt
  <1>6. /\ End(g, b) = r
        /\ End(g, r) = End(h, b)
        /\ \A c \in Blocks(h) \ {b} : End(g, c) = End(h, c)
    BY <1>1, <1>2, <1>5 DEF End
  <1>7. ASSUME NEW c \in Blocks(g)
        PROVE  g.size[c] >= 1 /\ End(g, c) <= HeapUnits
    BY <1>1, <1>2, <1>4, <1>5, <1>6
  <1>8. /\ g.next[b] = r /\ g.next[r] = h.next[b] /\ g.prev[r] = b
        /\ \A c \in Blocks(h) \ {b} : g.next[c] = h.next[c]
        /\ \A c \in Blocks(h) : g.prev[c] = IF c = h.next[b] THEN r ELSE h.prev[c]
    BY <1>1, <1>2, <1>3 DEF CutAt
  <1>9. ASSUME NEW c \in Blocks(g)
        PROVE  LinksForward(g, c)
    <2>1. CASE c = b
      BY <2>1, <1>1, <1>2, <1>4, <1>6, <1>8 DEF LinksForward, Units
    <2>2. CASE c = r
      <3>1. LinksForward(h, b)
        BY <1>2
      <3>2. CASE End(h, b) = HeapUnits
        BY <2>2, <3>1, <3>2, <1>6, <1>8 DEF LinksForward
      <3>3. CASE End(h, b) # HeapUnits
        BY <2>2, <3>1, <3>3, <1>4, <1>6, <1>8 DEF LinksForward
      <3> QED  BY <3>2, <3>3
    <2>3. CASE c \in Blocks(h) \ {b}
      <3>1. LinksForward(h, c) /\ LinksForward(h, b)
        BY <2>3, <1>2
      <3>2. CASE End(h, c) = HeapUnits
        BY <2>3, <3>1, <3>2, <1>6, <1>8 DEF LinksForward
      <3>3. CASE End(h, c) # HeapUnits
        <4>1. /\ h.next[c] = End(h, c) /\ End(h, c) \in Blocks(h)
              /\ h.prev[End(h, c)] = c
          BY <3>1, <3>3 DEF LinksForward
        <4>2. End(h, c) # h.next[b]
          BY <2>3, <3>1, <4>1, <1>1, <1>2 DEF LinksForward, NULL
        <4> QED  BY <2>3, <3>3, <4>1, <4>2, <1>4, <1>6, <1>8 DEF LinksForward
      <3> QED  BY <3>2, <3>3
    <2> QED  BY <2>1, <2>2, <2>3, <1>4
  <1>10. ASSUME NEW c \in Blocks(g)
        PROVE  LinksBack(g, c)
    <2>1. CASE c = r
      <3>1. r # first_block
        BY <1>1, <1>2 DEF first_block
      <3> QED  BY <2>1, <3>1, <1>4, <1>8 DEF LinksBack
    <2>2. CASE c \in Blocks(h) /\ c = h.next[b]
      <3>1. c # first_block
        BY <2>2, <1>1, <1>2 DEF LinksForward, first_block, NULL
      <3> QED  BY <2>2, <3>1, <1>4, <1>8 DEF LinksBack
    <2>3. CASE c \in Blocks(h) /\ c # h.next[b]
      <3>1. LinksBack(h, c)
        BY <2>3, <1>2
      <3> QED  BY <2>3, <3>1, <1>2, <1>4, <1>8 DEF LinksBack
    <2> QED  BY <2>1, <2>2, <2>3, <1>4
  <1>11. ASSUME NEW c \in Blocks(g), NEW d \in Blocks(g), c < d
        PROVE  End(g, c) <= d
    BY <1>11, <1>1, <1>2, <1>3, <1>4, <1>6
  <1>12. first_block \in Blocks(g)
    BY <1>4 DEF Tiled
  <1> QED  BY <1>3, <1>4, <1>7, <1>9, <1>10, <1>11, <1>12 DEF Tiled

(* g is h with block n joined to the block b before it, by address. *)
JoinedAt(h, b, n, g) ==
  \A u \in Units :
    /\ g.size[u] = IF u = b THEN h.size[b] + HeaderUnits + h.size[n]
                   ELSE IF u = n THEN 0 ELSE h.size[u]
    /\ g.prev[u] = IF u = n THEN NULL ELSE IF u = h.next[n] THEN b ELSE h.prev[u]
    /\ g.next[u] = IF u = n THEN NULL ELSE IF u = b THEN h.next[n] ELSE h.next[u]
    /\ g.magic[u] <=> (u # n /\ h.magic[u])
    /\ g.free[u] <=> (u # n /\ h.free[u])
    /\ g.data[u] = h.data[u]

(* Where a block has a successor, it starts where the block ends. *)
LEMMA NextBlock ==
  ASSUME NEW h \in HeapType, Tiled(h), NEW b \in Blocks(h), h.next[b] # NULL
  PROVE  /\ h.next[b] = End(h, b)
         /\ h.next[b] \in Blocks(h)
         /\ h.next[b] > b
         /\ h.prev[h.next[b]] = b
  <1>1. LinksForward(h, b) /\ End(h, b) = b + HeaderUnits + h.size[b] /\ b \in Nat
        /\ h.size[b] \in Nat
    BY BlockBounds
  <1>2. HeaderUnits \in Nat \ {0}
    BY HeapAssumption
  <1> QED  BY <1>1, <1>2 DEF LinksForward

(* Where a block has a predecessor, that one ends where the block starts. *)
LEMMA PrevBlock ==
  ASSUME NEW h \in HeapType, Tiled(h), NEW b \in Blocks(h), h.prev[b] # NULL
  PROVE  /\ h.prev[b] \in Blocks(h)
         /\ h.prev[b] < b
         /\ h.next[h.prev[b]] = b
  <1>1. LinksBack(h, b) /\ b \in Nat
    BY BlockBounds
  <1>2. h.prev[b] \in Blocks(h) /\ h.next[h.prev[b]] = b
    BY <1>1 DEF LinksBack
  <1>3. b # NULL
    BY <1>1 DEF NULL
  <1> QED  BY <1>2, <1>3, NextBlock

(* merge_with_next, where the next block is free, joins the two as         *)
(* JoinedAt says, address by address.                                      *)
LEMMA MergeJoins ==
  ASSUME NEW h \in HeapType, Tiled(h), NEW b \in Blocks(h),
         NEW n, n = h.next[b], n # NULL, h.free[n],
         NEW g, g = merge_with_next(h, b)
  PROVE  g \in HeapType /\ JoinedAt(h, b, n, g)
  <1>1. n \in Blocks(h) /\ n \in Units /\ b \in Units /\ n # b /\ h.magic[n]
    BY NextBlock, BlockBounds
  <1>2. HeaderUnits \in Nat /\ h.size[b] \in Nat /\ h.size[n] \in Nat
        /\ h.next[n] \in Address
    BY <1>1, HeapAssumption, BlockBounds
  <1>3. g = [size |-> [h.size EXCEPT ![b] = h.size[b] + HeaderUnits + h.size[n], ![n] = 0],
             prev |-> [u \in Units |-> IF u = n THEN NULL
                                       ELSE IF u = h.next[n] THEN b ELSE h.prev[u]],
             next |-> [h.next EXCEPT ![b] = h.next[n], ![n] = NULL],
             magic |-> [h.magic EXCEPT ![n] = FALSE],
             free |-> [h.free EXCEPT ![n] = FALSE],
             data |-> h.data]
    BY <1>1 DEF merge_with_next
  <1>4. /\ g.size \in [Units -> Nat]
        /\ g.prev \in [Units -> Address]
        /\ g.next \in [Units -> Address]
        /\ g.magic \in [Units -> BOOLEAN]
        /\ g.free \in [Units -> BOOLEAN]
        /\ g.data \in [Units -> Values \cup {Unknown}]
    BY <1>1, <1>2, <1>3, HeapRecord DEF Address
  <1>5. g \in HeapType
    BY <1>3, <1>4 DEF HeapType
  <1>6. JoinedAt(h, b, n, g)
    <2> SUFFICES ASSUME NEW u \in Units
                 PROVE  /\ g.size[u] = IF u = b THEN h.size[b] + HeaderUnits + h.size[n]
                                       ELSE IF u = n THEN 0 ELSE h.size[u]
                        /\ g.prev[u] = IF u = n THEN NULL
                                       ELSE IF u = h.next[n] THEN b ELSE h.prev[u]
                        /\ g.next[u] = IF u = n THEN NULL
                                       ELSE IF u = b THEN h.next[n] ELSE h.next[u]
                        /\ g.magic[u] <=> (u # n /\ h.magic[u])
                        /\ g.free[u] <=> (u # n /\ h.free[u])
                        /\ g.data[u] = h.data[u]
      BY DEF JoinedAt
    <2>1. g.size[u] = IF u = b THEN h.size[b] + HeaderUnits + h.size[n]
                      ELSE IF u = n THEN 0 ELSE h.size[u]
      BY <1>1, <1>2, <1>3, HeapRecord
    <2>2. g.prev[u] = IF u = n THEN NULL ELSE IF u = h.next[n] THEN b ELSE h.prev[u]
      BY <1>3
    <2>3. g.next[u] = IF u = n THEN NULL ELSE IF u = b THEN h.next[n] ELSE h.next[u]
      BY <1>1, <1>3, HeapRecord
    <2>4. (g.magic[u] <=> (u # n /\ h.magic[u])) /\ (g.free[u] <=> (u # n /\ h.free[u]))
      BY <1>1, <1>3, HeapRecord
    <2>5. g.data[u] = h.data[u]
      BY <1>3
    <2> QED  BY <2>1, <2>2, <2>3, <2>4, <2>5
  <1> QED  BY <1>5, <1>6

(***************************************************************************)
(* Joining two neighbours of a tiling gives a tiling with one block less.  *)
(***************************************************************************)
LEMMA JoinTiled ==
  ASSUME NEW h \in HeapType, Tiled(h), NEW b \in Blocks(h),
         NEW n, n = h.next[b], n # NULL,
         NEW g \in HeapType, JoinedAt(h, b, n, g)
  PROVE  /\ Tiled(g)
         /\ n \in Blocks(h) /\ n # b
         /\ Blocks(g) = Blocks(h) \ {n}
         /\ End(g, b) = End(h, n)
         /\ \A c \in Blocks(g) \ {b} : g.size[c] = h.size[c]
  <1>1. HeaderUnits \in Nat \ {0} /\ HeapUnits \in Nat
    BY HeapAssumption
  <1>2. ASSUME NEW c \in Blocks(h)
        PROVE  /\ c \in Nat /\ c \in Units /\ h.magic[c]
               /\ h.size[c] \in Nat /\ h.size[c] >= 1
               /\ End(h, c) = c + HeaderUnits + h.size[c]
               /\ End(h, c) \in Nat /\ End(h, c) <= HeapUnits
               /\ LinksForward(h, c) /\ LinksBack(h, c)
               /\ h.next[c] \in Address /\ h.prev[c] \in Address
               /\ \A d \in Blocks(h) : c < d => End(h, c) <= d
               /\ \A d \in Blocks(h) : d < c => End(h, d) <= c
    BY BlockBounds
  <1>3. n \in Blocks(h) /\ n > b /\ n = End(h, b) /\ h.prev[n] = b /\ n # b
    BY <1>2, NextBlock
  <1>4. Blocks(g) = Blocks(h) \ {n}
    BY DEF Blocks, JoinedAt
  <1>5. /\ g.size[b] = h.size[b] + HeaderUnits + h.size[n]
        /\ \A c \in Blocks(h) \ {b, n} : g.size[c] = h.size[c]
    BY <1>2, <1>3 DEF JoinedAt
  <1>6. /\ End(g, b) = End(h, n)
        /\ \A c \in Blocks(h) \ {b, n} : End(g, c) = End(h, c)
    BY <1>1, <1>2, <1>3, <1>5 DEF End
  <1>7. /\ g.next[b] = h.next[n]
        /\ \A c \in Blocks(h) \ {b, n} : g.next[c] = h.next[c]
        /\ \A c \in Blocks(h) \ {n} : g.prev[c] = IF c = h.next[n] THEN b ELSE h.prev[c]
    BY <1>2, <1>3 DEF JoinedAt
  <1>8. ASSUME NEW c \in Blocks(g)
        PROVE  g.size[c] >= 1 /\ End(g, c) <= HeapUnits
    BY <1>1, <1>2, <1>3, <1>4, <1>5, <1>6
  <1>9. ASSUME NEW c \in Blocks(g)
        PROVE  LinksForward(g, c)
    <2>1. CASE c = b
      <3>1. LinksForward(h, n)
        BY <1>2, <1>3
      <3>2. CASE End(h, n) = HeapUnits
        BY <2>1, <3>1, <3>2, <1>6, <1>7 DEF LinksForward
      <3>3. CASE End(h, n) # HeapUnits
        <4>1. h.next[n] = End(h, n) /\ End(h, n) \in Blocks(h)
          BY <3>1, <3>3 DEF LinksForward
        <4>2. End(h, n) # n
          BY <1>1, <1>2, <1>3
        <4> QED  BY <2>1, <3>3, <4>1, <4>2, <1>4, <1>6, <1>7 DEF LinksForward
      <3> QED  BY <3>2, <3>3
    <2>2. CASE c \in Blocks(h) \ {b, n}
      <3>1. LinksForward(h, c)
        BY <2>2, <1>2
      <3>2. CASE End(h, c) = HeapUnits
        BY <2>2, <3>1, <3>2, <1>6, <1>7 DEF LinksForward
      <3>3. CASE End(h, c) # HeapUnits
        <4>1. /\ h.next[c] = End(h, c) /\ End(h, c) \in Blocks(h)
              /\ h.prev[End(h, c)] = c
          BY <3>1, <3>3 DEF LinksForward
        <4>2. End(h, c) # n
          BY <2>2, <4>1, <1>3
        <4>3. End(h, c) # h.next[n]
          <5>1. CASE h.next[n] = NULL
            BY <5>1, <4>1, <1>2 DEF NULL
          <5>2. CASE h.next[n] # NULL
            BY <5>2, <4>1, <2>2, <1>3, NextBlock
          <5> QED  BY <5>1, <5>2
        <4> QED  BY <2>2, <3>3, <4>1, <4>2, <4>3, <1>4, <1>6, <1>7 DEF LinksForward
      <3> QED  BY <3>2, <3>3
    <2> QED  BY <2>1, <2>2, <1>4
  <1>10. ASSUME NEW c \in Blocks(g)
         PROVE  LinksBack(g, c)
    <2>1. CASE c = h.next[n]
      <3>1. h.next[n] # NULL
        BY <2>1, <1>2, <1>4 DEF NULL
      <3>2. c > n
        BY <2>1, <3>1, <1>3, NextBlock
      <3>3. c # first_block
        BY <3>2, <1>2, <1>3, <1>4 DEF first_block
      <3> QED  BY <2>1, <3>3, <1>3, <1>4, <1>7 DEF LinksBack
    <2>2. CASE c # h.next[n]
      <3>1. LinksBack(h, c) /\ c \in Blocks(h) \ {n}
        BY <1>2, <1>4
      <3>2. CASE c = first_block
        BY <2>2, <3>1, <3>2, <1>7 DEF LinksBack
      <3>3. CASE c # first_block
        <4>1. h.prev[c] \in Blocks(h) /\ h.next[h.prev[c]] = c
          BY <3>1, <3>3 DEF LinksBack
        <4>2. h.prev[c] # n /\ h.prev[c] # b
          BY <2>2, <3>1, <4>1
        <4> QED  BY <2>2, <3>1, <3>3, <4>1, <4>2, <1>4, <1>7 DEF LinksBack
      <3> QED  BY <3>2, <3>3
    <2> QED  BY <2>1, <2>2
  <1>11. ASSUME NEW c \in Blocks(g), NEW d \in Blocks(g), c < d
         PROVE  End(g, c) <= d
    BY <1>11, <1>1, <1>2, <1>3, <1>4, <1>6
  <1>12. first_block \in Blocks(g)
    <2>1. first_block \in Blocks(h)
      BY DEF Tiled
    <2>2. n # first_block
      BY <1>2, <1>3 DEF first_block
    <2> QED  BY <2>1, <2>2, <1>4
  <1> QED  BY <1>3, <1>4, <1>5, <1>6, <1>8, <1>9, <1>10, <1>11, <1>12 DEF Tiled

(* Whether the array is tiled depends on the links and the sizes only.     *)
LEMMA SameListTiled ==
  ASSUME NEW h \in HeapType, Tiled(h), NEW g \in HeapType,
         \A u \in Units : /\ g.size[u] = h.size[u] /\ g.prev[u] = h.prev[u]
                          /\ g.next[u] = h.next[u] /\ (g.magic[u] <=> h.magic[u])
  PROVE  /\ Tiled(g)
         /\ Blocks(g) = Blocks(h)
         /\ \A b \in Blocks(h) : End(g, b) = End(h, b)
  <1>1. Blocks(g) = Blocks(h)
    BY DEF Blocks
  <1>2. ASSUME NEW b \in Blocks(h)
        PROVE  /\ End(g, b) = End(h, b)
               /\ g.size[b] >= 1 /\ End(g, b) <= HeapUnits
               /\ g.next[b] = h.next[b] /\ g.prev[b] = h.prev[b]
    BY DEF Tiled, Blocks, End
  <1>3. ASSUME NEW b \in Blocks(h)
        PROVE  LinksForward(g, b) /\ LinksBack(g, b)
    <2>1. LinksForward(h, b) /\ LinksBack(h, b)
      BY DEF Tiled
    <2>2. LinksForward(g, b)
      BY <1>1, <1>2, <2>1 DEF LinksForward
    <2>3. LinksBack(g, b)
      BY <1>1, <1>2, <2>1 DEF LinksBack
    <2> QED  BY <2>2, <2>3
  <1> QED  BY <1>1, <1>2, <1>3 DEF Tiled

(* What a caller of split_block can rely on. *)
LEMMA SplitBlock ==
  ASSUME NEW h \in HeapType, Tiled(h), NEW b \in Blocks(h), NEW n \in Nat \ {0},
         h.size[b] >= n, NEW g, g = split_block(h, b, n)
  PROVE  /\ g \in HeapType /\ Tiled(g)
         /\ b \in Blocks(g) /\ (g.free[b] <=> h.free[b])
         /\ g.size[b] >= n /\ g.size[b] <= n + HeaderUnits /\ g.size[b] <= h.size[b]
         /\ UsedBlocks(g) = UsedBlocks(h)
         /\ \A c \in Blocks(h) \ {b} : g.size[c] = h.size[c]
         /\ \A u \in Units : u \notin Payload(h, b) \/ u \in Payload(g, b) => g.data[u] = h.data[u]
  <1>1. b \in Units /\ b \in Nat /\ h.size[b] \in Nat /\ h.magic[b]
        /\ End(h, b) = b + HeaderUnits + h.size[b]
    BY BlockBounds
  <1>2. HeaderUnits \in Nat \ {0} /\ HeapUnits \in Nat /\ n \in Nat
    BY HeapAssumption
  <1>3. CASE h.size[b] < n + HeaderUnits + 1
    <2>1. g = h
      BY <1>3 DEF split_block
    <2> QED  BY <1>1, <1>2, <1>3, <2>1
  <1>4. CASE h.size[b] >= n + HeaderUnits + 1
    <2> DEFINE r == b + HeaderUnits + n
    <2>1. /\ g \in HeapType
          /\ r \in Units /\ r > b /\ r < End(h, b)
          /\ CutAt(h, b, r, g)
      BY <1>4, SplitCuts
    <2>2. r > b + HeaderUnits /\ r + HeaderUnits < End(h, b) /\ r \in Nat /\ r # b
      BY <1>1, <1>2, <1>4
    <2>3. r - b - HeaderUnits = n
      BY <1>1, <1>2
    <2> HIDE DEF r
    <2>4. Tiled(g) /\ Blocks(g) = Blocks(h) \cup {r} /\ r \notin Blocks(h)
      BY <2>1, <2>2, CutTiled
    <2>5. g.size[b] = n
      BY <1>1, <2>1, <2>3 DEF CutAt
    <2>6. /\ \A c \in Blocks(h) : g.free[c] <=> h.free[c]
          /\ g.free[r]
          /\ \A c \in Blocks(h) \ {b} : g.size[c] = h.size[c]
      BY <2>1, <2>4 DEF CutAt, Blocks
    <2>7. UsedBlocks(g) = UsedBlocks(h)
      BY <2>4, <2>6 DEF UsedBlocks
    <2>8. ASSUME NEW u \in Units, u \notin Payload(h, b) \/ u \in Payload(g, b)
          PROVE  g.data[u] = h.data[u]
      <3>1. u \notin r .. (End(h, b) - 1)
        BY <1>1, <1>2, <2>2, <2>5, <2>8 DEF Payload, block_payload, End, r, Units
      <3> QED  BY <2>1, <3>1 DEF CutAt
    <2>9. g.size[b] >= n /\ g.size[b] <= n + HeaderUnits /\ g.size[b] <= h.size[b]
      BY <1>1, <1>2, <1>4, <2>5
    <2>10. b \in Blocks(g) /\ (g.free[b] <=> h.free[b])
      BY <2>4, <2>6
    <2> QED  BY <2>1, <2>4, <2>6, <2>7, <2>8, <2>9, <2>10
  <1> QED  BY <1>1, <1>2, <1>3, <1>4

(* What a caller of merge_with_next can rely on. *)
LEMMA MergeBlock ==
  ASSUME NEW h \in HeapType, Tiled(h), NEW b \in Blocks(h),
         NEW g, g = merge_with_next(h, b)
  PROVE  /\ g \in HeapType /\ Tiled(g)
         /\ b \in Blocks(g) /\ Blocks(g) \subseteq Blocks(h)
         /\ \A c \in Blocks(g) : g.free[c] <=> h.free[c]
         /\ UsedBlocks(g) = UsedBlocks(h)
         /\ g.size[b] >= h.size[b]
         /\ \A c \in Blocks(g) \ {b} : g.size[c] = h.size[c]
         /\ \A u \in Units : g.data[u] = h.data[u]
         /\ h.next[b] # NULL /\ h.free[h.next[b]] =>
              g.size[b] = h.size[b] + HeaderUnits + h.size[h.next[b]]
  <1>1. b \in Units /\ h.size[b] \in Nat
    BY BlockBounds
  <1>2. HeaderUnits \in Nat
    BY HeapAssumption
  <1>3. CASE h.next[b] = NULL \/ ~h.free[h.next[b]]
    <2>1. g = h
      BY <1>3 DEF merge_with_next
    <2> QED  BY <1>1, <1>3, <2>1
  <1>4. CASE h.next[b] # NULL /\ h.free[h.next[b]]
    <2> DEFINE n == h.next[b]
    <2>1. g \in HeapType /\ JoinedAt(h, b, n, g)
      BY <1>4, MergeJoins
    <2>2. /\ Tiled(g)
          /\ n \in Blocks(h) /\ n # b
          /\ Blocks(g) = Blocks(h) \ {n}
          /\ \A c \in Blocks(g) \ {b} : g.size[c] = h.size[c]
      BY <1>4, <2>1, JoinTiled
    <2>3. g.size[b] = h.size[b] + HeaderUnits + h.size[n] /\ h.size[n] \in Nat
      BY <1>1, <2>1, <2>2, BlockBounds DEF JoinedAt
    <2>4. \A c \in Blocks(g) : g.free[c] <=> h.free[c]
      BY <2>1, <2>2 DEF JoinedAt, Blocks
    <2>5. UsedBlocks(g) = UsedBlocks(h)
      BY <1>4, <2>2, <2>4 DEF UsedBlocks
    <2>6. \A u \in Units : g.data[u] = h.data[u]
      BY <2>1 DEF JoinedAt
    <2> QED  BY <1>1, <1>2, <2>1, <2>2, <2>3, <2>4, <2>5, <2>6
  <1> QED  BY <1>3, <1>4

(* Setting a block's free flag changes nothing else. *)
LEMMA MarkFree ==
  ASSUME NEW h \in HeapType, NEW b \in Units,
         NEW g, g = SetFree(h, b, TRUE)
  PROVE  /\ g \in HeapType
         /\ g.size = h.size /\ g.prev = h.prev /\ g.next = h.next
         /\ g.magic = h.magic /\ g.data = h.data
         /\ g.free[b]
         /\ \A u \in Units \ {b} : g.free[u] <=> h.free[u]
  <1>1. h.free \in [Units -> BOOLEAN]
    BY HeapRecord
  <1>2. [h.free EXCEPT ![b] = TRUE] \in [Units -> BOOLEAN]
    BY <1>1
  <1> QED  BY <1>1, <1>2 DEF SetFree, HeapType

(* Nor does clearing it. *)
LEMMA MarkUsed ==
  ASSUME NEW h \in HeapType, NEW b \in Units,
         NEW g, g = SetFree(h, b, FALSE)
  PROVE  /\ g \in HeapType
         /\ g.size = h.size /\ g.prev = h.prev /\ g.next = h.next
         /\ g.magic = h.magic /\ g.data = h.data
         /\ ~g.free[b]
         /\ \A u \in Units \ {b} : g.free[u] <=> h.free[u]
  <1>1. h.free \in [Units -> BOOLEAN]
    BY HeapRecord
  <1>2. [h.free EXCEPT ![b] = FALSE] \in [Units -> BOOLEAN]
    BY <1>1
  <1> QED  BY <1>1, <1>2 DEF SetFree, HeapType

(* memset changes the contents of its range only. *)
LEMMA FillFields ==
  ASSUME NEW h \in HeapType, NEW from, NEW n, NEW v \in Values \cup {Unknown},
         NEW g, g = Fill(h, from, n, v)
  PROVE  /\ g \in HeapType
         /\ g.size = h.size /\ g.prev = h.prev /\ g.next = h.next
         /\ g.magic = h.magic /\ g.free = h.free
         /\ \A u \in Units :
              g.data[u] = IF u \in from .. (from + n - 1) THEN v ELSE h.data[u]
  <1> DEFINE d == [u \in Units |-> IF u \in from .. (from + n - 1) THEN v ELSE h.data[u]]
  <1>1. d \in [Units -> Values \cup {Unknown}]
    BY HeapRecord
  <1>2. g = [h EXCEPT !.data = d]
    BY DEF Fill
  <1>3. \A u \in Units : d[u] = IF u \in from .. (from + n - 1) THEN v ELSE h.data[u]
    OBVIOUS
  <1> HIDE DEF d
  <1> QED  BY <1>1, <1>2, <1>3 DEF HeapType

(* memcpy changes the contents of its destination only. *)
LEMMA CopyFields ==
  ASSUME NEW h \in HeapType, NEW to \in Nat, NEW from \in Nat, NEW n \in Nat,
         from .. (from + n - 1) \subseteq Units,
         NEW g, g = Copy(h, to, from, n)
  PROVE  /\ g \in HeapType
         /\ g.size = h.size /\ g.prev = h.prev /\ g.next = h.next
         /\ g.magic = h.magic /\ g.free = h.free
         /\ \A u \in Units : g.data[u] = IF u \in to .. (to + n - 1)
                                        THEN h.data[u - to + from] ELSE h.data[u]
  <1> DEFINE d == [u \in Units |-> IF u \in to .. (to + n - 1)
                                   THEN h.data[u - to + from] ELSE h.data[u]]
  <1>1. ASSUME NEW u \in Units, u \in to .. (to + n - 1)
        PROVE  u - to + from \in Units
    BY <1>1 DEF Units
  <1>2. d \in [Units -> Values \cup {Unknown}]
    BY <1>1, HeapRecord
  <1>3. g = [h EXCEPT !.data = d]
    BY DEF Copy
  <1>4. \A u \in Units : d[u] = IF u \in to .. (to + n - 1)
                               THEN h.data[u - to + from] ELSE h.data[u]
    OBVIOUS
  <1> HIDE DEF d
  <1> QED  BY <1>2, <1>3, <1>4 DEF HeapType

(* What heap_release does to the list of used blocks. *)
LEMMA ReleaseList ==
  ASSUME NEW h \in HeapType, Tiled(h), NEW b \in UsedBlocks(h),
         NEW g, g = ReleaseBlock(h, b)
  PROVE  /\ g \in HeapType /\ Tiled(g)
         /\ UsedBlocks(g) = UsedBlocks(h) \ {b}
         /\ \A c \in UsedBlocks(g) : g.size[c] = h.size[c]
         /\ \A u \in Units \ Payload(h, b) : g.data[u] = h.data[u]
  <1> DEFINE marked == SetFree(h, b, TRUE)
             freed == Fill(marked, block_payload(b), h.size[b], Unknown)
             merged == merge_with_next(freed, b)
             before == merged.prev[b]
  <1>1. b \in Blocks(h) /\ b \in Units /\ ~h.free[b]
    BY BlockBounds DEF UsedBlocks
  <1>2. /\ marked \in HeapType
        /\ marked.size = h.size /\ marked.prev = h.prev /\ marked.next = h.next
        /\ marked.magic = h.magic /\ marked.data = h.data
        /\ marked.free[b]
        /\ \A u \in Units \ {b} : marked.free[u] <=> h.free[u]
    BY <1>1, MarkFree
  <1> HIDE DEF marked
  <1>3. /\ freed \in HeapType
        /\ freed.size = marked.size /\ freed.prev = marked.prev /\ freed.next = marked.next
        /\ freed.magic = marked.magic /\ freed.free = marked.free
        /\ \A u \in Units :
             freed.data[u] = IF u \in block_payload(b) .. (block_payload(b) + h.size[b] - 1)
                             THEN Unknown ELSE marked.data[u]
    BY <1>2, FillFields
  <1> HIDE DEF freed
  <1>4. \A u \in Units \ Payload(h, b) : freed.data[u] = h.data[u]
    <2>1. b \in Nat /\ h.size[b] \in Nat /\ HeaderUnits \in Nat
      BY <1>1, BlockBounds, HeapAssumption
    <2>2. Payload(h, b) = block_payload(b) .. (block_payload(b) + h.size[b] - 1)
      BY <2>1 DEF Payload, block_payload, End
    <2> QED  BY <1>2, <1>3, <2>2
  <1>5. Tiled(freed) /\ Blocks(freed) = Blocks(h)
    BY <1>2, <1>3, SameListTiled
  <1>6. UsedBlocks(freed) = UsedBlocks(h) \ {b}
    BY <1>1, <1>2, <1>3, <1>5, BlockBounds DEF UsedBlocks
  <1>7. /\ merged \in HeapType /\ Tiled(merged)
        /\ b \in Blocks(merged) /\ Blocks(merged) \subseteq Blocks(h)
        /\ merged.free[b]
        /\ UsedBlocks(merged) = UsedBlocks(h) \ {b}
        /\ \A c \in Blocks(merged) \ {b} : merged.size[c] = h.size[c]
        /\ \A u \in Units : merged.data[u] = freed.data[u]
    BY <1>1, <1>2, <1>3, <1>5, <1>6, MergeBlock
  <1> HIDE DEF merged
  <1>8. CASE before # NULL /\ merged.free[before]
    <2>1. before \in Blocks(merged)
      BY <1>7, <1>8, PrevBlock
    <2>2. g = merge_with_next(merged, before)
      BY <1>8 DEF ReleaseBlock, merged, freed, marked
    <2>3. /\ g \in HeapType /\ Tiled(g)
          /\ UsedBlocks(g) = UsedBlocks(merged)
          /\ \A c \in Blocks(g) \ {before} : g.size[c] = merged.size[c]
          /\ Blocks(g) \subseteq Blocks(merged)
          /\ \A u \in Units : g.data[u] = merged.data[u]
      BY <1>7, <2>1, <2>2, MergeBlock
    <2>4. before \notin UsedBlocks(g) /\ b \notin UsedBlocks(g)
      BY <1>7, <1>8, <2>3 DEF UsedBlocks
    <2>5. \A c \in UsedBlocks(g) : g.size[c] = h.size[c]
      BY <1>7, <2>3, <2>4 DEF UsedBlocks
    <2> QED  BY <1>4, <1>7, <2>3, <2>5
  <1>9. CASE before = NULL \/ ~merged.free[before]
    <2>1. g = merged
      BY <1>9 DEF ReleaseBlock, merged, freed, marked
    <2> QED  BY <1>4, <1>7, <2>1 DEF UsedBlocks
  <1> QED  BY <1>8, <1>9

(* What heap_allocate does to the list of used blocks. *)
LEMMA TakeList ==
  ASSUME NEW h \in HeapType, Tiled(h), NEW b \in Blocks(h), h.free[b],
         NEW n \in Nat \ {0}, h.size[b] >= n,
         NEW g, g = TakeBlock(h, b, n)
  PROVE  /\ g \in HeapType /\ Tiled(g)
         /\ UsedBlocks(g) = UsedBlocks(h) \cup {b} /\ b \notin UsedBlocks(h)
         /\ g.size[b] >= n /\ g.size[b] <= n + HeaderUnits /\ g.size[b] <= h.size[b]
         /\ \A c \in UsedBlocks(h) : g.size[c] = h.size[c]
         /\ \A u \in Units \ Payload(h, b) : g.data[u] = h.data[u]
  <1> DEFINE cut == split_block(h, b, n)
  <1>1. /\ cut \in HeapType /\ Tiled(cut)
        /\ b \in Blocks(cut)
        /\ cut.size[b] >= n /\ cut.size[b] <= n + HeaderUnits /\ cut.size[b] <= h.size[b]
        /\ UsedBlocks(cut) = UsedBlocks(h)
        /\ \A c \in Blocks(h) \ {b} : cut.size[c] = h.size[c]
        /\ \A u \in Units \ Payload(h, b) : cut.data[u] = h.data[u]
    BY SplitBlock
  <1> HIDE DEF cut
  <1>2. b \in Units
    BY BlockBounds
  <1>3. g = SetFree(cut, b, FALSE)
    BY DEF TakeBlock, cut
  <1>4. /\ g \in HeapType
        /\ g.size = cut.size /\ g.prev = cut.prev /\ g.next = cut.next
        /\ g.magic = cut.magic /\ g.data = cut.data
        /\ ~g.free[b]
        /\ \A u \in Units \ {b} : g.free[u] <=> cut.free[u]
    BY <1>1, <1>2, <1>3, MarkUsed
  <1>5. Tiled(g) /\ Blocks(g) = Blocks(cut)
    BY <1>1, <1>4, SameListTiled
  <1>6. UsedBlocks(g) = UsedBlocks(cut) \cup {b}
    BY <1>1, <1>4, <1>5, BlockBounds DEF UsedBlocks
  <1>7. b \notin UsedBlocks(h)
    BY DEF UsedBlocks
  <1>8. \A c \in UsedBlocks(h) : g.size[c] = h.size[c]
    BY <1>1, <1>4, <1>7 DEF UsedBlocks
  <1> QED  BY <1>1, <1>4, <1>5, <1>6, <1>7, <1>8

-----------------------------------------------------------------------------
(* The invariant: types, the tiling, and what a call under way knows.      *)

CallOK ==
  /\ Searching => Allocatable(call.size)
  /\ call.op # "idle" => call.at = NULL \/ call.at \in Blocks(heap)
  /\ call.op = "reallocate" =>
       LET old == payload_block(heap, call.ptr) IN
       old \in UsedBlocks(heap) /\ heap.size[old] < AlignUp(call.size)

(* Inductive: types, tiling, and the call in progress is at a block. *)
Structure == TypeOK /\ HeapTiled /\ CallOK

(* A quotient of naturals is one. *)
LEMMA Division ==
  ASSUME NEW x \in Nat, NEW y \in Nat \ {0}
  PROVE  x \div y \in Nat
  OBVIOUS

(* Rounding up gives no less than rounding down. *)
LEMMA DivisionGrows ==
  ASSUME NEW x \in Nat, NEW y \in Nat \ {0}
  PROVE  x \div y <= (x + y - 1) \div y
  OBVIOUS

(* Rounding up gives a whole number of units, and at least one when the    *)
(* request is not refused.                                                 *)
LEMMA Rounding ==
  ASSUME NEW s \in Nat
  PROVE  /\ UnitsFor(s) \in Nat
         /\ AlignUp(s) \in Nat
         /\ Allocatable(s) => AlignUp(s) \in Nat \ {0}
         /\ Allocatable(s) => AlignUp(s) = UnitsFor(s)
  <1>1. Alignment \in Nat \ {0} /\ SizeMax \in Nat
    BY HeapAssumption
  <1>2. s + Alignment - 1 \in Nat
    BY <1>1
  <1>3. UnitsFor(s) \in Nat
    BY <1>1, <1>2, Division DEF UnitsFor
  <1>4. AlignUp(s) = UnitsFor(s) \/ AlignUp(s) = 0
    BY DEF AlignUp, UnitsFor
  <1> QED  BY <1>3, <1>4 DEF Allocatable

(* The sizes that a guarded multiplication passes on are sizes. *)
LEMMA Product ==
  ASSUME NEW k \in Counts, NEW s \in Requests
  PROVE  /\ k * s \in Nat
         /\ (k * s) % (SizeMax + 1) \in Nat
  <1>1. k \in Nat /\ s \in Nat /\ SizeMax \in Nat
    BY HeapAssumption
  <1>2. k * s \in Nat
    BY <1>1
  <1> QED  BY <1>1, <1>2

(* A payload lies in the array and leads back to its block. *)
LEMMA PayloadOfBlock ==
  ASSUME NEW h \in HeapType, Tiled(h), NEW b \in Blocks(h)
  PROVE  /\ block_payload(b) \in Units
         /\ payload_block(h, block_payload(b)) = b
  <1>1. b \in Nat /\ h.magic[b] /\ h.size[b] \in Nat /\ h.size[b] >= 1
        /\ b + HeaderUnits + h.size[b] <= HeapUnits
    BY BlockBounds
  <1>2. HeaderUnits \in Nat /\ HeapUnits \in Nat
    BY HeapAssumption
  <1>3. block_payload(b) >= HeaderUnits /\ block_payload(b) < HeapUnits
        /\ block_payload(b) - HeaderUnits = b
    BY <1>1, <1>2 DEF block_payload
  <1> QED  BY <1>1, <1>2, <1>3 DEF payload_block, Units, block_payload

(* payload_block finds a block, and the one whose payload p starts. *)
LEMMA BlockOfPayload ==
  ASSUME NEW h \in HeapType, NEW p \in Units, payload_block(h, p) # NULL
  PROVE  /\ payload_block(h, p) \in Blocks(h)
         /\ block_payload(payload_block(h, p)) = p
  <1>1. HeaderUnits \in Nat /\ HeapUnits \in Nat /\ p \in Nat
    BY HeapAssumption DEF Units
  <1>2. /\ payload_block(h, p) = p - HeaderUnits
        /\ p >= HeaderUnits /\ h.magic[p - HeaderUnits]
    BY DEF payload_block
  <1> QED  BY <1>1, <1>2 DEF Blocks, Units, block_payload

(* After a call has returned, nothing is known of a call. *)
LEMMA IdleOK ==
  ASSUME call' = IdleCall
  PROVE  CallOK' /\ call' \in Call
  BY DEF CallOK, Call, IdleCall, Searching, Address, NULL

(* heap_init leaves one free block that covers the array (heap.c:55-74). *)
LEMMA InitStructure == Init => Structure
  <1> SUFFICES ASSUME Init PROVE Structure
    OBVIOUS
  <1>1. HeaderUnits \in Nat \ {0} /\ HeapUnits \in Nat /\ HeapUnits > HeaderUnits + 1
    BY HeapAssumption
  <1>2. first_block \in Units /\ HeapUnits - HeaderUnits \in Nat
    BY <1>1 DEF Units, first_block
  <1>3. heap \in HeapType
    BY <1>2 DEF Init, HeapType, Address
  <1>4. Blocks(heap) = {first_block}
    BY <1>2 DEF Blocks, Init
  <1>5. /\ heap.size[first_block] = HeapUnits - HeaderUnits
        /\ heap.prev[first_block] = NULL /\ heap.next[first_block] = NULL
    BY <1>2 DEF Init
  <1>6. End(heap, first_block) = HeapUnits
    BY <1>1, <1>5 DEF End, first_block
  <1>7. LinksForward(heap, first_block) /\ LinksBack(heap, first_block)
    BY <1>5, <1>6 DEF LinksForward, LinksBack
  <1>8. HeapTiled
    BY <1>1, <1>2, <1>4, <1>5, <1>6, <1>7 DEF HeapTiled, Tiled, first_block
  <1>9. TypeOK
    BY <1>3 DEF Init, TypeOK, Call, IdleCall, NoSums, NoClient, ClientType, Address, NULL
  <1>10. CallOK
    BY DEF Init, CallOK, IdleCall, Searching
  <1> QED  BY <1>8, <1>9, <1>10 DEF Structure

(* What callers hold keeps its type when they gain, lose or move a block. *)
LEMMA ClientTypes ==
  ASSUME NEW c \in ClientType, NEW p \in Units, NEW q \in Units, NEW n \in Nat
  PROVE  /\ \A z : Gains(c, p, n, z) \in ClientType
         /\ \A extent : Loses(c, p, extent) \in ClientType
         /\ \A old \in SUBSET Units : \A new : Moves(c, p, old, q, new, n) \in ClientType
  <1>1. /\ c.owned \subseteq Units /\ c.asked \in [Units -> Nat]
        /\ c.mirror \in [Units -> Values \cup {Unknown}]
        /\ Zero \in Values
    BY HeapAssumption DEF ClientType
  <1>2. ASSUME NEW z PROVE Gains(c, p, n, z) \in ClientType
    BY <1>1 DEF Gains, ClientType
  <1>3. ASSUME NEW extent PROVE Loses(c, p, extent) \in ClientType
    BY <1>1 DEF Loses, ClientType
  <1>4. ASSUME NEW old \in SUBSET Units, NEW new
        PROVE  Moves(c, p, old, q, new, n) \in ClientType
    BY <1>1 DEF Moves, ClientType
  <1> QED  BY <1>2, <1>3, <1>4

(* The extent of a block lies in the array. *)
LEMMA PayloadInUnits ==
  ASSUME NEW h \in HeapType, Tiled(h), NEW b \in Blocks(h)
  PROVE  Payload(h, b) \in SUBSET Units
  <1>1. b \in Nat /\ End(h, b) \in Nat /\ End(h, b) <= HeapUnits
    BY BlockBounds
  <1>2. HeaderUnits \in Nat /\ HeapUnits \in Nat
    BY HeapAssumption
  <1> QED  BY <1>1, <1>2 DEF Payload, block_payload, Units

(***************************************************************************)
(* The moving heap_reallocate: block `at` is taken for n units, the old    *)
(* payload is copied into it and the old block is released.                *)
(***************************************************************************)
LEMMA MoveList ==
  ASSUME NEW h \in HeapType, Tiled(h), NEW at \in Blocks(h), h.free[at],
         NEW n \in Nat \ {0}, h.size[at] >= n,
         NEW old \in UsedBlocks(h), h.size[old] < n,
         NEW taken, taken = TakeBlock(h, at, n),
         NEW g, g = ReleaseBlock(Copy(taken, block_payload(at), block_payload(old), h.size[old]), old)
  PROVE  /\ g \in HeapType /\ Tiled(g)
         /\ UsedBlocks(g) = (UsedBlocks(h) \ {old}) \cup {at}
         /\ at \notin UsedBlocks(h)
         /\ taken \in HeapType /\ Tiled(taken) /\ at \in Blocks(taken)
         /\ taken.size[at] >= n /\ taken.size[at] <= n + HeaderUnits
         /\ taken.size[at] <= h.size[at] /\ g.size[at] = taken.size[at]
         /\ \A c \in UsedBlocks(h) \ {old} : g.size[c] = h.size[c]
         /\ \A u \in Units \ (Payload(h, old) \cup Payload(h, at)) : g.data[u] = h.data[u]
         /\ \A u \in block_payload(at) .. (block_payload(at) + h.size[old] - 1) :
              g.data[u] = h.data[u - block_payload(at) + block_payload(old)]
  <1> DEFINE p == block_payload(at)
             q == block_payload(old)
             m == h.size[old]
             copied == Copy(taken, p, q, m)
  <1>1. old \in Blocks(h) /\ at # old
    BY DEF UsedBlocks
  <1>2. /\ at \in Nat /\ old \in Nat /\ m \in Nat /\ h.size[at] \in Nat
        /\ HeaderUnits \in Nat /\ HeapUnits \in Nat
        /\ End(h, old) = old + HeaderUnits + m /\ End(h, old) <= HeapUnits
        /\ End(h, at) = at + HeaderUnits + h.size[at] /\ End(h, at) <= HeapUnits
        /\ at < old => End(h, at) <= old
        /\ old < at => End(h, old) <= at
    BY <1>1, BlockBounds, HeapAssumption
  <1>3. /\ taken \in HeapType /\ Tiled(taken)
        /\ UsedBlocks(taken) = UsedBlocks(h) \cup {at} /\ at \notin UsedBlocks(h)
        /\ taken.size[at] >= n /\ taken.size[at] <= n + HeaderUnits
        /\ taken.size[at] <= h.size[at]
        /\ \A c \in UsedBlocks(h) : taken.size[c] = h.size[c]
        /\ \A u \in Units \ Payload(h, at) : taken.data[u] = h.data[u]
    BY TakeList
  <1>4. p \in Nat /\ q \in Nat /\ q .. (q + m - 1) \subseteq Units
    BY <1>2 DEF block_payload, Units
  <1>5. /\ copied \in HeapType
        /\ copied.size = taken.size /\ copied.prev = taken.prev /\ copied.next = taken.next
        /\ copied.magic = taken.magic /\ copied.free = taken.free
        /\ \A u \in Units : copied.data[u] = IF u \in p .. (p + m - 1)
                                             THEN taken.data[u - p + q] ELSE taken.data[u]
    <2>1. copied = Copy(taken, p, q, m)
      OBVIOUS
    <2>2. /\ taken \in HeapType /\ p \in Nat /\ q \in Nat /\ m \in Nat
          /\ q .. (q + m - 1) \subseteq Units
      BY <1>2, <1>3, <1>4
    <2> HIDE DEF copied, p, q, m
    <2> QED  BY ONLY <2>1, <2>2, CopyFields
  <1>6. g = ReleaseBlock(copied, old)
    OBVIOUS
  <1> HIDE DEF copied
  <1>7. Tiled(copied) /\ Blocks(copied) = Blocks(taken) /\ End(copied, old) = End(taken, old)
    <2>1. old \in Blocks(taken)
      BY <1>3 DEF UsedBlocks
    <2> QED  BY <2>1, <1>3, <1>5, SameListTiled
  <1>8. UsedBlocks(copied) = UsedBlocks(taken)
    BY <1>5, <1>7 DEF UsedBlocks
  <1>9. /\ g \in HeapType /\ Tiled(g)
        /\ UsedBlocks(g) = UsedBlocks(copied) \ {old}
        /\ \A c \in UsedBlocks(g) : g.size[c] = copied.size[c]
        /\ \A u \in Units \ Payload(copied, old) : g.data[u] = copied.data[u]
    BY <1>3, <1>5, <1>6, <1>7, <1>8, ReleaseList
  <1>10. Payload(copied, old) = Payload(h, old)
    BY <1>3, <1>5 DEF Payload, End
  <1>11. UsedBlocks(g) = (UsedBlocks(h) \ {old}) \cup {at}
    BY <1>1, <1>3, <1>8, <1>9
  <1>12. /\ g.size[at] = taken.size[at]
         /\ \A c \in UsedBlocks(h) \ {old} : g.size[c] = h.size[c]
    BY <1>3, <1>5, <1>9, <1>11
  <1>13. ASSUME NEW u \in Units \ (Payload(h, old) \cup Payload(h, at))
         PROVE  g.data[u] = h.data[u]
    <2>1. u \notin p .. (p + m - 1)
      BY <1>2 DEF Payload, block_payload, Units
    <2> QED  BY <2>1, <1>3, <1>5, <1>9, <1>10
  <1>14. ASSUME NEW u \in p .. (p + m - 1)
         PROVE  g.data[u] = h.data[u - p + q]
    <2>1. u \in Units /\ u \notin Payload(h, old)
      BY <1>1, <1>2, <1>4 DEF Payload, block_payload, Units
    <2>2. u - p + q \in Units /\ u - p + q \notin Payload(h, at)
      BY <1>1, <1>2, <1>4 DEF Payload, block_payload, Units
    <2> HIDE DEF p, q, m
    <2> QED  BY <2>1, <2>2, <1>3, <1>5, <1>9, <1>10
  <1>15. at \in Blocks(taken)
    BY <1>3 DEF UsedBlocks
  <1> QED  BY <1>3, <1>9, <1>11, <1>12, <1>13, <1>14, <1>15

(* A call that starts to walk keeps the structure. *)
LEMMA WalkStructure ==
  ASSUME Structure, NEW op \in {"allocate", "callocate", "reallocate", "stats"},
         NEW p \in Address, NEW s \in Nat, NEW n \in Nat, Walk(op, p, s, n),
         op # "stats" => Allocatable(s),
         op = "reallocate" => /\ payload_block(heap, p) \in UsedBlocks(heap)
                              /\ heap.size[payload_block(heap, p)] < AlignUp(s)
  PROVE  Structure'
  <1>1. call' = [op |-> op, ptr |-> p, size |-> s, asked |-> n, at |-> first_block]
        /\ UNCHANGED <<heap, count, sums, client>>
    BY DEF Walk
  <1>2. first_block \in Blocks(heap) /\ first_block \in Units
    BY DEF Structure, HeapTiled, Tiled, Blocks
  <1>3. TypeOK'
    <2>1. call' \in Call
      BY <1>1, <1>2 DEF Call, Address
    <2> QED  BY <1>1, <2>1 DEF Structure, TypeOK
  <1>4. HeapTiled'
    BY <1>1 DEF Structure, HeapTiled
  <1>5. CallOK'
    BY <1>1, <1>2 DEF CallOK, Searching
  <1> QED  BY <1>3, <1>4, <1>5 DEF Structure

(* A call that returns with a tiled heap of the right type keeps it too.   *)
LEMMA ReturnStructure ==
  ASSUME Structure, call' = IdleCall, heap' \in HeapType, Tiled(heap'),
         count' \in Nat, client' \in ClientType, sums' \in [used : Nat, free : Nat, largest : Nat]
  PROVE  Structure'
  BY IdleOK DEF Structure, TypeOK, HeapTiled

(***************************************************************************)
(* Every step of heap.c keeps the structure: one case per operation, the   *)
(* list rewritten by the lemmas on split_block, merge_with_next and their  *)
(* combinations.                                                           *)
(***************************************************************************)
THEOREM StructureStep == Structure /\ [Next]_vars => Structure'
  <1> SUFFICES ASSUME Structure, [Next]_vars PROVE Structure'
    OBVIOUS
  <1> USE DEF Structure
  <1>1. /\ heap \in HeapType /\ Tiled(heap) /\ count \in Nat /\ call \in Call
        /\ sums \in [used : Nat, free : Nat, largest : Nat] /\ client \in ClientType
    BY DEF TypeOK, HeapTiled
  <1>2. Requests \subseteq Nat /\ 0 \in Nat /\ NULL \in Address
    BY HeapAssumption DEF Address
  <1>3. ASSUME NEW p \in Units, NEW s \in Requests, Reallocatable(p, s)
        PROVE  /\ payload_block(heap, p) \in UsedBlocks(heap)
               /\ payload_block(heap, p) \in Blocks(heap)
               /\ s \in Nat /\ AlignUp(s) \in Nat \ {0} /\ UnitsFor(s) \in Nat
               /\ call = IdleCall
    BY <1>1, <1>2, <1>3, BlockOfPayload, Rounding DEF Reallocatable, UsedBlocks
  <1>4. ASSUME NEW op, Found(op), Searching
        PROVE  /\ call.at \in Blocks(heap) /\ heap.free[call.at]
               /\ AlignUp(call.size) \in Nat \ {0} /\ heap.size[call.at] >= AlignUp(call.size)
               /\ call.size \in Nat /\ call.asked \in Nat
               /\ block_payload(call.at) \in Units
               /\ call' = IdleCall /\ sums' = sums
    <2>1. call.size \in Nat /\ call.asked \in Nat /\ call.op # "idle"
      BY <1>1, <1>4 DEF Call, Searching
    <2>2. call.at \in Blocks(heap) /\ Allocatable(call.size)
      BY <1>4, <2>1 DEF Found, CallOK
    <2> QED  BY <1>1, <1>4, <2>1, <2>2, Rounding, PayloadOfBlock DEF Found, Fitting
  <1>5. CASE \E s \in Requests : heap_allocate(s)
    <2>1. PICK s \in Requests : heap_allocate(s)
      BY <1>5
    <2>2. s \in Nat /\ UnitsFor(s) \in Nat
      BY <1>2, Rounding
    <2> QED  BY <1>2, <2>1, <2>2, WalkStructure DEF heap_allocate
  <1>6. CASE \E k \in Counts, s \in Requests : heap_callocate(k, s)
    <2>1. PICK k \in Counts, s \in Requests : heap_callocate(k, s)
      BY <1>6
    <2> DEFINE total == (k * s) % (SizeMax + 1)
    <2>2. total \in Nat /\ UnitsFor(k * s) \in Nat
      BY Product, Rounding
    <2>3. Allocatable(total) /\ Walk("callocate", NULL, total, UnitsFor(k * s))
      BY <2>1 DEF heap_callocate
    <2> HIDE DEF total
    <2> QED  BY <1>2, <2>2, <2>3, WalkStructure
  <1>7. CASE \E p \in Units, s \in Requests : ReallocateMoves(p, s)
    <2>1. PICK p \in Units, s \in Requests : ReallocateMoves(p, s)
      BY <1>7
    <2>2. Reallocatable(p, s) /\ Allocatable(s) /\ Walk("reallocate", p, s, UnitsFor(s))
          /\ heap.size[payload_block(heap, p)] < AlignUp(s) /\ p \in Address
      BY <2>1 DEF ReallocateMoves, Reallocatable, Address
    <2> QED  BY <1>3, <2>2, WalkStructure
  <1>8. CASE heap_stats
    BY <1>2, <1>8, WalkStructure DEF heap_stats
  <1>9. CASE \E p \in Units : heap_release(p)
    <2>1. PICK p \in Units : heap_release(p)
      BY <1>9
    <2> DEFINE b == payload_block(heap, p)
    <2>2. /\ b # NULL /\ ~heap.free[b] /\ heap' = ReleaseBlock(heap, b)
          /\ count' = IF count # 0 THEN count - 1 ELSE count
          /\ client' = Loses(client, p, Payload(heap, b))
          /\ call = IdleCall /\ call' = call /\ sums' = sums
      BY <2>1 DEF heap_release
    <2>3. b \in UsedBlocks(heap)
      BY <1>1, <2>2, BlockOfPayload DEF UsedBlocks
    <2> HIDE DEF b
    <2>4. heap' \in HeapType /\ Tiled(heap')
      BY <1>1, <2>2, <2>3, ReleaseList
    <2>5. count' \in Nat
      BY <1>1, <2>2
    <2>6. client' \in ClientType
      BY <1>1, <1>2, <2>2, ClientTypes
    <2> QED  BY <1>1, <2>2, <2>4, <2>5, <2>6, ReturnStructure
  <1>10. ASSUME NEW p \in Units, NEW s \in Requests,
                ReallocateInBlock(p, s) \/ ReallocateIntoNext(p, s)
         PROVE  Structure'
    <2> DEFINE b == payload_block(heap, p)
    <2>1. Reallocatable(p, s) /\ Resized(p, b, s)
      BY <1>10 DEF ReallocateInBlock, ReallocateIntoNext
    <2>2. /\ b \in Blocks(heap) /\ AlignUp(s) \in Nat \ {0} /\ UnitsFor(s) \in Nat
          /\ call = IdleCall
      BY <1>3, <2>1
    <2>3. heap' \in HeapType /\ Tiled(heap')
      <3>1. CASE ReallocateInBlock(p, s)
        BY <3>1, <1>1, <2>2, SplitBlock DEF ReallocateInBlock
      <3>2. CASE ReallocateIntoNext(p, s)
        <4> DEFINE merged == merge_with_next(heap, b)
        <4>1. GrowsInPlace(b, AlignUp(s)) /\ heap' = split_block(merged, b, AlignUp(s))
          BY <3>2 DEF ReallocateIntoNext
        <4>2. merged \in HeapType /\ Tiled(merged) /\ b \in Blocks(merged)
              /\ merged.size[b] >= AlignUp(s)
          BY <4>1, <1>1, <2>2, MergeBlock DEF GrowsInPlace
        <4> HIDE DEF merged, b
        <4> QED  BY <4>1, <4>2, <2>2, SplitBlock
      <3> QED  BY <3>1, <3>2, <1>10
    <2>4. /\ client' = Moves(client, p, Payload(heap, b), p, Payload(heap', b), UnitsFor(s))
          /\ count' = count /\ call' = call /\ sums' = sums
      BY <2>1 DEF Resized
    <2> HIDE DEF b
    <2>5. client' \in ClientType
      BY <1>1, <2>2, <2>4, ClientTypes, PayloadInUnits
    <2> QED  BY <1>1, <2>2, <2>3, <2>4, <2>5, ReturnStructure
  <1>11. CASE \E p \in Units, v \in Values : Write(p, v)
    <2>1. PICK p \in Units, v \in Values : Write(p, v)
      BY <1>11
    <2> DEFINE b == payload_block(heap, p)
               m == [u \in Units |-> IF u \in Payload(heap, b) THEN v ELSE client.mirror[u]]
    <2>2. /\ call = IdleCall /\ count' = count /\ call' = call /\ sums' = sums
          /\ heap' = Fill(heap, p, heap.size[b], v)
          /\ client' = [client EXCEPT !.mirror = m]
      BY <2>1 DEF Write
    <2>3. m \in [Units -> Values \cup {Unknown}]
      BY <1>1 DEF ClientType
    <2>4. client' \in ClientType
      BY <1>1, <2>2, <2>3 DEF ClientType
    <2> HIDE DEF b, m
    <2>5. heap' \in HeapType /\ Tiled(heap')
      BY <1>1, <2>2, FillFields, SameListTiled
    <2> QED  BY <1>1, <2>2, <2>4, <2>5, ReturnStructure
  <1>12. ASSUME NEW b \in Blocks(heap), call.op # "idle",
                heap' = heap, client' = client, count' = count,
                call' = [call EXCEPT !.at = heap.next[b]],
                sums' \in [used : Nat, free : Nat, largest : Nat]
         PROVE  Structure'
    <2>1. heap.next[b] = NULL \/ heap.next[b] \in Blocks(heap)
      BY <1>1, NextBlock
    <2>2. heap.next[b] \in Address
      BY <1>1, BlockBounds
    <2>3. /\ call' \in Call
          /\ call'.op = call.op /\ call'.ptr = call.ptr /\ call'.size = call.size
          /\ call'.at = heap.next[b]
      BY <1>1, <1>12, <2>2 DEF Call
    <2>4. CallOK'
      BY <1>12, <2>1, <2>3 DEF CallOK, Searching
    <2>5. TypeOK'
      BY <1>1, <1>12, <2>3 DEF TypeOK
    <2>6. HeapTiled'
      BY <1>1, <1>12 DEF HeapTiled
    <2> QED  BY <2>4, <2>5, <2>6
  <1>13. CASE SearchNext
    <2>1. call.at \in Blocks(heap) /\ call.op # "idle"
      BY <1>13 DEF SearchNext, Searching, CallOK
    <2> QED  BY <2>1, <1>1, <1>12, <1>13 DEF SearchNext
  <1>14. CASE SearchFails
    BY <1>1, <1>14, ReturnStructure DEF SearchFails
  <1>15. CASE AllocateReturns
    <2>1. Searching /\ Found("allocate")
      BY <1>15 DEF AllocateReturns, Found, Searching
    <2>2. /\ heap' = TakeBlock(heap, call.at, AlignUp(call.size))
          /\ count' = count + 1
          /\ client' = Gains(client, block_payload(call.at), call.asked, 0)
      BY <1>15 DEF AllocateReturns
    <2>3. heap' \in HeapType /\ Tiled(heap')
      BY <1>1, <1>4, <2>1, <2>2, TakeList
    <2>4. client' \in ClientType
      BY <1>1, <1>4, <2>1, <2>2, ClientTypes
    <2> QED  BY <1>1, <1>4, <2>1, <2>2, <2>3, <2>4, ReturnStructure
  <1>16. CASE CallocateReturns
    <2> DEFINE taken == TakeBlock(heap, call.at, AlignUp(call.size))
               zeroed == call.size \div Alignment
    <2>1. Searching /\ Found("callocate")
      BY <1>16 DEF CallocateReturns, Found, Searching
    <2>2. /\ heap' = Fill(taken, block_payload(call.at), zeroed, Zero)
          /\ count' = count + 1
          /\ client' = Gains(client, block_payload(call.at), call.asked, zeroed)
      BY <1>16 DEF CallocateReturns
    <2>3. taken \in HeapType /\ Tiled(taken)
      BY <1>1, <1>4, <2>1, TakeList
    <2> HIDE DEF taken, zeroed
    <2>4. heap' \in HeapType /\ Tiled(heap')
      BY <2>2, <2>3, FillFields, SameListTiled, HeapAssumption
    <2>5. client' \in ClientType
      BY <1>1, <1>4, <2>1, <2>2, ClientTypes
    <2> QED  BY <1>1, <1>4, <2>1, <2>2, <2>4, <2>5, ReturnStructure
  <1>17. CASE ReallocateReturns
    <2> DEFINE old == payload_block(heap, call.ptr)
               p == block_payload(call.at)
               n == AlignUp(call.size)
               taken == TakeBlock(heap, call.at, n)
    <2>1. Searching /\ Found("reallocate") /\ call.op = "reallocate"
      BY <1>17 DEF ReallocateReturns, Found, Searching
    <2>2. /\ heap' = ReleaseBlock(Copy(taken, p, call.ptr, heap.size[old]), old)
          /\ client' = Moves(client, call.ptr, Payload(heap, old), p,
                            Payload(taken, call.at), call.asked)
          /\ count' = count
      BY <1>17 DEF ReallocateReturns
    <2>3. old \in UsedBlocks(heap) /\ heap.size[old] < n
      BY <2>1 DEF CallOK
    <2>4. call.ptr \in Units /\ block_payload(old) = call.ptr /\ old \in Blocks(heap)
      <3>1. old \in Blocks(heap) /\ old \in Nat
        BY <1>1, <2>3, BlockBounds DEF UsedBlocks
      <3>2. call.ptr \in Units
        <4>1. old # NULL
          BY <3>1 DEF NULL
        <4>2. call.ptr # NULL
          BY <4>1, HeapAssumption DEF payload_block, NULL
        <4> QED  BY <4>2, <1>1 DEF Call, Address
      <3> QED  BY <3>1, <3>2, <1>1, BlockOfPayload DEF NULL
    <2>5. /\ call.at \in Blocks(heap) /\ heap.free[call.at] /\ n \in Nat \ {0}
          /\ heap.size[call.at] >= n /\ p \in Units /\ call' = IdleCall /\ sums' = sums
          /\ call.asked \in Nat
      BY <1>4, <2>1
    <2>6. heap' = ReleaseBlock(Copy(taken, block_payload(call.at), block_payload(old),
                                    heap.size[old]), old)
      BY <2>2, <2>4
    <2> HIDE DEF old, n
    <2>7. heap' \in HeapType /\ Tiled(heap')
      BY <1>1, <2>3, <2>5, <2>6, MoveList
    <2>8. client' \in ClientType
      BY <1>1, <2>2, <2>4, <2>5, ClientTypes, PayloadInUnits
    <2> QED  BY <1>1, <2>2, <2>5, <2>7, <2>8, ReturnStructure
  <1>18. CASE StatsVisit
    <2>1. call.at \in Blocks(heap) /\ call.op # "idle" /\ heap.size[call.at] \in Nat
      BY <1>1, <1>18, BlockBounds DEF StatsVisit, CallOK
    <2>2. sums' \in [used : Nat, free : Nat, largest : Nat]
      <3>1. sums.used + heap.size[call.at] \in Nat /\ sums.free + heap.size[call.at] \in Nat
            /\ sums.largest \in Nat
        BY <1>1, <2>1
      <3>2. CASE heap.free[call.at] /\ heap.size[call.at] > sums.largest
        BY <1>1, <1>18, <2>1, <3>1, <3>2 DEF StatsVisit
      <3>3. CASE heap.free[call.at] /\ ~(heap.size[call.at] > sums.largest)
        BY <1>1, <1>18, <2>1, <3>1, <3>3 DEF StatsVisit
      <3>4. CASE ~heap.free[call.at]
        BY <1>1, <1>18, <2>1, <3>1, <3>4 DEF StatsVisit
      <3> QED  BY <3>2, <3>3, <3>4
    <2>3. /\ call' = [call EXCEPT !.at = heap.next[call.at]]
          /\ heap' = heap /\ client' = client /\ count' = count
      BY <1>18 DEF StatsVisit
    <2> QED  BY <2>1, <2>2, <2>3, <1>12
  <1>19. CASE StatsReturns
    <2>1. NoSums \in [used : Nat, free : Nat, largest : Nat]
      BY DEF NoSums
    <2> QED  BY <1>1, <1>19, <2>1, ReturnStructure DEF StatsReturns
  <1>20. CASE UNCHANGED vars
    BY <1>20 DEF vars, TypeOK, HeapTiled, CallOK, Searching
  <1> QED  BY <1>5, <1>6, <1>7, <1>8, <1>9, <1>10, <1>11, <1>13, <1>14, <1>15, <1>16, <1>17,
              <1>18, <1>19, <1>20 DEF Next, Begin, InPlace, Continue

-----------------------------------------------------------------------------
(* The results.                                                            *)

(* The inductive invariant: the types, the tiling, and what a call that is *)
(* walking the list relies on hold in every state (heap.c:55-212).         *)
THEOREM AlwaysStructure == Spec => []Structure
  <1>1. Init => Structure
    BY InitStructure
  <1>2. Structure /\ [Next]_vars => Structure'
    BY StructureStep
  <1> QED  BY <1>1, <1>2, PTL DEF Spec

(* Every variable of the heap keeps its type. *)
THEOREM TypesHold == Spec => []TypeOK
  <1>1. Structure => TypeOK
    BY DEF Structure
  <1> QED  BY <1>1, AlwaysStructure, PTL

(***************************************************************************)
(* The block list always tiles the array: no sequence of allocations,      *)
(* releases and reallocations of any sizes leaves a gap, an overlap, a     *)
(* wrong link or a live magic inside a payload (heap.c, for any heap size, *)
(* header size and alignment).                                             *)
(***************************************************************************)
THEOREM HeapIsTiled == Spec => []HeapTiled
  <1>1. Structure => HeapTiled
    BY DEF Structure
  <1> QED  BY <1>1, AlwaysStructure, PTL

-----------------------------------------------------------------------------
(* What callers hold: the second invariant, on top of Structure.           *)

(* Units whose contents a caller knows lie in the block it holds.          *)
ContentsKnown ==
  \A u \in Units : client.mirror[u] # Unknown =>
    /\ heap.data[u] = client.mirror[u]
    /\ \E b \in UsedBlocks(heap) : u \in Payload(heap, b)

(* Inductive, given Structure: the properties about callers, with what the *)
(* contents and the search need to be so.                                  *)
Ownership ==
  /\ CallersHoldUsedBlocks
  /\ GrantsAreTight
  /\ ContentsKnown
  /\ Searching => call.asked = AlignUp(call.size)

(* Payloads of different blocks have no unit in common. *)
LEMMA PayloadsDisjoint ==
  ASSUME NEW h \in HeapType, Tiled(h), NEW b \in Blocks(h), NEW c \in Blocks(h), b # c
  PROVE  Payload(h, b) \cap Payload(h, c) = {}
  <1>1. b \in Nat /\ c \in Nat /\ End(h, b) \in Nat /\ End(h, c) \in Nat
        /\ (b < c => End(h, b) <= c) /\ (c < b => End(h, c) <= b)
    BY BlockBounds
  <1>2. HeaderUnits \in Nat
    BY HeapAssumption
  <1> QED  BY <1>1, <1>2 DEF Payload, block_payload

(* A payload stays where it is as long as its block keeps its size. *)
LEMMA SamePayload ==
  ASSUME NEW h, NEW g, NEW b, g.size[b] = h.size[b]
  PROVE  Payload(g, b) = Payload(h, b)
  BY DEF Payload, End

(* A block's payload in numbers. *)
LEMMA PayloadExtent ==
  ASSUME NEW h \in HeapType, Tiled(h), NEW b \in Blocks(h)
  PROVE  /\ Payload(h, b) = block_payload(b) .. (block_payload(b) + h.size[b] - 1)
         /\ block_payload(b) \in Nat /\ block_payload(b) - HeaderUnits = b
  <1>1. b \in Nat /\ h.size[b] \in Nat /\ HeaderUnits \in Nat
    BY BlockBounds, HeapAssumption
  <1> QED  BY <1>1 DEF Payload, block_payload, End

(* The array is finite, so allocation_count can be a cardinality. *)
LEMMA UnitsFinite ==
  ASSUME NEW S \in SUBSET Units
  PROVE  IsFiniteSet(S) /\ Cardinality(S) \in Nat
  <1>1. IsFiniteSet(Units)
    BY HeapAssumption, FS_Interval DEF Units
  <1> QED  BY <1>1, FS_Subset, FS_CardinalityType

(* A guarded multiplication does not wrap. *)
LEMMA NoWrap ==
  ASSUME NEW k \in Nat, NEW s \in Nat, NEW m \in Nat, k # 0, s <= m \div k
  PROVE  k * s <= m
  <1> DEFINE q == m \div k
  <1>1. q \in Nat /\ k * q <= m
    OBVIOUS
  <1>2. q - s \in Nat /\ k * q = k * s + k * (q - s)
    BY <1>1
  <1>3. k * (q - s) \in Nat /\ k * s \in Nat /\ k * q \in Nat
    BY <1>1, <1>2
  <1> HIDE DEF q
  <1> QED  BY <1>1, <1>2, <1>3

(* The guard of heap_callocate makes its size_t product exact. *)
LEMMA CallocateAsks ==
  ASSUME NEW k \in Counts, NEW s \in Requests, k # 0 => s <= SizeMax \div k
  PROVE  (k * s) % (SizeMax + 1) = k * s
  <1>1. k \in Nat /\ s \in Nat /\ SizeMax \in Nat
    BY HeapAssumption
  <1>2. k * s <= SizeMax /\ k * s \in Nat
    <2>1. CASE k = 0
      BY <1>1, <2>1
    <2>2. CASE k # 0
      BY <1>1, <2>2, NoWrap
    <2> QED  BY <2>1, <2>2
  <1> QED  BY <1>1, <1>2

(* The owned pointers follow the used blocks, one more or one less.        *)
LEMMA OwnedAdds ==
  ASSUME NEW B \in SUBSET Units, NEW b \in Units
  PROVE  /\ {block_payload(c) : c \in B \cup {b}}
              = {block_payload(c) : c \in B} \cup {block_payload(b)}
         /\ {block_payload(c) : c \in B \ {b}}
              = {block_payload(c) : c \in B} \ {block_payload(b)}
         /\ b \notin B => block_payload(b) \notin {block_payload(c) : c \in B}
  <1>1. HeaderUnits \in Nat /\ HeapUnits \in Nat
    BY HeapAssumption
  <1>2. ASSUME NEW c \in Units, block_payload(c) = block_payload(b) PROVE c = b
    BY <1>1, <1>2 DEF block_payload, Units
  <1> QED  BY <1>2

(***************************************************************************)
(* A caller gets block `at`, of which n units were asked for and the first *)
(* z zeroed: heap_allocate and heap_callocate.                             *)
(***************************************************************************)
LEMMA GainOwnership ==
  ASSUME Structure, Ownership, NEW at \in Blocks(heap), heap.free[at],
         NEW n \in Nat \ {0}, heap.size[at] >= n, NEW z \in Nat, z <= n,
         NEW taken, taken = TakeBlock(heap, at, n),
         heap' \in HeapType, heap'.size = taken.size, UsedBlocks(heap') = UsedBlocks(taken),
         \A u \in Units : heap'.data[u] = IF u \in block_payload(at) .. (block_payload(at) + z - 1)
                                         THEN Zero ELSE taken.data[u],
         count' = count + 1, client' = Gains(client, block_payload(at), n, z), call' = IdleCall
  PROVE  Ownership'
  <1> DEFINE p == block_payload(at)
  <1>1. /\ heap \in HeapType /\ Tiled(heap) /\ client \in ClientType /\ count \in Nat
        /\ at \in Units /\ HeaderUnits \in Nat
    BY BlockBounds, HeapAssumption DEF Structure, TypeOK, HeapTiled
  <1>2. /\ taken \in HeapType /\ Tiled(taken)
        /\ UsedBlocks(taken) = UsedBlocks(heap) \cup {at} /\ at \notin UsedBlocks(heap)
        /\ taken.size[at] >= n /\ taken.size[at] <= n + HeaderUnits
        /\ \A c \in UsedBlocks(heap) : taken.size[c] = heap.size[c]
        /\ \A u \in Units \ Payload(heap, at) : taken.data[u] = heap.data[u]
    BY <1>1, TakeList
  <1>3. /\ client'.owned = client.owned \cup {p}
        /\ client'.asked = [client.asked EXCEPT ![p] = n]
        /\ \A u \in Units : client'.mirror[u] = IF u \in p .. (p + z - 1)
                                               THEN Zero ELSE client.mirror[u]
    BY DEF Gains
  <1>4. p \in Units /\ p \in Nat /\ p - HeaderUnits = at
    BY <1>1, PayloadOfBlock, PayloadExtent
  <1>5. UsedBlocks(heap) \in SUBSET Units
    BY DEF UsedBlocks, Blocks
  <1>6. CallersHoldUsedBlocks'
    <2>1. p \notin client.owned /\ client'.owned = {block_payload(b) : b \in UsedBlocks(heap')}
      BY <1>1, <1>2, <1>3, <1>5, OwnedAdds DEF Ownership, CallersHoldUsedBlocks
    <2>2. Cardinality(client'.owned) = Cardinality(client.owned) + 1
      <3>1. IsFiniteSet(client.owned)
        BY <1>1, UnitsFinite DEF ClientType
      <3> QED  BY <3>1, <2>1, <1>3, FS_AddElement
    <2> QED  BY <2>1, <2>2 DEF Ownership, CallersHoldUsedBlocks
  <1>7. GrantsAreTight'
    <2> SUFFICES ASSUME NEW q \in client'.owned
                 PROVE  /\ client'.asked[q] <= heap'.size[q - HeaderUnits]
                        /\ heap'.size[q - HeaderUnits] <= client'.asked[q] + HeaderUnits
      BY DEF GrantsAreTight
    <2>1. CASE q = p
      BY <2>1, <1>1, <1>2, <1>3, <1>4 DEF ClientType
    <2>2. CASE q # p
      <3>1. q \in client.owned
        BY <2>2, <1>3
      <3>2. PICK c \in UsedBlocks(heap) : q = block_payload(c)
        BY <3>1 DEF Ownership, CallersHoldUsedBlocks
      <3>3. q - HeaderUnits = c
        BY <3>2, <1>1, PayloadExtent DEF UsedBlocks
      <3>4. client.asked[q] <= heap.size[c] /\ heap.size[c] <= client.asked[q] + HeaderUnits
        BY <3>1, <3>3 DEF Ownership, GrantsAreTight
      <3>5. client'.asked[q] = client.asked[q] /\ heap'.size[c] = heap.size[c]
        BY <2>2, <3>1, <3>2, <1>1, <1>2, <1>3 DEF ClientType
      <3> QED  BY <3>3, <3>4, <3>5
    <2> QED  BY <2>1, <2>2
  <1>8. ContentsKnown'
    <2> SUFFICES ASSUME NEW u \in Units, client'.mirror[u] # Unknown
                 PROVE  /\ heap'.data[u] = client'.mirror[u]
                        /\ \E b \in UsedBlocks(heap') : u \in Payload(heap', b)
      BY DEF ContentsKnown
    <2>1. CASE u \in p .. (p + z - 1)
      <3>1. heap'.data[u] = client'.mirror[u]
        BY <2>1, <1>3
      <3>2. u \in Payload(heap', at)
        <4>1. at \in Blocks(taken) /\ taken.size[at] \in Nat
          BY <1>2, BlockBounds DEF UsedBlocks
        <4>2. Payload(taken, at) = p .. (p + taken.size[at] - 1)
          BY <4>1, <1>2, PayloadExtent
        <4>3. u \in Payload(taken, at)
          BY <2>1, <4>1, <4>2, <1>2, <1>4
        <4> QED  BY <4>3, SamePayload
      <3> QED  BY <3>1, <3>2, <1>2
    <2>2. CASE u \notin p .. (p + z - 1)
      <3>1. client'.mirror[u] = client.mirror[u]
        BY <2>2, <1>3
      <3>2. PICK c \in UsedBlocks(heap) : u \in Payload(heap, c)
        BY <3>1 DEF Ownership, ContentsKnown
      <3>3. c # at /\ c \in Blocks(heap)
        BY <1>2 DEF UsedBlocks
      <3>4. u \notin Payload(heap, at)
        BY <3>2, <3>3, <1>1, PayloadsDisjoint
      <3>5. heap'.data[u] = heap.data[u]
        BY <2>2, <3>4, <1>2
      <3>6. u \in Payload(heap', c) /\ c \in UsedBlocks(heap')
        BY <3>2, <1>2, SamePayload
      <3> QED  BY <3>1, <3>5, <3>6 DEF Ownership, ContentsKnown
    <2> QED  BY <2>1, <2>2
  <1>9. ~Searching'
    BY DEF Searching, IdleCall
  <1> QED  BY <1>6, <1>7, <1>8, <1>9 DEF Ownership

(* A caller gives its block back: heap_release. *)
LEMMA ReleaseOwnership ==
  ASSUME Structure, Ownership, NEW p \in Units, heap_release(p)
  PROVE  Ownership'
  <1> DEFINE b == payload_block(heap, p)
  <1>1. /\ heap \in HeapType /\ Tiled(heap) /\ client \in ClientType /\ count \in Nat
        /\ HeaderUnits \in Nat
    BY HeapAssumption DEF Structure, TypeOK, HeapTiled
  <1>2. /\ b # NULL /\ ~heap.free[b] /\ heap' = ReleaseBlock(heap, b)
        /\ count' = IF count # 0 THEN count - 1 ELSE count
        /\ client' = Loses(client, p, Payload(heap, b))
        /\ call = IdleCall /\ call' = call
    BY DEF heap_release
  <1>3. b \in UsedBlocks(heap) /\ block_payload(b) = p /\ b \in Units
    BY <1>1, <1>2, BlockOfPayload, BlockBounds DEF UsedBlocks
  <1> HIDE DEF b
  <1>4. /\ UsedBlocks(heap') = UsedBlocks(heap) \ {b}
        /\ \A c \in UsedBlocks(heap') : heap'.size[c] = heap.size[c]
        /\ \A u \in Units \ Payload(heap, b) : heap'.data[u] = heap.data[u]
    BY <1>1, <1>2, <1>3, ReleaseList
  <1>5. /\ client'.owned = client.owned \ {p}
        /\ client'.asked = [client.asked EXCEPT ![p] = 0]
        /\ \A u \in Units : client'.mirror[u] = IF u \in Payload(heap, b)
                                               THEN Unknown ELSE client.mirror[u]
    BY <1>2 DEF Loses
  <1>6. UsedBlocks(heap) \in SUBSET Units
    BY DEF UsedBlocks, Blocks
  <1>7. CallersHoldUsedBlocks'
    <2>1. p \in client.owned
      BY <1>3 DEF Ownership, CallersHoldUsedBlocks
    <2>2. client'.owned = {block_payload(c) : c \in UsedBlocks(heap')}
      <3>1. {block_payload(c) : c \in UsedBlocks(heap) \ {b}}
              = {block_payload(c) : c \in UsedBlocks(heap)} \ {block_payload(b)}
        BY <1>3, <1>6, OwnedAdds
      <3>2. client.owned = {block_payload(c) : c \in UsedBlocks(heap)}
        BY DEF Ownership, CallersHoldUsedBlocks
      <3>3. {block_payload(c) : c \in UsedBlocks(heap')} = client.owned \ {p}
        BY <3>1, <3>2, <1>3, <1>4
      <3> QED  BY <3>3, <1>5
    <2>3. IsFiniteSet(client.owned)
      BY <1>1, UnitsFinite DEF ClientType
    <2>4. Cardinality(client.owned \ {p}) = Cardinality(client.owned) - 1
      BY <2>1, <2>3, FS_RemoveElement
    <2>5. Cardinality(client.owned) \in Nat /\ Cardinality(client.owned \ {p}) \in Nat
      BY <2>3, FS_RemoveElement, FS_CardinalityType
    <2>6. count = Cardinality(client.owned)
      BY DEF Ownership, CallersHoldUsedBlocks
    <2>7. count' = Cardinality(client'.owned)
      BY <2>4, <2>5, <2>6, <1>2, <1>5
    <2> QED  BY <2>2, <2>7 DEF CallersHoldUsedBlocks
  <1>8. GrantsAreTight'
    <2> SUFFICES ASSUME NEW q \in client'.owned
                 PROVE  /\ client'.asked[q] <= heap'.size[q - HeaderUnits]
                        /\ heap'.size[q - HeaderUnits] <= client'.asked[q] + HeaderUnits
      BY DEF GrantsAreTight
    <2>1. q \in client.owned /\ q # p
      BY <1>5
    <2>2. PICK c \in UsedBlocks(heap) : q = block_payload(c)
      BY <2>1 DEF Ownership, CallersHoldUsedBlocks
    <2>3. q - HeaderUnits = c /\ c # b
      BY <2>1, <2>2, <1>1, <1>3, PayloadExtent DEF UsedBlocks
    <2>4. client.asked[q] <= heap.size[c] /\ heap.size[c] <= client.asked[q] + HeaderUnits
      BY <2>1, <2>3 DEF Ownership, GrantsAreTight
    <2>5. client'.asked[q] = client.asked[q] /\ heap'.size[c] = heap.size[c]
      BY <2>1, <2>2, <2>3, <1>1, <1>4, <1>5 DEF ClientType
    <2> QED  BY <2>3, <2>4, <2>5
  <1>9. ContentsKnown'
    <2> SUFFICES ASSUME NEW u \in Units, client'.mirror[u] # Unknown
                 PROVE  /\ heap'.data[u] = client'.mirror[u]
                        /\ \E c \in UsedBlocks(heap') : u \in Payload(heap', c)
      BY DEF ContentsKnown
    <2>1. u \notin Payload(heap, b) /\ client'.mirror[u] = client.mirror[u]
      BY <1>5
    <2>2. PICK c \in UsedBlocks(heap) : u \in Payload(heap, c)
      BY <2>1 DEF Ownership, ContentsKnown
    <2>3. c \in UsedBlocks(heap') /\ u \in Payload(heap', c)
      BY <2>1, <2>2, <1>4, SamePayload
    <2>4. heap'.data[u] = heap.data[u]
      BY <2>1, <1>4
    <2> QED  BY <2>1, <2>3, <2>4 DEF Ownership, ContentsKnown
  <1>10. ~Searching'
    BY <1>2 DEF Searching, IdleCall
  <1> QED  BY <1>7, <1>8, <1>9, <1>10 DEF Ownership

(***************************************************************************)
(* A caller's block is resized or moved: old becomes new, for a request of *)
(* n units, and the units that a move copies are where Moves says.         *)
(***************************************************************************)
LEMMA MoveOwnership ==
  ASSUME Structure, Ownership, NEW old \in UsedBlocks(heap), NEW new \in Blocks(heap),
         new = old \/ new \notin UsedBlocks(heap), NEW n \in Nat,
         heap' \in HeapType, Tiled(heap'),
         UsedBlocks(heap') = (UsedBlocks(heap) \ {old}) \cup {new},
         heap'.size[new] >= n, heap'.size[new] <= n + HeaderUnits,
         \A c \in UsedBlocks(heap) \ {old} : heap'.size[c] = heap.size[c],
         \A c \in UsedBlocks(heap) \ {old} : \A u \in Payload(heap, c) : heap'.data[u] = heap.data[u],
         \A u \in Payload(heap', new) :
            LET from == u - block_payload(new) + block_payload(old) IN
            from \in Payload(heap, old) => heap'.data[u] = heap.data[from],
         count' = count, call' = IdleCall,
         client' = Moves(client, block_payload(old), Payload(heap, old),
                         block_payload(new), Payload(heap', new), n)
  PROVE  Ownership'
  <1> DEFINE p == block_payload(old)
             q == block_payload(new)
  <1>1. /\ heap \in HeapType /\ Tiled(heap) /\ client \in ClientType
        /\ HeaderUnits \in Nat /\ old \in Blocks(heap) /\ old \in Units /\ new \in Units
    BY HeapAssumption, BlockBounds DEF Structure, TypeOK, HeapTiled, UsedBlocks
  <1>2. /\ p \in Units /\ p \in Nat /\ p - HeaderUnits = old
        /\ q \in Units /\ q \in Nat /\ q - HeaderUnits = new
    BY <1>1, PayloadOfBlock, PayloadExtent
  <1>3. /\ client'.owned = (client.owned \ {p}) \cup {q}
        /\ \A u \in Units : client'.asked[u] = IF u = q THEN n ELSE IF u = p THEN 0 ELSE client.asked[u]
        /\ \A u \in Units : client'.mirror[u] =
              IF u \in Payload(heap', new)
              THEN IF u - q + p \in Payload(heap, old) THEN client.mirror[u - q + p] ELSE Unknown
              ELSE IF u \in Payload(heap, old) THEN Unknown
              ELSE client.mirror[u]
    BY DEF Moves
  <1>4. UsedBlocks(heap) \in SUBSET Units /\ client.owned = {block_payload(c) : c \in UsedBlocks(heap)}
    BY DEF UsedBlocks, Blocks, Ownership, CallersHoldUsedBlocks
  <1>5. p \in client.owned /\ (q = p \/ q \notin client.owned)
    BY <1>1, <1>4, OwnedAdds
  <1>6. CallersHoldUsedBlocks'
    <2>1. {block_payload(c) : c \in UsedBlocks(heap) \ {old}} = client.owned \ {p}
      BY <1>1, <1>4, OwnedAdds
    <2>2. {block_payload(c) : c \in (UsedBlocks(heap) \ {old}) \cup {new}}
             = {block_payload(c) : c \in UsedBlocks(heap) \ {old}} \cup {q}
      OBVIOUS
    <2>3. client'.owned = {block_payload(c) : c \in UsedBlocks(heap')}
      BY <2>1, <2>2, <1>3
    <2>4. IsFiniteSet(client.owned)
      BY <1>1, UnitsFinite DEF ClientType
    <2>5. Cardinality(client'.owned) = Cardinality(client.owned)
      <3>1. CASE q = p
        <4>1. (client.owned \ {p}) \cup {p} = client.owned
          BY <1>5
        <4>2. client'.owned = (client.owned \ {p}) \cup {p}
          BY <3>1, <1>3
        <4> QED  BY <4>1, <4>2
      <3>2. CASE q # p
        <4>1. IsFiniteSet(client.owned \ {p})
              /\ Cardinality(client.owned \ {p}) = Cardinality(client.owned) - 1
          BY <2>4, <1>5, FS_RemoveElement
        <4>2. Cardinality((client.owned \ {p}) \cup {q}) = Cardinality(client.owned \ {p}) + 1
          BY <3>2, <4>1, <1>5, FS_AddElement
        <4>3. Cardinality(client.owned) \in Nat
          BY <2>4, FS_CardinalityType
        <4> QED  BY <4>1, <4>2, <4>3, <1>3
      <3> QED  BY <3>1, <3>2
    <2> QED  BY <2>3, <2>5 DEF Ownership, CallersHoldUsedBlocks
  <1>7. GrantsAreTight'
    <2> SUFFICES ASSUME NEW a \in client'.owned
                 PROVE  /\ client'.asked[a] <= heap'.size[a - HeaderUnits]
                        /\ heap'.size[a - HeaderUnits] <= client'.asked[a] + HeaderUnits
      BY DEF GrantsAreTight
    <2>1. CASE a = q
      BY <2>1, <1>2, <1>3
    <2>2. CASE a # q
      <3>1. a \in client.owned /\ a # p
        BY <2>2, <1>3
      <3>2. PICK c \in UsedBlocks(heap) : a = block_payload(c)
        BY <3>1, <1>4
      <3>3. a - HeaderUnits = c /\ c # old /\ a \in Units
        BY <3>1, <3>2, <1>1, PayloadExtent, PayloadOfBlock DEF UsedBlocks
      <3>4. client.asked[a] <= heap.size[c] /\ heap.size[c] <= client.asked[a] + HeaderUnits
        BY <3>1, <3>3 DEF Ownership, GrantsAreTight
      <3>5. client'.asked[a] = client.asked[a] /\ heap'.size[c] = heap.size[c]
        BY <2>2, <3>1, <3>2, <3>3, <1>3
      <3> QED  BY <3>3, <3>4, <3>5
    <2> QED  BY <2>1, <2>2
  <1>8. ContentsKnown'
    <2> SUFFICES ASSUME NEW u \in Units, client'.mirror[u] # Unknown
                 PROVE  /\ heap'.data[u] = client'.mirror[u]
                        /\ \E b \in UsedBlocks(heap') : u \in Payload(heap', b)
      BY DEF ContentsKnown
    <2>1. CASE u \in Payload(heap', new)
      <3>1. /\ u - q + p \in Payload(heap, old)
            /\ client'.mirror[u] = client.mirror[u - q + p]
        BY <2>1, <1>3
      <3>2. u - q + p \in Units
        BY <3>1, <1>1, PayloadInUnits
      <3>3. heap.data[u - q + p] = client.mirror[u - q + p]
        BY <3>1, <3>2 DEF Ownership, ContentsKnown
      <3>4. heap'.data[u] = heap.data[u - q + p]
        BY <2>1, <3>1
      <3> QED  BY <2>1, <3>1, <3>3, <3>4
    <2>2. CASE u \notin Payload(heap', new)
      <3>1. u \notin Payload(heap, old) /\ client'.mirror[u] = client.mirror[u]
        BY <2>2, <1>3
      <3>2. PICK c \in UsedBlocks(heap) : u \in Payload(heap, c)
        BY <3>1 DEF Ownership, ContentsKnown
      <3>3. c # old
        BY <3>1, <3>2
      <3>4. heap'.data[u] = heap.data[u] /\ u \in Payload(heap', c) /\ c \in UsedBlocks(heap')
        BY <3>2, <3>3, SamePayload
      <3> QED  BY <3>1, <3>4 DEF Ownership, ContentsKnown
    <2> QED  BY <2>1, <2>2
  <1>9. ~Searching'
    BY DEF Searching, IdleCall
  <1> QED  BY <1>6, <1>7, <1>8, <1>9 DEF Ownership

(***************************************************************************)
(* Every step of heap.c keeps what callers hold and what they know of its  *)
(* contents in agreement with the list, given that the list is a tiling    *)
(* before and after.                                                       *)
(***************************************************************************)
THEOREM OwnershipStep == Structure /\ Structure' /\ Ownership /\ [Next]_vars => Ownership'
  <1> SUFFICES ASSUME Structure, Structure', Ownership, [Next]_vars PROVE Ownership'
    OBVIOUS
  <1>1. /\ heap \in HeapType /\ Tiled(heap) /\ call \in Call /\ client \in ClientType
        /\ heap' \in HeapType /\ Tiled(heap')
        /\ HeaderUnits \in Nat /\ Requests \subseteq Nat
    BY HeapAssumption DEF Structure, TypeOK, HeapTiled
  <1>2. ASSUME UNCHANGED <<heap, count, client>>, Searching' => call'.asked = AlignUp(call'.size)
        PROVE  Ownership'
    BY <1>2 DEF Ownership, CallersHoldUsedBlocks, GrantsAreTight, ContentsKnown, Searching
  <1>3. ASSUME NEW op, Found(op), Searching
        PROVE  /\ call.at \in Blocks(heap) /\ heap.free[call.at]
               /\ AlignUp(call.size) \in Nat \ {0} /\ heap.size[call.at] >= AlignUp(call.size)
               /\ call.asked = AlignUp(call.size) /\ call' = IdleCall
               /\ call.size \in Nat /\ Allocatable(call.size)
    <2>1. call.size \in Nat /\ call.op # "idle"
      BY <1>1, <1>3 DEF Call, Searching
    <2>2. call.at \in Blocks(heap) /\ Allocatable(call.size)
      BY <1>3, <2>1 DEF Found, CallOK, Structure
    <2> QED  BY <1>3, <2>1, <2>2, Rounding DEF Found, Fitting, Ownership
  <1>4. CASE \E s \in Requests : heap_allocate(s)
    <2>1. PICK s \in Requests : heap_allocate(s)
      BY <1>4
    <2>2. AlignUp(s) = UnitsFor(s)
      BY <1>1, <2>1, Rounding DEF heap_allocate
    <2> QED  BY <1>2, <2>1, <2>2 DEF heap_allocate, Walk
  <1>5. CASE \E k \in Counts, s \in Requests : heap_callocate(k, s)
    <2>1. PICK k \in Counts, s \in Requests : heap_callocate(k, s)
      BY <1>5
    <2>2. /\ k # 0 => s <= SizeMax \div k
          /\ Allocatable((k * s) % (SizeMax + 1))
          /\ Walk("callocate", NULL, (k * s) % (SizeMax + 1), UnitsFor(k * s))
      BY <2>1 DEF heap_callocate
    <2>3. (k * s) % (SizeMax + 1) = k * s /\ k * s \in Nat
      BY <2>2, CallocateAsks, Product
    <2>4. AlignUp(k * s) = UnitsFor(k * s) /\ Walk("callocate", NULL, k * s, UnitsFor(k * s))
      BY <2>2, <2>3, Rounding
    <2> QED  BY <1>2, <2>4 DEF Walk
  <1>6. CASE \E p \in Units, s \in Requests : ReallocateMoves(p, s)
    <2>1. PICK p \in Units, s \in Requests : ReallocateMoves(p, s)
      BY <1>6
    <2>2. AlignUp(s) = UnitsFor(s) /\ Walk("reallocate", p, s, UnitsFor(s))
      BY <1>1, <2>1, Rounding DEF ReallocateMoves, Reallocatable
    <2> QED  BY <1>2, <2>2 DEF Walk
  <1>7. CASE heap_stats
    BY <1>2, <1>7 DEF heap_stats, Walk, Searching
  <1>8. CASE \E p \in Units : heap_release(p)
    BY <1>8, ReleaseOwnership
  <1>9. ASSUME NEW p \in Units, NEW s \in Requests,
               ReallocateInBlock(p, s) \/ ReallocateIntoNext(p, s)
        PROVE  Ownership'
    <2> DEFINE b == payload_block(heap, p)
               n == AlignUp(s)
    <2>1. Reallocatable(p, s) /\ Resized(p, b, s)
      BY <1>9 DEF ReallocateInBlock, ReallocateIntoNext
    <2>2. /\ b \in UsedBlocks(heap) /\ b \in Blocks(heap) /\ block_payload(b) = p
          /\ n \in Nat \ {0} /\ n = UnitsFor(s) /\ call = IdleCall
      BY <2>1, <1>1, BlockOfPayload, Rounding DEF Reallocatable, UsedBlocks
    <2>3. /\ client' = Moves(client, p, Payload(heap, b), p, Payload(heap', b), n)
          /\ count' = count /\ call' = call
      BY <2>1, <2>2 DEF Resized
    <2>4. \E base \in HeapType :
            /\ Tiled(base) /\ b \in Blocks(base) /\ base.size[b] >= n
            /\ UsedBlocks(base) = UsedBlocks(heap)
            /\ \A c \in UsedBlocks(heap) \ {b} : base.size[c] = heap.size[c]
            /\ \A u \in Units : base.data[u] = heap.data[u]
            /\ heap' = split_block(base, b, n)
      <3>1. CASE ReallocateInBlock(p, s)
        BY <3>1, <1>1, <2>2 DEF ReallocateInBlock
      <3>2. CASE ReallocateIntoNext(p, s)
        <4> DEFINE merged == merge_with_next(heap, b)
        <4>1. GrowsInPlace(b, n) /\ heap' = split_block(merged, b, n)
          BY <3>2 DEF ReallocateIntoNext
        <4>2. merged \in HeapType /\ Tiled(merged) /\ b \in Blocks(merged)
              /\ merged.size[b] >= n
              /\ UsedBlocks(merged) = UsedBlocks(heap)
              /\ (\A c \in Blocks(merged) \ {b} : merged.size[c] = heap.size[c])
              /\ (\A u \in Units : merged.data[u] = heap.data[u])
          BY <4>1, <1>1, <2>2, MergeBlock DEF GrowsInPlace
        <4>3. \A c \in UsedBlocks(heap) \ {b} : merged.size[c] = heap.size[c]
          BY <4>2 DEF UsedBlocks
        <4> HIDE DEF merged, b, n
        <4> QED  BY <4>1, <4>2, <4>3
      <3> QED  BY <3>1, <3>2, <1>9
    <2>5. PICK base \in HeapType :
            /\ Tiled(base) /\ b \in Blocks(base) /\ base.size[b] >= n
            /\ UsedBlocks(base) = UsedBlocks(heap)
            /\ \A c \in UsedBlocks(heap) \ {b} : base.size[c] = heap.size[c]
            /\ \A u \in Units : base.data[u] = heap.data[u]
            /\ heap' = split_block(base, b, n)
      BY <2>4
    <2> HIDE DEF b, n
    <2>6. /\ heap'.size[b] >= n /\ heap'.size[b] <= n + HeaderUnits
          /\ UsedBlocks(heap') = UsedBlocks(heap)
          /\ \A c \in Blocks(base) \ {b} : heap'.size[c] = base.size[c]
          /\ b \in Blocks(heap')
          /\ \A u \in Units :
               u \notin Payload(base, b) \/ u \in Payload(heap', b) => heap'.data[u] = base.data[u]
      BY <2>2, <2>5, SplitBlock
    <2>7. \A c \in UsedBlocks(heap) \ {b} : heap'.size[c] = heap.size[c]
      BY <2>5, <2>6 DEF UsedBlocks
    <2>8. ASSUME NEW c \in UsedBlocks(heap) \ {b}, NEW u \in Payload(heap, c)
          PROVE  heap'.data[u] = heap.data[u]
      <3>1. c \in Blocks(heap) /\ c \in Blocks(base)
        BY <2>5 DEF UsedBlocks
      <3>2. u \in Units
        BY <3>1, <1>1, PayloadInUnits
      <3>3. u \in Payload(base, c)
        BY <2>5, SamePayload
      <3>4. u \notin Payload(base, b)
        BY <3>1, <3>3, <2>5, PayloadsDisjoint
      <3> QED  BY <3>2, <3>4, <2>5, <2>6
    <2>9. ASSUME NEW u \in Payload(heap', b)
          PROVE  u - p + p = u /\ heap'.data[u] = heap.data[u]
      <3>1. u \in Units /\ u \in Int /\ p \in Int
        BY <1>1, <2>6, PayloadInUnits DEF Units
      <3> QED  BY <3>1, <2>5, <2>6
    <2>10. UsedBlocks(heap') = (UsedBlocks(heap) \ {b}) \cup {b}
      BY <2>2, <2>6
    <2>11. call' = IdleCall /\ n \in Nat
      BY <2>2, <2>3
    <2>12. \A u \in Payload(heap', b) :
             LET from == u - block_payload(b) + block_payload(b) IN
             from \in Payload(heap, b) => heap'.data[u] = heap.data[from]
      BY <2>2, <2>9
    <2> QED  BY <1>1, <2>2, <2>3, <2>6, <2>7, <2>8, <2>10, <2>11, <2>12, MoveOwnership
  <1>10. CASE \E p \in Units, v \in Values : Write(p, v)
    <2>1. PICK p \in Units, v \in Values : Write(p, v)
      BY <1>10
    <2> DEFINE b == payload_block(heap, p)
               m == [u \in Units |-> IF u \in Payload(heap, b) THEN v ELSE client.mirror[u]]
    <2>2. /\ call = IdleCall /\ count' = count /\ call' = call /\ p \in client.owned
          /\ heap' = Fill(heap, p, heap.size[b], v)
          /\ client' = [client EXCEPT !.mirror = m]
      BY <2>1 DEF Write
    <2>3. PICK c \in UsedBlocks(heap) : p = block_payload(c)
      BY <2>2 DEF Ownership, CallersHoldUsedBlocks
    <2>4. c = b /\ b \in Blocks(heap)
      BY <2>3, <1>1, PayloadOfBlock DEF UsedBlocks
    <2>5. Payload(heap, b) = p .. (p + heap.size[b] - 1)
      BY <2>3, <2>4, <1>1, PayloadExtent
    <2> HIDE DEF b
    <2>6. /\ heap'.size = heap.size /\ heap'.magic = heap.magic /\ heap'.free = heap.free
          /\ \A u \in Units : heap'.data[u] = IF u \in Payload(heap, b) THEN v ELSE heap.data[u]
      BY <1>1, <2>2, <2>5, FillFields
    <2>7. UsedBlocks(heap') = UsedBlocks(heap)
          /\ \A a \in UsedBlocks(heap) : Payload(heap', a) = Payload(heap, a)
      BY <2>6 DEF UsedBlocks, Blocks, Payload, End
    <2>8. /\ client'.owned = client.owned /\ client'.asked = client.asked
          /\ \A u \in Units : client'.mirror[u] = IF u \in Payload(heap, b) THEN v ELSE client.mirror[u]
      BY <1>1, <2>2 DEF ClientType
    <2>9. CallersHoldUsedBlocks'
      BY <2>2, <2>7, <2>8 DEF Ownership, CallersHoldUsedBlocks
    <2>10. GrantsAreTight'
      BY <2>6, <2>8 DEF Ownership, GrantsAreTight
    <2>11. ContentsKnown'
      <3> SUFFICES ASSUME NEW u \in Units, client'.mirror[u] # Unknown
                   PROVE  /\ heap'.data[u] = client'.mirror[u]
                          /\ \E a \in UsedBlocks(heap') : u \in Payload(heap', a)
        BY DEF ContentsKnown
      <3>1. CASE u \in Payload(heap, b)
        BY <3>1, <2>3, <2>4, <2>6, <2>7, <2>8
      <3>2. CASE u \notin Payload(heap, b)
        BY <3>2, <2>6, <2>7, <2>8 DEF Ownership, ContentsKnown
      <3> QED  BY <3>1, <3>2
    <2>12. ~Searching'
      BY <2>2 DEF Searching, IdleCall
    <2> QED  BY <2>9, <2>10, <2>11, <2>12 DEF Ownership
  <1>11. CASE SearchNext
    <2>1. /\ call'.asked = call.asked /\ call'.size = call.size
          /\ UNCHANGED <<heap, count, client>> /\ Searching
      BY <1>1, <1>11 DEF SearchNext, Call
    <2> QED  BY <1>2, <2>1 DEF Ownership
  <1>12. CASE SearchFails
    BY <1>2, <1>12 DEF SearchFails, Searching, IdleCall
  <1>13. CASE AllocateReturns
    <2>1. Searching /\ Found("allocate")
      BY <1>13 DEF AllocateReturns, Found, Searching
    <2>2. /\ heap' = TakeBlock(heap, call.at, AlignUp(call.size))
          /\ count' = count + 1
          /\ client' = Gains(client, block_payload(call.at), AlignUp(call.size), 0)
      BY <1>3, <1>13, <2>1 DEF AllocateReturns
    <2>3. block_payload(call.at) \in Nat
      BY <1>1, <1>3, <2>1, PayloadExtent
    <2>4. block_payload(call.at) .. (block_payload(call.at) + 0 - 1) = {}
      BY <2>3
    <2>5. \A u \in Units : heap'.data[u] =
             IF u \in block_payload(call.at) .. (block_payload(call.at) + 0 - 1)
             THEN Zero ELSE heap'.data[u]
      BY <2>4
    <2> QED  BY <1>1, <1>3, <2>1, <2>2, <2>5, GainOwnership
  <1>14. CASE CallocateReturns
    <2> DEFINE taken == TakeBlock(heap, call.at, AlignUp(call.size))
               zeroed == call.size \div Alignment
    <2>1. Searching /\ Found("callocate")
      BY <1>14 DEF CallocateReturns, Found, Searching
    <2>2. /\ heap' = Fill(taken, block_payload(call.at), zeroed, Zero)
          /\ count' = count + 1
          /\ client' = Gains(client, block_payload(call.at), AlignUp(call.size), zeroed)
      BY <1>3, <1>14, <2>1 DEF CallocateReturns
    <2>3. zeroed \in Nat /\ zeroed <= AlignUp(call.size)
      <3>1. Alignment \in Nat \ {0} /\ call.size \in Nat
        BY <1>3, <2>1, HeapAssumption
      <3>2. zeroed \in Nat
        BY <3>1, Division
      <3>3. AlignUp(call.size) = (call.size + Alignment - 1) \div Alignment
        BY <1>3, <2>1, Rounding DEF UnitsFor
      <3> QED  BY <3>1, <3>2, <3>3, DivisionGrows
    <2>4. taken \in HeapType /\ Tiled(taken)
      BY <1>1, <1>3, <2>1, TakeList
    <2> HIDE DEF zeroed
    <2>5. /\ heap'.size = taken.size /\ heap'.magic = taken.magic /\ heap'.free = taken.free
          /\ \A u \in Units : heap'.data[u] =
               IF u \in block_payload(call.at) .. (block_payload(call.at) + zeroed - 1)
               THEN Zero ELSE taken.data[u]
      BY <2>2, <2>4, FillFields, HeapAssumption
    <2>6. UsedBlocks(heap') = UsedBlocks(taken)
      BY <2>5 DEF UsedBlocks, Blocks
    <2> QED  BY <1>1, <1>3, <2>1, <2>2, <2>3, <2>5, <2>6, GainOwnership
  <1>15. CASE ReallocateReturns
    <2> DEFINE old == payload_block(heap, call.ptr)
               n == AlignUp(call.size)
               taken == TakeBlock(heap, call.at, n)
    <2>1. Searching /\ Found("reallocate") /\ call.op = "reallocate"
      BY <1>15 DEF ReallocateReturns, Found, Searching
    <2>2. old \in UsedBlocks(heap) /\ heap.size[old] < n
      BY <2>1 DEF CallOK, Structure
    <2>3. call.ptr = block_payload(old) /\ old \in Blocks(heap)
      <3>1. old \in Blocks(heap) /\ old \in Nat
        BY <1>1, <2>2, BlockBounds DEF UsedBlocks
      <3>2. old # NULL /\ call.ptr # NULL
        BY <3>1, HeapAssumption DEF payload_block, NULL
      <3> QED  BY <3>1, <3>2, <1>1, BlockOfPayload DEF Call, Address
    <2>4. /\ heap' = ReleaseBlock(Copy(taken, block_payload(call.at), block_payload(old),
                                      heap.size[old]), old)
          /\ client' = Moves(client, block_payload(old), Payload(heap, old),
                            block_payload(call.at), Payload(taken, call.at), n)
          /\ count' = count
      BY <1>3, <1>15, <2>1, <2>3 DEF ReallocateReturns
    <2>5. /\ call.at \in Blocks(heap) /\ heap.free[call.at] /\ n \in Nat \ {0}
          /\ heap.size[call.at] >= n /\ call' = IdleCall
      BY <1>3, <2>1
    <2> HIDE DEF old, n, taken
    <2>6. /\ UsedBlocks(heap') = (UsedBlocks(heap) \ {old}) \cup {call.at}
          /\ call.at \notin UsedBlocks(heap)
          /\ taken.size[call.at] >= n /\ taken.size[call.at] <= n + HeaderUnits
          /\ heap'.size[call.at] = taken.size[call.at]
          /\ \A c \in UsedBlocks(heap) \ {old} : heap'.size[c] = heap.size[c]
          /\ \A u \in Units \ (Payload(heap, old) \cup Payload(heap, call.at)) :
               heap'.data[u] = heap.data[u]
          /\ \A u \in block_payload(call.at) .. (block_payload(call.at) + heap.size[old] - 1) :
               heap'.data[u] = heap.data[u - block_payload(call.at) + block_payload(old)]
      BY <1>1, <2>2, <2>4, <2>5, MoveList DEF taken
    <2>7. Payload(heap', call.at) = Payload(taken, call.at)
      BY <2>6, SamePayload
    <2>8. ASSUME NEW c \in UsedBlocks(heap) \ {old}, NEW u \in Payload(heap, c)
          PROVE  heap'.data[u] = heap.data[u]
      <3>1. c \in Blocks(heap) /\ c # call.at
        BY <2>6 DEF UsedBlocks
      <3>2. u \in Units /\ u \notin Payload(heap, old) /\ u \notin Payload(heap, call.at)
        BY <3>1, <1>1, <2>3, <2>5, PayloadInUnits, PayloadsDisjoint
      <3> QED  BY <3>2, <2>6
    <2>9. ASSUME NEW u \in Payload(heap', call.at),
                 u - block_payload(call.at) + block_payload(old) \in Payload(heap, old)
          PROVE  heap'.data[u] = heap.data[u - block_payload(call.at) + block_payload(old)]
      <3>1. Payload(heap, old) = block_payload(old) .. (block_payload(old) + heap.size[old] - 1)
            /\ block_payload(old) \in Nat /\ block_payload(call.at) \in Nat
            /\ heap.size[old] \in Nat
        BY <1>1, <2>3, <2>5, PayloadExtent, BlockBounds
      <3>2. u \in Int
        <4>1. call.at \in Blocks(heap')
          BY <2>6 DEF UsedBlocks
        <4> QED  BY <4>1, <1>1, PayloadInUnits DEF Units
      <3>3. u \in block_payload(call.at) .. (block_payload(call.at) + heap.size[old] - 1)
        BY <2>9, <3>1, <3>2
      <3> QED  BY <3>3, <2>6
    <2>10. heap'.size[call.at] >= n /\ heap'.size[call.at] <= n + HeaderUnits /\ n \in Nat
      BY <2>5, <2>6
    <2> QED  BY <1>1, <2>2, <2>4, <2>5, <2>6, <2>7, <2>8, <2>9, <2>10, MoveOwnership
  <1>16. CASE StatsVisit
    <2>1. call'.op = "stats" /\ UNCHANGED <<heap, count, client>>
      BY <1>1, <1>16 DEF StatsVisit, Call
    <2> QED  BY <1>2, <2>1 DEF Searching
  <1>17. CASE StatsReturns
    BY <1>2, <1>17 DEF StatsReturns, Searching, IdleCall
  <1>18. CASE UNCHANGED vars
    BY <1>18 DEF vars, Ownership, CallersHoldUsedBlocks, GrantsAreTight, ContentsKnown, Searching
  <1> QED  BY <1>4, <1>5, <1>6, <1>7, <1>8, <1>9, <1>10, <1>11, <1>12, <1>13, <1>14, <1>15, <1>16,
              <1>17, <1>18 DEF Next, Begin, InPlace, Continue

-----------------------------------------------------------------------------
(* The results about callers.                                              *)

(* Nobody holds anything after heap_init. *)
LEMMA InitOwnership == Init => Ownership
  <1> SUFFICES ASSUME Init PROVE Ownership
    OBVIOUS
  <1>1. UsedBlocks(heap) = {} /\ client.owned = {} /\ count = 0 /\ call = IdleCall
    BY DEF Init, UsedBlocks, Blocks, NoClient
  <1>2. Cardinality({}) = 0
    BY FS_EmptySet
  <1>3. \A u \in Units : client.mirror[u] = Unknown
    BY DEF Init, NoClient
  <1> QED  BY <1>1, <1>2, <1>3
           DEF Ownership, CallersHoldUsedBlocks, GrantsAreTight, ContentsKnown, Searching, IdleCall

(* The second inductive invariant: what callers hold and know agrees with  *)
(* the list in every state (heap.c:93-187).                                *)
THEOREM AlwaysOwnership == Spec => []Ownership
  <1>1. Init => Ownership
    BY InitOwnership
  <1>2. Structure /\ Structure' /\ Ownership /\ [Next]_vars => Ownership'
    BY OwnershipStep
  <1> QED  BY <1>1, <1>2, AlwaysStructure, PTL DEF Spec

(***************************************************************************)
(* The pointers callers hold are the payloads of the blocks in use, and    *)
(* allocation_count counts them: heap_release and the moving               *)
(* heap_reallocate never free, leak or hand out twice (heap.c:93-187).     *)
(***************************************************************************)
THEOREM CallersHold == Spec => []CallersHoldUsedBlocks
  <1>1. Ownership => CallersHoldUsedBlocks
    BY DEF Ownership
  <1> QED  BY <1>1, AlwaysOwnership, PTL

(***************************************************************************)
(* Every block is as large as asked for, the product of heap_callocate     *)
(* included, and at most a header larger (split_block, heap.c:76-91).      *)
(***************************************************************************)
THEOREM GrantsTight == Spec => []GrantsAreTight
  <1>1. Ownership => GrantsAreTight
    BY DEF Ownership
  <1> QED  BY <1>1, AlwaysOwnership, PTL

(***************************************************************************)
(* What a caller stored in its block stays there through every operation   *)
(* on other blocks, and moves along when its block moves (heap.c:184).     *)
(***************************************************************************)
THEOREM ContentsArePreserved == Spec => []ContentsPreserved
  <1>1. Ownership => ContentsPreserved
    BY DEF Ownership, ContentsKnown, ContentsPreserved
  <1> QED  BY <1>1, AlwaysOwnership, PTL

-----------------------------------------------------------------------------
(* The walks along the list.                                               *)

(* The blocks that a walk has passed. *)
Passed == {b \in Blocks(heap) : call.at = NULL \/ b < call.at}

(* Where the blocks passed end. *)
Position == IF call.at = NULL THEN HeapUnits ELSE call.at

(* What heap_stats has added up is right for the blocks it has passed.     *)
StatsSoFar ==
  /\ sums.used + sums.free + HeaderUnits * Cardinality(Passed) = Position
  /\ \A b \in Passed : heap.free[b] => heap.size[b] <= sums.largest
  /\ sums.largest = 0 \/ \E b \in Passed : heap.free[b] /\ sums.largest = heap.size[b]

(* Inductive, given Structure: what a search and heap_stats know of the    *)
(* blocks they have passed.                                                *)
Walks ==
  /\ SearchSkipsNoFit
  /\ call.op = "stats" => StatsSoFar
  /\ call.op # "stats" => sums = NoSums

(* No block lies before the first one. *)
LEMMA FirstIsLeast ==
  ASSUME NEW b \in Blocks(heap)
  PROVE  ~(b < first_block) /\ first_block <= b
  BY HeapAssumption DEF Blocks, Units, first_block

(* The block after the last block passed is next: nothing lies between.    *)
LEMMA PassedNext ==
  ASSUME Structure, call.at # NULL, call.op # "idle",
         heap' = heap, call' = [call EXCEPT !.at = heap.next[call.at]]
  PROVE  /\ call.at \in Blocks(heap) /\ call.at \notin Passed
         /\ Passed' = Passed \cup {call.at}
         /\ Position' = Position + HeaderUnits + heap.size[call.at]
         /\ call'.op = call.op /\ call'.size = call.size
         /\ call'.at = heap.next[call.at]
  <1> DEFINE b == call.at
  <1>1. /\ heap \in HeapType /\ Tiled(heap) /\ call \in Call /\ b \in Blocks(heap)
    BY DEF Structure, TypeOK, HeapTiled, CallOK
  <1>2. call'.op = call.op /\ call'.size = call.size /\ call'.at = heap.next[b]
    BY <1>1 DEF Call
  <1>3. /\ b \in Nat /\ LinksForward(heap, b) /\ HeapUnits \in Nat
        /\ End(heap, b) = b + HeaderUnits + heap.size[b] /\ End(heap, b) \in Nat
        /\ heap.size[b] \in Nat /\ heap.size[b] >= 1 /\ HeaderUnits \in Nat
    BY <1>1, BlockBounds, HeapAssumption
  <1>4. ASSUME NEW c \in Blocks(heap)
        PROVE  /\ c \in Nat
               /\ (b < c => End(heap, b) <= c)
               /\ End(heap, c) <= HeapUnits /\ c < HeapUnits
    BY <1>1, <1>3, BlockBounds DEF Units
  <1>5. b \notin Passed
    BY <1>3 DEF Passed
  <1>6. CASE heap.next[b] = NULL
    <2>1. End(heap, b) = HeapUnits
      BY <1>6, <1>3 DEF LinksForward, NULL
    <2>2. Passed' = Blocks(heap) /\ Position' = HeapUnits
      BY <1>2, <1>6 DEF Passed, Position
    <2>3. \A c \in Blocks(heap) : c < b \/ c = b
      BY <1>3, <1>4, <2>1
    <2>4. Passed' = Passed \cup {b}
      BY <2>2, <2>3, <1>1 DEF Passed
    <2> QED  BY <1>1, <1>2, <1>3, <1>5, <2>1, <2>2, <2>4 DEF Position
  <1>7. CASE heap.next[b] # NULL
    <2>1. heap.next[b] = End(heap, b) /\ heap.next[b] \in Blocks(heap)
      BY <1>1, <1>7, NextBlock
    <2>2. \A c \in Blocks(heap) : c < End(heap, b) <=> (c < b \/ c = b)
      BY <1>3, <1>4
    <2>3. Passed' = {c \in Blocks(heap) : c < End(heap, b)}
      BY <1>2, <1>7, <2>1 DEF Passed
    <2>4. Passed' = Passed \cup {b}
      BY <2>2, <2>3, <1>1 DEF Passed
    <2> QED  BY <1>1, <1>2, <1>3, <1>5, <1>7, <2>1, <2>4 DEF Position
  <1> QED  BY <1>6, <1>7

(* A walk starts before every block, with nothing added up.                *)
LEMMA WalksStart ==
  ASSUME Structure, Walks, NEW op, NEW p, NEW s, NEW n, Walk(op, p, s, n)
  PROVE  Walks'
  <1>1. /\ call'.at = first_block /\ heap' = heap /\ sums' = sums /\ sums = NoSums
        /\ call'.op = op
    BY DEF Walk, Walks, IdleCall
  <1>2. first_block # NULL
    BY DEF first_block, NULL
  <1>3. Passed' = {} /\ Position' = 0
    BY <1>1, <1>2, FirstIsLeast DEF Passed, Position, first_block
  <1>4. SearchSkipsNoFit'
    BY <1>1, <1>2, FirstIsLeast DEF SearchSkipsNoFit
  <1>5. StatsSoFar'
    <2>1. Cardinality({}) = 0 /\ HeaderUnits \in Nat
      BY FS_EmptySet, HeapAssumption
    <2> QED  BY <1>1, <1>3, <2>1 DEF StatsSoFar, NoSums
  <1> QED  BY <1>1, <1>4, <1>5 DEF Walks

(* heap_stats goes on by one block.                                        *)
LEMMA StatsGoesOn ==
  ASSUME Structure, Walks, StatsVisit
  PROVE  StatsSoFar'
  <1> DEFINE b == call.at
             m == Cardinality(Passed)
  <1>1. /\ heap' = heap /\ call' = [call EXCEPT !.at = heap.next[b]]
        /\ b # NULL /\ call.op # "idle" /\ call.op = "stats"
    BY DEF StatsVisit
  <1>2. /\ b \in Blocks(heap) /\ b \notin Passed
        /\ Passed' = Passed \cup {b}
        /\ Position' = Position + HeaderUnits + heap.size[b]
    BY <1>1, PassedNext
  <1>3. /\ heap.size[b] \in Nat /\ HeaderUnits \in Nat /\ b \in Nat
        /\ sums \in [used : Nat, free : Nat, largest : Nat]
        /\ heap.free[b] \in BOOLEAN
    BY <1>2, BlockBounds, HeapAssumption, HeapRecord DEF Structure, TypeOK, HeapTiled
  <1>4. Cardinality(Passed') = m + 1 /\ m \in Nat
    <2>1. Passed \in SUBSET Units
      BY DEF Passed, Blocks
    <2>2. IsFiniteSet(Passed) /\ m \in Nat
      BY <2>1, UnitsFinite
    <2> QED  BY <1>2, <2>2, FS_AddElement
  <1>5. StatsSoFar
    BY <1>1 DEF Walks
  <1>6. Position = b
    BY <1>1 DEF Position
  <1>7. HeaderUnits * (m + 1) = HeaderUnits * m + HeaderUnits /\ HeaderUnits * m \in Nat
    BY <1>3, <1>4
  <1> HIDE DEF m
  <1>8. CASE heap.free[b]
    <2>1. sums' = [sums EXCEPT !.free = @ + heap.size[b],
                               !.largest = IF heap.size[b] > @ THEN heap.size[b] ELSE @]
      BY <1>8 DEF StatsVisit
    <2>2. /\ sums'.used = sums.used /\ sums'.free = sums.free + heap.size[b]
          /\ sums'.largest = IF heap.size[b] > sums.largest THEN heap.size[b] ELSE sums.largest
      BY <2>1, <1>3
    <2>3. sums'.used + sums'.free + HeaderUnits * Cardinality(Passed') = Position'
      BY <2>2, <1>2, <1>3, <1>4, <1>5, <1>6, <1>7 DEF StatsSoFar, m
    <2>4. sums'.largest \in Nat /\ sums'.largest >= heap.size[b] /\ sums'.largest >= sums.largest
      BY <2>2, <1>3
    <2>5. \A c \in Passed' : heap.free[c] => heap.size[c] <= sums'.largest
      <3> SUFFICES ASSUME NEW c \in Passed', heap.free[c] PROVE heap.size[c] <= sums'.largest
        OBVIOUS
      <3>1. CASE c = b
        BY <3>1, <2>4, <1>3
      <3>2. CASE c \in Passed
        <4>1. heap.size[c] <= sums.largest /\ heap.size[c] \in Nat
          BY <3>2, <1>5, BlockBounds DEF StatsSoFar, Passed, Structure, TypeOK, HeapTiled
        <4> QED  BY <4>1, <2>4, <1>3
      <3> QED  BY <3>1, <3>2, <1>2
    <2>6. sums'.largest = 0 \/ \E c \in Passed' : heap.free[c] /\ sums'.largest = heap.size[c]
      BY <2>2, <1>2, <1>5, <1>8 DEF StatsSoFar
    <2> QED  BY <1>1, <2>3, <2>5, <2>6 DEF StatsSoFar
  <1>9. CASE ~heap.free[b]
    <2>1. sums' = [sums EXCEPT !.used = @ + heap.size[b]]
      BY <1>9 DEF StatsVisit
    <2>2. /\ sums'.used = sums.used + heap.size[b] /\ sums'.free = sums.free
          /\ sums'.largest = sums.largest
      BY <2>1, <1>3
    <2>3. sums'.used + sums'.free + HeaderUnits * Cardinality(Passed') = Position'
      BY <2>2, <1>2, <1>3, <1>4, <1>5, <1>6, <1>7 DEF StatsSoFar, m
    <2>4. \A c \in Passed' : heap.free[c] => heap.size[c] <= sums'.largest
      BY <2>2, <1>2, <1>5, <1>9 DEF StatsSoFar
    <2>5. sums'.largest = 0 \/ \E c \in Passed' : heap.free[c] /\ sums'.largest = heap.size[c]
      BY <2>2, <1>2, <1>5 DEF StatsSoFar
    <2> QED  BY <1>1, <2>3, <2>4, <2>5 DEF StatsSoFar
  <1> QED  BY <1>8, <1>9, <1>3

(***************************************************************************)
(* Every step of heap.c keeps Walks: a walk starts at the first block,     *)
(* goes on to the next, and ends idle; nothing else runs meanwhile.        *)
(***************************************************************************)
LEMMA WalksStep == Structure /\ Walks /\ [Next]_vars => Walks'
  <1> SUFFICES ASSUME Structure, Walks, [Next]_vars PROVE Walks'
    OBVIOUS
  <1>1. ASSUME call' = IdleCall, sums' = NoSums
        PROVE  Walks'
    BY <1>1 DEF Walks, SearchSkipsNoFit, Searching, IdleCall
  <1>2. call = IdleCall => sums = NoSums
    BY DEF Walks, IdleCall
  <1>3. ASSUME Begin PROVE Walks'
    BY <1>3, WalksStart DEF Begin, heap_allocate, heap_callocate, ReallocateMoves, heap_stats
  <1>4. ASSUME InPlace PROVE Walks'
    BY <1>4, <1>1, <1>2 DEF InPlace, heap_release, ReallocateInBlock, ReallocateIntoNext,
                            Reallocatable, Resized, Write
  <1>5. CASE SearchNext
    <2> DEFINE b == call.at
    <2>1. /\ heap' = heap /\ call' = [call EXCEPT !.at = heap.next[b]] /\ sums' = sums
          /\ b # NULL /\ call.op # "idle" /\ call.op # "stats" /\ Searching
          /\ ~(heap.free[b] /\ heap.size[b] >= AlignUp(call.size))
      BY <1>5 DEF SearchNext, Searching, Fitting
    <2>2. /\ b \in Blocks(heap) /\ Passed' = Passed \cup {b}
          /\ call'.op = call.op /\ call'.size = call.size /\ call'.at = heap.next[b]
      BY <2>1, PassedNext
    <2>3. ASSUME NEW c \in Blocks(heap), heap.free[c], heap.size[c] >= AlignUp(call.size)
          PROVE  heap.next[b] # NULL /\ heap.next[b] <= c
      <3>1. b <= c /\ b # c
        BY <2>1, <2>3 DEF Walks, SearchSkipsNoFit
      <3>2. c \notin Passed'
        <4>1. b \in Nat /\ c \in Nat
          BY <2>2, BlockBounds DEF Structure, TypeOK, HeapTiled
        <4> QED  BY <3>1, <4>1, <2>1, <2>2 DEF Passed
      <3>3. heap.next[b] # NULL /\ ~(c < heap.next[b])
        BY <3>2, <2>1, <2>2 DEF Passed
      <3>4. c \in Nat /\ heap.next[b] \in Nat
        BY <2>2, <3>3, BlockBounds, NextBlock DEF Structure, TypeOK, HeapTiled
      <3> QED  BY <3>3, <3>4
    <2>4. SearchSkipsNoFit'
      BY <2>1, <2>2, <2>3 DEF SearchSkipsNoFit
    <2> QED  BY <2>1, <2>2, <2>4 DEF Walks
  <1>6. CASE StatsVisit
    <2>1. call.op = "stats" /\ call'.op = "stats"
      BY <1>6, PassedNext DEF StatsVisit
    <2> QED  BY <1>6, <2>1, StatsGoesOn DEF Walks, SearchSkipsNoFit, Searching
  <1>7. ASSUME SearchFails \/ AllocateReturns \/ CallocateReturns \/ ReallocateReturns
        PROVE  Walks'
    BY <1>7, <1>1 DEF Walks, SearchFails, AllocateReturns, CallocateReturns, ReallocateReturns,
                      Found, Searching
  <1>8. CASE StatsReturns
    BY <1>8, <1>1 DEF StatsReturns
  <1>9. CASE UNCHANGED vars
    BY <1>9 DEF vars, Walks, SearchSkipsNoFit, Searching, StatsSoFar, Passed, Position
  <1> QED  BY <1>3, <1>4, <1>5, <1>6, <1>7, <1>8, <1>9 DEF Next, Continue

(* What walks know holds in every state (heap.c:111-127 and 215-230).      *)
THEOREM AlwaysWalks == Spec => []Walks
  <1>1. Init => Walks
    BY DEF Init, Walks, SearchSkipsNoFit, Searching, IdleCall
  <1>2. Structure /\ Walks /\ [Next]_vars => Walks'
    BY WalksStep
  <1> QED  BY <1>1, <1>2, AlwaysStructure, PTL DEF Spec

(***************************************************************************)
(* First fit: a search never steps over a block that fits, so an           *)
(* allocation fails only when no single free block is large enough.        *)
(***************************************************************************)
THEOREM FirstFit == Spec => []SearchSkipsNoFit
  <1>1. Walks => SearchSkipsNoFit
    BY DEF Walks
  <1> QED  BY <1>1, AlwaysWalks, PTL

(***************************************************************************)
(* heap_stats reports what the list says: used, free and the headers add   *)
(* up to the capacity, and largest_free is the largest free block.         *)
(***************************************************************************)
THEOREM StatsAreExact == Spec => []StatsExact
  <1>1. Structure /\ Walks => StatsExact
    <2> SUFFICES ASSUME Structure, Walks, call.op = "stats", call.at = NULL
                 PROVE  LET free == {heap.size[b] : b \in Blocks(heap) \ UsedBlocks(heap)} IN
                        /\ sums.used + sums.free + HeaderUnits * Cardinality(Blocks(heap))
                             = HeapUnits
                        /\ sums.largest \in free \cup {0}
                        /\ \A n \in free : n <= sums.largest
      BY DEF StatsExact
    <2>1. Passed = Blocks(heap) /\ Position = HeapUnits /\ StatsSoFar
      BY DEF Passed, Position, Walks
    <2>2. \A b \in Blocks(heap) : heap.free[b] <=> b \notin UsedBlocks(heap)
      BY DEF UsedBlocks
    <2> QED  BY <2>1, <2>2 DEF StatsSoFar
  <1> QED  BY <1>1, AlwaysStructure, AlwaysWalks, PTL

-----------------------------------------------------------------------------
(* Fragmentation: which free blocks follow a free block.                   *)

(* Uncoalesced looks at the free flags and back links of blocks only.      *)
LEMMA SameUncoalesced ==
  ASSUME NEW h \in HeapType, Tiled(h), NEW g,
         g.prev = h.prev, g.magic = h.magic, g.free = h.free
  PROVE  Uncoalesced(g) = Uncoalesced(h)
  BY DEF Uncoalesced, Blocks

(***************************************************************************)
(* After b is cut and marked used (k), the only new free neighbours can be *)
(* the rest of a block that was in use and the free block after it.        *)
(***************************************************************************)
LEMMA SplitFragments ==
  ASSUME NEW h \in HeapType, Tiled(h), NEW b \in Blocks(h), NEW n \in Nat \ {0},
         h.size[b] >= n, NEW g, g = split_block(h, b, n),
         NEW k, k.prev = g.prev, k.magic = g.magic, ~k.free[b],
         \A u \in Units \ {b} : k.free[u] <=> g.free[u],
         NEW c \in Uncoalesced(k)
  PROVE  c \in Uncoalesced(h) \/ (c = h.next[b] /\ h.free[c] /\ ~h.free[b])
  <1>1. /\ c \in Units /\ k.magic[c] /\ k.free[c] /\ k.prev[c] # NULL /\ k.free[k.prev[c]]
        /\ c # b /\ k.prev[c] # b
    BY DEF Uncoalesced, Blocks
  <1>2. \A d \in Blocks(h) : h.prev[d] # NULL => h.prev[d] \in Blocks(h)
    BY PrevBlock
  <1>3. \A d \in Blocks(h) : d \in Units /\ h.prev[d] \in Address
    BY BlockBounds
  <1>4. CASE h.size[b] < n + HeaderUnits + 1
    <2>1. g = h
      BY <1>4 DEF split_block
    <2>2. c \in Blocks(h) /\ h.free[c] /\ k.prev[c] = h.prev[c]
      BY <2>1, <1>1 DEF Blocks
    <2>3. h.prev[c] \in Blocks(h)
      BY <2>2, <1>1, <1>2
    <2>4. h.free[h.prev[c]]
      BY <2>1, <2>2, <2>3, <1>1, <1>3
    <2> QED  BY <2>2, <2>4, <1>1 DEF Uncoalesced
  <1>5. CASE h.size[b] >= n + HeaderUnits + 1
    <2> DEFINE r == b + HeaderUnits + n
    <2>1. /\ g \in HeapType
          /\ r \in Units /\ r > b /\ r < End(h, b)
          /\ CutAt(h, b, r, g)
      BY <1>5, SplitCuts
    <2>2. r > b + HeaderUnits /\ r + HeaderUnits < End(h, b)
      <3>1. b \in Nat /\ h.size[b] \in Nat /\ End(h, b) = b + HeaderUnits + h.size[b]
            /\ HeaderUnits \in Nat
        BY BlockBounds, HeapAssumption
      <3> QED  BY <3>1, <1>5
    <2> HIDE DEF r
    <2>3. Blocks(g) = Blocks(h) \cup {r} /\ r \notin Blocks(h)
      BY <2>1, <2>2, CutTiled
    <2>4. /\ k.prev[c] = IF c = r THEN b ELSE IF c = h.next[b] THEN r ELSE h.prev[c]
          /\ g.free[c]
          /\ \A u \in Units : g.free[u] <=> (u = r \/ h.free[u])
      BY <2>1, <1>1 DEF CutAt
    <2>5. c \in Blocks(h) /\ h.free[c] /\ c # r
      BY <2>3, <2>4, <1>1 DEF Blocks
    <2>6. CASE c = h.next[b]
      <3>1. h.prev[c] = b /\ b # NULL
        BY <2>5, <2>6, NextBlock, BlockBounds DEF NULL
      <3> QED  BY <3>1, <2>5, <2>6 DEF Uncoalesced
    <2>7. CASE c # h.next[b]
      <3>1. k.prev[c] = h.prev[c]
        BY <2>4, <2>5, <2>7
      <3>2. h.prev[c] \in Blocks(h)
        BY <3>1, <2>5, <1>1, <1>2
      <3>3. h.free[h.prev[c]]
        BY <3>1, <3>2, <2>3, <2>4, <1>1, <1>3
      <3> QED  BY <3>1, <3>3, <2>5, <1>1 DEF Uncoalesced
    <2> QED  BY <2>6, <2>7
  <1> QED  BY <1>4, <1>5, BlockBounds, HeapAssumption

(* merge_with_next makes no new free neighbours, and the block it absorbs  *)
(* is none any more.                                                       *)
LEMMA MergeFragments ==
  ASSUME NEW h \in HeapType, Tiled(h), NEW b \in Blocks(h),
         NEW g, g = merge_with_next(h, b)
  PROVE  /\ Uncoalesced(g) \subseteq Uncoalesced(h)
         /\ h.next[b] # NULL /\ h.free[h.next[b]] => h.next[b] \notin Uncoalesced(g)
         /\ h.next[b] # NULL /\ ~h.free[h.next[b]] => h.next[b] \notin Uncoalesced(g)
  <1>1. CASE h.next[b] = NULL \/ ~h.free[h.next[b]]
    <2>1. g = h
      BY <1>1 DEF merge_with_next
    <2> QED  BY <1>1, <2>1 DEF Uncoalesced
  <1>2. CASE h.next[b] # NULL /\ h.free[h.next[b]]
    <2> DEFINE n == h.next[b]
    <2>1. g \in HeapType /\ JoinedAt(h, b, n, g)
      BY <1>2, MergeJoins
    <2>2. n \in Blocks(h) /\ n # b /\ Blocks(g) = Blocks(h) \ {n}
      BY <1>2, <2>1, JoinTiled
    <2>3. n # NULL /\ h.free[n]
      BY <1>2
    <2> HIDE DEF n
    <2>4. ASSUME NEW c \in Uncoalesced(g)
          PROVE  c \in Uncoalesced(h)
      <3>1. /\ c \in Blocks(h) /\ c # n /\ c \in Units /\ g.free[c]
            /\ g.prev[c] # NULL /\ g.free[g.prev[c]]
        BY <2>2 DEF Uncoalesced, Blocks
      <3>2. h.free[c] /\ g.prev[c] = IF c = h.next[n] THEN b ELSE h.prev[c]
        BY <2>1, <3>1 DEF JoinedAt
      <3>3. CASE c = h.next[n]
        <4>1. h.next[n] # NULL
          BY <3>1, <3>3, BlockBounds DEF NULL
        <4>2. h.prev[c] = n
          BY <4>1, <3>3, <2>2, NextBlock
        <4> QED  BY <4>2, <3>1, <3>2, <2>3 DEF Uncoalesced
      <3>4. CASE c # h.next[n]
        <4>1. h.prev[c] # NULL /\ h.prev[c] \in Units
          BY <3>1, <3>2, <3>4, PrevBlock, BlockBounds
        <4>2. h.free[h.prev[c]]
          BY <4>1, <3>1, <3>2, <3>4, <2>1 DEF JoinedAt
        <4> QED  BY <4>1, <4>2, <3>1, <3>2 DEF Uncoalesced
      <3> QED  BY <3>3, <3>4
    <2>5. n \notin Uncoalesced(g)
      BY <2>2 DEF Uncoalesced
    <2> QED  BY <1>2, <2>4, <2>5 DEF n
  <1> QED  BY <1>1, <1>2

(* heap_release merges with both neighbours: no new free neighbours.       *)
LEMMA ReleaseFragments ==
  ASSUME NEW h \in HeapType, Tiled(h), NEW b \in UsedBlocks(h),
         NEW g, g = ReleaseBlock(h, b)
  PROVE  Uncoalesced(g) \subseteq Uncoalesced(h)
  <1> DEFINE marked == SetFree(h, b, TRUE)
             freed == Fill(marked, block_payload(b), h.size[b], Unknown)
             merged == merge_with_next(freed, b)
             before == merged.prev[b]
  <1>1. b \in Blocks(h) /\ b \in Units /\ ~h.free[b]
    BY BlockBounds DEF UsedBlocks
  <1>2. /\ marked \in HeapType
        /\ marked.size = h.size /\ marked.prev = h.prev /\ marked.next = h.next
        /\ marked.magic = h.magic /\ marked.data = h.data
        /\ marked.free[b]
        /\ \A u \in Units \ {b} : marked.free[u] <=> h.free[u]
    BY <1>1, MarkFree
  <1> HIDE DEF marked
  <1>3. /\ freed \in HeapType
        /\ freed.size = marked.size /\ freed.prev = marked.prev /\ freed.next = marked.next
        /\ freed.magic = marked.magic /\ freed.free = marked.free
    BY <1>2, FillFields
  <1> HIDE DEF freed
  <1>4. Tiled(freed) /\ Blocks(freed) = Blocks(h)
    BY <1>2, <1>3, SameListTiled
  <1>5. ASSUME NEW c \in Uncoalesced(freed), c # b, c # h.next[b]
        PROVE  c \in Uncoalesced(h)
    <2>1. /\ c \in Blocks(h) /\ c \in Units /\ h.free[c]
          /\ h.prev[c] # NULL /\ freed.free[h.prev[c]]
      BY <1>2, <1>3, <1>4, <1>5 DEF Uncoalesced, Blocks
    <2>2. h.prev[c] \in Blocks(h) /\ h.next[h.prev[c]] = c
      BY <2>1, PrevBlock
    <2>3. h.prev[c] # b /\ h.prev[c] \in Units
      BY <2>2, <1>5 DEF Blocks
    <2>4. h.free[h.prev[c]]
      BY <2>1, <2>3, <1>2, <1>3
    <2> QED  BY <2>1, <2>4 DEF Uncoalesced
  <1>6. /\ merged \in HeapType /\ Tiled(merged)
        /\ b \in Blocks(merged) /\ merged.free[b]
        /\ Uncoalesced(merged) \subseteq Uncoalesced(freed)
        /\ freed.next[b] # NULL => freed.next[b] \notin Uncoalesced(merged)
    BY <1>1, <1>2, <1>3, <1>4, MergeBlock, MergeFragments
  <1>7. NULL \notin Uncoalesced(merged)
    BY DEF Uncoalesced, Blocks, Units, NULL
  <1>8. Uncoalesced(merged) \subseteq Uncoalesced(h) \cup {b}
    BY <1>2, <1>3, <1>5, <1>6, <1>7
  <1> HIDE DEF merged
  <1>9. CASE before # NULL /\ merged.free[before]
    <2>1. before \in Blocks(merged) /\ merged.next[before] = b /\ b # NULL
      BY <1>6, <1>9, PrevBlock, BlockBounds DEF NULL
    <2>2. g = merge_with_next(merged, before)
      BY <1>9 DEF ReleaseBlock, merged, freed, marked
    <2> HIDE DEF before
    <2>3. Uncoalesced(g) \subseteq Uncoalesced(merged) /\ b \notin Uncoalesced(g)
      BY <1>6, <2>1, <2>2, MergeFragments
    <2> QED  BY <2>3, <1>8
  <1>10. CASE before = NULL \/ ~merged.free[before]
    <2>1. g = merged
      BY <1>10 DEF ReleaseBlock, merged, freed, marked
    <2>2. b \notin Uncoalesced(merged)
      BY <1>10 DEF Uncoalesced
    <2> QED  BY <2>1, <2>2, <1>8
  <1> QED  BY <1>9, <1>10

(* heap_allocate makes no new free neighbours.                             *)
LEMMA TakeFragments ==
  ASSUME NEW h \in HeapType, Tiled(h), NEW b \in Blocks(h), h.free[b],
         NEW n \in Nat \ {0}, h.size[b] >= n,
         NEW g, g = TakeBlock(h, b, n)
  PROVE  Uncoalesced(g) \subseteq Uncoalesced(h)
  <1> DEFINE cut == split_block(h, b, n)
  <1>1. cut \in HeapType /\ b \in Units
    BY SplitBlock, BlockBounds
  <1>2. cut = split_block(h, b, n)
    OBVIOUS
  <1>3. g = SetFree(cut, b, FALSE)
    BY DEF TakeBlock
  <1> HIDE DEF cut
  <1>4. /\ g \in HeapType
        /\ g.size = cut.size /\ g.prev = cut.prev /\ g.next = cut.next
        /\ g.magic = cut.magic /\ g.data = cut.data
        /\ ~g.free[b]
        /\ \A u \in Units \ {b} : g.free[u] <=> cut.free[u]
    BY <1>1, <1>3, MarkUsed
  <1> QED  BY <1>2, <1>4, SplitFragments

(***************************************************************************)
(* A step of heap.c makes no new free neighbours, unless it shrinks a      *)
(* block in place.                                                         *)
(***************************************************************************)
LEMMA FragmentsStep ==
  ASSUME Structure, [Next]_vars
  PROVE  \/ Uncoalesced(heap') \subseteq Uncoalesced(heap)
         \/ \E b \in UsedBlocks(heap) \cap UsedBlocks(heap') : heap'.size[b] < heap.size[b]
  <1> DEFINE Goal == \/ Uncoalesced(heap') \subseteq Uncoalesced(heap)
                     \/ \E b \in UsedBlocks(heap) \cap UsedBlocks(heap') :
                          heap'.size[b] < heap.size[b]
  <1>1. heap \in HeapType /\ Tiled(heap) /\ Requests \subseteq Nat /\ HeaderUnits \in Nat
    BY HeapAssumption DEF Structure, TypeOK, HeapTiled
  <1>2. ASSUME heap' = heap PROVE Goal
    BY <1>2
  <1>3. ASSUME NEW op, Found(op), Searching
        PROVE  /\ call.at \in Blocks(heap) /\ heap.free[call.at]
               /\ AlignUp(call.size) \in Nat \ {0} /\ heap.size[call.at] >= AlignUp(call.size)
    <2>1. call.size \in Nat /\ call.op # "idle"
      BY <1>3 DEF Structure, TypeOK, Call, Searching
    <2>2. call.at \in Blocks(heap) /\ Allocatable(call.size)
      BY <1>3, <2>1 DEF Found, CallOK, Structure
    <2> QED  BY <1>3, <2>1, <2>2, Rounding DEF Found, Fitting
  <1>4. CASE \E p \in Units : heap_release(p)
    <2>1. PICK p \in Units : heap_release(p)
      BY <1>4
    <2> DEFINE b == payload_block(heap, p)
    <2>2. b # NULL /\ ~heap.free[b] /\ heap' = ReleaseBlock(heap, b)
      BY <2>1 DEF heap_release
    <2>3. b \in UsedBlocks(heap)
      BY <2>2, <1>1, BlockOfPayload DEF UsedBlocks
    <2> QED  BY <2>2, <2>3, <1>1, ReleaseFragments
  <1>5. ASSUME NEW p \in Units, NEW s \in Requests,
               ReallocateInBlock(p, s) \/ ReallocateIntoNext(p, s)
        PROVE  Goal
    <2> DEFINE b == payload_block(heap, p)
               n == AlignUp(s)
    <2>1. b \in UsedBlocks(heap) /\ b \in Blocks(heap) /\ n \in Nat \ {0} /\ ~heap.free[b]
      BY <1>1, <1>5, BlockOfPayload, Rounding
         DEF ReallocateInBlock, ReallocateIntoNext, Reallocatable, UsedBlocks
    <2>2. CASE ReallocateInBlock(p, s)
      <3>1. heap.size[b] >= n /\ heap' = split_block(heap, b, n)
        BY <2>2 DEF ReallocateInBlock
      <3> HIDE DEF b, n
      <3>2. CASE heap.size[b] < n + HeaderUnits + 1
        BY <3>1, <3>2, <1>2 DEF split_block
      <3>3. CASE heap.size[b] >= n + HeaderUnits + 1
        <4>1. UsedBlocks(heap') = UsedBlocks(heap)
          BY <3>1, <2>1, <1>1, SplitBlock
        <4>2. CutAt(heap, b, b + HeaderUnits + n, heap')
          BY <3>1, <3>3, <2>1, <1>1, SplitCuts
        <4>3. b \in Nat /\ b \in Units /\ heap.size[b] \in Nat
          BY <2>1, <1>1, BlockBounds
        <4>4. heap'.size[b] < heap.size[b]
          BY <4>2, <4>3, <3>3, <2>1, <1>1 DEF CutAt
        <4> QED  BY <4>1, <4>4, <2>1
      <3> QED  BY <3>2, <3>3, <2>1, <1>1, BlockBounds
    <2>3. CASE ReallocateIntoNext(p, s)
      <3> DEFINE merged == merge_with_next(heap, b)
                 next == heap.next[b]
      <3>1. GrowsInPlace(b, n) /\ heap' = split_block(merged, b, n)
        BY <2>3 DEF ReallocateIntoNext
      <3>2. /\ next # NULL /\ heap.free[next]
            /\ heap.size[b] + HeaderUnits + heap.size[next] >= n
        BY <3>1 DEF GrowsInPlace
      <3>3. /\ merged \in HeapType /\ Tiled(merged) /\ b \in Blocks(merged)
            /\ merged.size[b] >= n /\ (merged.free[b] <=> heap.free[b])
            /\ Uncoalesced(merged) \subseteq Uncoalesced(heap)
        BY <3>2, <2>1, <1>1, MergeBlock, MergeFragments
      <3>4. JoinedAt(heap, b, next, merged) /\ next \in Blocks(heap) /\ next # b
        BY <3>2, <2>1, <1>1, MergeJoins, NextBlock
      <3>5. \A u \in Units : merged.free[u] <=> (u # next /\ heap.free[u])
        BY <3>4 DEF JoinedAt
      <3>6. merged.next[b] = heap.next[next]
        BY <3>4, <2>1, <1>1, BlockBounds DEF JoinedAt
      <3> HIDE DEF merged, b, n, next
      <3>7. ~heap'.free[b] /\ b \in Blocks(heap')
        BY <3>1, <3>3, <2>1, SplitBlock
      <3>8. ASSUME NEW c \in Uncoalesced(heap')
            PROVE  c \in Uncoalesced(heap)
        <4>1. c \in Uncoalesced(merged) \/ (c = merged.next[b] /\ merged.free[c])
          BY <3>1, <3>3, <3>7, <2>1, SplitFragments
        <4>2. CASE c = heap.next[next] /\ merged.free[c]
          <5>1. c # NULL /\ c \in Units
            BY DEF Uncoalesced, Blocks, Units, NULL
          <5>2. c \in Blocks(heap) /\ heap.prev[c] = next
            BY <5>1, <4>2, <3>4, <1>1, NextBlock
          <5>3. heap.free[c]
            BY <5>1, <4>2, <3>5
          <5> QED  BY <5>2, <5>3, <3>2 DEF Uncoalesced
        <4> QED  BY <4>1, <4>2, <3>3, <3>6
      <3> QED  BY <3>8
    <2> QED  BY <2>2, <2>3, <1>5
  <1>6. CASE \E p \in Units, v \in Values : Write(p, v)
    <2>1. PICK p \in Units, v \in Values : Write(p, v)
      BY <1>6
    <2>2. heap' = Fill(heap, p, heap.size[payload_block(heap, p)], v)
      BY <2>1 DEF Write
    <2>3. heap'.prev = heap.prev /\ heap'.magic = heap.magic /\ heap'.free = heap.free
      BY <1>1, <2>2, FillFields
    <2> QED  BY <1>1, <2>3, SameUncoalesced
  <1>7. CASE AllocateReturns
    <2>1. Searching /\ Found("allocate")
          /\ heap' = TakeBlock(heap, call.at, AlignUp(call.size))
      BY <1>7 DEF AllocateReturns, Found, Searching
    <2> QED  BY <1>1, <1>3, <2>1, TakeFragments
  <1>8. CASE CallocateReturns
    <2> DEFINE taken == TakeBlock(heap, call.at, AlignUp(call.size))
    <2>1. Searching /\ Found("callocate")
          /\ heap' = Fill(taken, block_payload(call.at), call.size \div Alignment, Zero)
      BY <1>8 DEF CallocateReturns, Found, Searching
    <2>2. taken \in HeapType /\ Tiled(taken) /\ Uncoalesced(taken) \subseteq Uncoalesced(heap)
      BY <1>1, <1>3, <2>1, TakeList, TakeFragments
    <2> HIDE DEF taken
    <2>3. heap'.prev = taken.prev /\ heap'.magic = taken.magic /\ heap'.free = taken.free
      BY <2>1, <2>2, FillFields, HeapAssumption
    <2> QED  BY <2>2, <2>3, SameUncoalesced
  <1>9. CASE ReallocateReturns
    <2> DEFINE old == payload_block(heap, call.ptr)
               taken == TakeBlock(heap, call.at, AlignUp(call.size))
               copied == Copy(taken, block_payload(call.at), call.ptr, heap.size[old])
    <2>1. Searching /\ Found("reallocate") /\ call.op = "reallocate"
          /\ heap' = ReleaseBlock(copied, old)
      BY <1>9 DEF ReallocateReturns, Found, Searching
    <2>2. old \in UsedBlocks(heap)
      BY <2>1 DEF CallOK, Structure
    <2>3. /\ taken \in HeapType /\ Tiled(taken) /\ Uncoalesced(taken) \subseteq Uncoalesced(heap)
          /\ UsedBlocks(taken) = UsedBlocks(heap) \cup {call.at}
      BY <1>1, <1>3, <2>1, TakeList, TakeFragments
    <2>4. /\ call.ptr \in Nat /\ block_payload(call.at) \in Nat /\ heap.size[old] \in Nat
          /\ call.ptr .. (call.ptr + heap.size[old] - 1) \subseteq Units
      <3>1. old \in Blocks(heap) /\ old \in Nat
        BY <1>1, <2>2, BlockBounds DEF UsedBlocks
      <3>2. old # NULL /\ call.ptr # NULL /\ call.ptr \in Units
        BY <3>1, HeapAssumption DEF payload_block, NULL, Structure, TypeOK, Call, Address
      <3>3. block_payload(old) = call.ptr
        BY <1>1, <3>2, BlockOfPayload
      <3>4. Payload(heap, old) = call.ptr .. (call.ptr + heap.size[old] - 1)
            /\ Payload(heap, old) \subseteq Units /\ call.ptr \in Nat
        BY <1>1, <3>1, <3>3, PayloadExtent, PayloadInUnits
      <3>5. block_payload(call.at) \in Nat
        BY <1>1, <1>3, <2>1, PayloadExtent
      <3> QED  BY <1>1, <3>1, <3>4, <3>5, BlockBounds
    <2> HIDE DEF taken, old
    <2>5. /\ copied \in HeapType
          /\ copied.size = taken.size /\ copied.prev = taken.prev /\ copied.next = taken.next
          /\ copied.magic = taken.magic /\ copied.free = taken.free
      BY <2>3, <2>4, CopyFields
    <2> HIDE DEF copied
    <2>6. Tiled(copied) /\ UsedBlocks(copied) = UsedBlocks(taken)
      BY <2>3, <2>5, SameListTiled DEF UsedBlocks
    <2>7. Uncoalesced(heap') \subseteq Uncoalesced(copied)
      BY <2>1, <2>2, <2>3, <2>5, <2>6, ReleaseFragments
    <2>8. Uncoalesced(copied) = Uncoalesced(taken)
      BY <2>3, <2>5, SameUncoalesced
    <2> QED  BY <2>3, <2>7, <2>8
  <1>10. ASSUME Begin \/ SearchNext \/ SearchFails \/ StatsVisit \/ StatsReturns \/ UNCHANGED vars
         PROVE  heap' = heap
    BY <1>10 DEF Begin, heap_allocate, heap_callocate, ReallocateMoves, heap_stats, Walk,
                 SearchNext, SearchFails, StatsVisit, StatsReturns, vars
  <1> QED  BY <1>2, <1>4, <1>5, <1>6, <1>7, <1>8, <1>9, <1>10 DEF Next, InPlace, Continue

(***************************************************************************)
(* Free blocks come to lie side by side only where heap_reallocate shrinks *)
(* a block in place: heap_release merges with both neighbours, and a block *)
(* that grows gives its rest back to the free block it took it from        *)
(* (heap.c:76-91, 129-150 and 167-178).                                    *)
(***************************************************************************)
THEOREM OnlyShrinksFragment == Spec => OnlyShrinkingFragments
  <1>1. Structure /\ [Next]_vars =>
          [ Uncoalesced(heap') \subseteq Uncoalesced(heap)
            \/ \E b \in UsedBlocks(heap) \cap UsedBlocks(heap') :
                 heap'.size[b] < heap.size[b] ]_vars
    BY FragmentsStep
  <1> QED  BY <1>1, AlwaysStructure, PTL DEF Spec, OnlyShrinkingFragments

-----------------------------------------------------------------------------
(* The heap implements the allocator of heap.h.                            *)

(* Rounding up gives at most one more than rounding down. *)
LEMMA DivisionWithinOne ==
  ASSUME NEW x \in Nat, NEW y \in Nat \ {0}
  PROVE  (x + y - 1) \div y <= x \div y + 1
  OBVIOUS

(* Client c holds blocks of heap h, tightly: Structure and Ownership, of a *)
(* heap and a client given as values.                                      *)
Holds(h, c) ==
  /\ h \in HeapType /\ Tiled(h) /\ c \in ClientType
  /\ c.owned = {block_payload(b) : b \in UsedBlocks(h)}
  /\ \A p \in c.owned : /\ c.asked[p] <= h.size[p - HeaderUnits]
                        /\ h.size[p - HeaderUnits] <= c.asked[p] + HeaderUnits

(* The state of the heap is such before and after a step. *)
LEMMA HoldsBeforeAndAfter ==
  /\ Structure /\ Ownership => Holds(heap, client)
  /\ Structure' /\ Ownership' => Holds(heap', client')
  <1>1. Structure /\ Ownership => Holds(heap, client)
    BY DEF Structure, TypeOK, HeapTiled, Ownership, CallersHoldUsedBlocks, GrantsAreTight, Holds
  <1>2. Structure' /\ Ownership' => Holds(heap', client')
    BY DEF Structure, TypeOK, HeapTiled, Ownership, CallersHoldUsedBlocks, GrantsAreTight, Holds
  <1> QED  BY <1>1, <1>2

(* The grant that c's pointer p stands for. *)
GrantAt(h, c, p) == [ptr |-> p, units |-> h.size[p - HeaderUnits], asked |-> c.asked[p]]

(* The grants of c's pointers, and those of all of them but p. *)
Grants(h, c) == {GrantAt(h, c, p) : p \in c.owned}

GrantsBut(h, c, p) == {GrantAt(h, c, r) : r \in c.owned \ {p}}

(* What the refinement shows as granted are the grants of the pointers.    *)
LEMMA GrantedPointers ==
  /\ Granted = Grants(heap, client)
  /\ Granted' = Grants(heap', client')
  BY DEF Granted, GrantAt, Grants

(* A pointer owned is a block's payload, and its grant covers that payload. *)
LEMMA GrantExtent ==
  ASSUME NEW h, NEW c, Holds(h, c), NEW p \in c.owned
  PROVE  /\ p - HeaderUnits \in UsedBlocks(h) /\ p - HeaderUnits \in Blocks(h)
         /\ block_payload(p - HeaderUnits) = p
         /\ p \in Units /\ p \in Nat /\ h.size[p - HeaderUnits] \in Nat
         /\ Abs!Extent(GrantAt(h, c, p)) = Payload(h, p - HeaderUnits)
         /\ Payload(h, p - HeaderUnits) = p .. (p + h.size[p - HeaderUnits] - 1)
  <1>1. h \in HeapType /\ Tiled(h) /\ HeaderUnits \in Nat
    BY HeapAssumption DEF Holds
  <1>2. PICK b \in UsedBlocks(h) : p = block_payload(b)
    BY DEF Holds
  <1>3. b \in Blocks(h)
    BY DEF UsedBlocks
  <1>4. p - HeaderUnits = b /\ p \in Units /\ p \in Nat /\ h.size[b] \in Nat
        /\ Payload(h, b) = p .. (p + h.size[b] - 1)
    BY <1>1, <1>2, <1>3, PayloadExtent, PayloadOfBlock, BlockBounds
  <1> QED  BY <1>2, <1>3, <1>4 DEF Abs!Extent, GrantAt

(* The grants held lie in the heap and apart from each other. *)
LEMMA GrantsFit ==
  ASSUME NEW h, NEW c, Holds(h, c), NEW p \in c.owned
  PROVE  Abs!Fits(GrantAt(h, c, p), GrantsBut(h, c, p))
  <1>1. h \in HeapType /\ Tiled(h)
    BY DEF Holds
  <1>2. Abs!Extent(GrantAt(h, c, p)) \subseteq Abs!Units
    BY <1>1, GrantExtent, PayloadInUnits DEF Units, Abs!Units
  <1>3. ASSUME NEW q \in c.owned \ {p}
        PROVE  Abs!Extent(GrantAt(h, c, p)) \cap Abs!Extent(GrantAt(h, c, q)) = {}
    <2>1. p - HeaderUnits # q - HeaderUnits
      BY GrantExtent
    <2> QED  BY <2>1, <1>1, GrantExtent, PayloadsDisjoint
  <1> QED  BY <1>2, <1>3 DEF Abs!Fits, GrantsBut

(* A grant is one the allocator may give for a request of its size.        *)
LEMMA GrantAllowed ==
  ASSUME NEW h, NEW c, Holds(h, c), NEW p \in c.owned, c.asked[p] # 0
  PROVE  GrantAt(h, c, p) \in Abs!Grant
  <1> DEFINE b == p - HeaderUnits
             n == c.asked[p]
  <1>1. h \in HeapType /\ Tiled(h) /\ c \in ClientType /\ HeaderUnits \in Nat
        /\ HeapUnits \in Nat
    BY HeapAssumption DEF Holds
  <1>2. b \in Blocks(h) /\ p \in Units
    BY GrantExtent
  <1>3. n \in Nat /\ n # 0 /\ n <= h.size[b] /\ h.size[b] <= n + HeaderUnits
    BY <1>1, <1>2 DEF ClientType, Holds
  <1>4. h.size[b] \in Nat /\ h.size[b] <= HeapUnits
    <2>1. /\ b \in Nat /\ h.size[b] \in Nat /\ End(h, b) = b + HeaderUnits + h.size[b]
          /\ End(h, b) <= HeapUnits
      BY <1>1, <1>2, BlockBounds
    <2> HIDE DEF b
    <2> QED  BY <2>1, <1>1
  <1>5. GrantAt(h, c, p) = [ptr |-> p, units |-> h.size[b], asked |-> n]
    BY DEF GrantAt
  <1> HIDE DEF b, n
  <1>6. n \in 1 .. HeapUnits /\ h.size[b] \in n .. (n + HeaderUnits)
    BY <1>1, <1>3, <1>4
  <1>7. GrantAt(h, c, p) \in Abs!GrantFor(n)
    BY <1>2, <1>5, <1>6 DEF Abs!GrantFor, Units, Abs!Units
  <1> QED  BY <1>6, <1>7 DEF Abs!Grant

(* What the allocator promises is what the callers wrote. *)
LEMMA PromisedIsMirror ==
  /\ Structure /\ Ownership => Promised = client.mirror
  /\ Structure' /\ Ownership' => Promised' = client'.mirror
  <1>1. ASSUME NEW h, NEW c \in ClientType,
               \A u \in Units : c.mirror[u] # Unknown => h.data[u] = c.mirror[u]
        PROVE  [u \in Units |-> IF c.mirror[u] = Unknown THEN Unknown ELSE h.data[u]] = c.mirror
    <2>1. c.mirror \in [Units -> Values \cup {Unknown}]
      BY DEF ClientType
    <2> QED  BY <2>1, <1>1
  <1>2. Structure /\ Ownership => Promised = client.mirror
    BY <1>1 DEF Structure, TypeOK, Ownership, ContentsKnown, Promised
  <1>3. Structure' /\ Ownership' => Promised' = client'.mirror
    BY <1>1 DEF Structure, TypeOK, Ownership, ContentsKnown, Promised
  <1> QED  BY <1>2, <1>3

(***************************************************************************)
(* From client c on heap h to client d on heap g, pointer p (if owned) is  *)
(* given up and q is got for n units; the blocks of the others keep their  *)
(* size.  The grants change in the same way.                               *)
(***************************************************************************)
LEMMA GrantsChange ==
  ASSUME NEW h, NEW c, Holds(h, c), NEW g, NEW d, Holds(g, d),
         NEW p, NEW q, d.owned = (c.owned \ {p}) \cup {q}, q = p \/ q \notin c.owned,
         d.asked[q] # 0,
         \A r \in c.owned \ {p} : d.asked[r] = c.asked[r],
         \A r \in c.owned \ {p} : g.size[r - HeaderUnits] = h.size[r - HeaderUnits]
  PROVE  /\ GrantAt(g, d, q) \in Abs!Grant
         /\ Abs!Fits(GrantAt(g, d, q), GrantsBut(h, c, p))
         /\ Grants(g, d) = GrantsBut(h, c, p) \cup {GrantAt(g, d, q)}
  <1>1. \A r \in c.owned \ {p} : GrantAt(g, d, r) = GrantAt(h, c, r)
    BY DEF GrantAt
  <1>2. d.owned \ {q} = c.owned \ {p} /\ q \in d.owned
    OBVIOUS
  <1>3. GrantsBut(g, d, q) = GrantsBut(h, c, p)
    BY <1>1, <1>2 DEF GrantsBut
  <1>4. Abs!Fits(GrantAt(g, d, q), GrantsBut(g, d, q)) /\ GrantAt(g, d, q) \in Abs!Grant
    BY <1>2, GrantsFit, GrantAllowed
  <1>5. Grants(g, d) = GrantsBut(g, d, q) \cup {GrantAt(g, d, q)}
    BY <1>2 DEF Grants, GrantsBut
  <1> QED  BY <1>3, <1>4, <1>5

(* The grants of all pointers but p are the grants but p's. *)
LEMMA GrantRemoved ==
  ASSUME NEW h, NEW c, NEW p \in c.owned
  PROVE  /\ GrantsBut(h, c, p) = Grants(h, c) \ {GrantAt(h, c, p)}
         /\ GrantAt(h, c, p) \in Grants(h, c)
  <1>1. \A r, s : GrantAt(h, c, r) = GrantAt(h, c, s) => r = s
    BY DEF GrantAt
  <1> QED  BY <1>1 DEF Grants, GrantsBut

(* A new grant: heap_allocate and heap_callocate, zeroing z units.         *)
LEMMA GainRefines ==
  ASSUME Structure, Ownership, Structure', Ownership',
         NEW at \in Units, NEW p, p = block_payload(at), at \notin UsedBlocks(heap),
         NEW n \in Nat \ {0}, NEW z,
         \A b \in UsedBlocks(heap) : heap'.size[b] = heap.size[b],
         client' = Gains(client, p, n, z)
  PROVE  \E g \in Abs!Grant :
           /\ Abs!Fits(g, Granted)
           /\ Granted' = Granted \cup {g}
           /\ g.ptr = p /\ g.asked = n
           /\ Promised' = [u \in Units |-> IF u \in p .. (p + z - 1) THEN Zero ELSE Promised[u]]
  <1>1. Holds(heap, client) /\ Holds(heap', client')
    BY HoldsBeforeAndAfter
  <1>2. client.owned \subseteq Units /\ client.asked \in [Units -> Nat]
    BY <1>1 DEF Holds, ClientType
  <1>3. p \notin client.owned /\ p \in client'.owned
    <2>1. HeaderUnits \in Nat /\ HeapUnits \in Nat
      BY HeapAssumption
    <2>2. p - HeaderUnits = at
      BY <2>1 DEF block_payload, Units
    <2> QED  BY <2>2, <1>1, GrantExtent DEF Gains
  <1>4. p \in Units
    BY <1>1, <1>3, GrantExtent
  <1>5. /\ client'.owned = (client.owned \ {p}) \cup {p}
        /\ client'.asked[p] = n
        /\ \A r \in client.owned \ {p} : client'.asked[r] = client.asked[r]
    BY <1>2, <1>3, <1>4 DEF Gains
  <1>6. \A r \in client.owned \ {p} : heap'.size[r - HeaderUnits] = heap.size[r - HeaderUnits]
    BY <1>1, GrantExtent
  <1> DEFINE g == GrantAt(heap', client', p)
             rest == GrantsBut(heap, client, p)
  <1>7. rest = Granted
    BY <1>3, GrantedPointers DEF Grants, GrantsBut
  <1>8. /\ g \in Abs!Grant
        /\ Abs!Fits(g, rest)
        /\ Grants(heap', client') = rest \cup {g}
    BY <1>1, <1>5, <1>6, GrantsChange
  <1>9. g.ptr = p /\ g.asked = n
    BY <1>5 DEF GrantAt
  <1>10. Promised' = [u \in Units |-> IF u \in p .. (p + z - 1) THEN Zero ELSE Promised[u]]
    BY PromisedIsMirror DEF Gains
  <1> HIDE DEF g, rest
  <1> QED  BY <1>7, <1>8, <1>9, <1>10, GrantedPointers

(* A grant given back: heap_release. *)
LEMMA LossRefines ==
  ASSUME Structure, Ownership, Structure', Ownership',
         NEW b \in UsedBlocks(heap), NEW p, p = block_payload(b),
         \A c \in UsedBlocks(heap') : heap'.size[c] = heap.size[c],
         client' = Loses(client, p, Payload(heap, b))
  PROVE  \E g \in Granted : Abs!Release(g)
  <1>1. Holds(heap, client) /\ Holds(heap', client')
    BY HoldsBeforeAndAfter
  <1>2. p \in client.owned /\ client.asked \in [Units -> Nat]
    BY <1>1 DEF Holds, ClientType
  <1>3. p - HeaderUnits = b
    <2>1. b \in Units /\ HeaderUnits \in Nat /\ HeapUnits \in Nat
      BY HeapAssumption DEF UsedBlocks, Blocks
    <2> QED  BY <2>1 DEF block_payload, Units
  <1>4. /\ client'.owned = client.owned \ {p}
        /\ \A r \in client'.owned : client'.asked[r] = client.asked[r]
    <2>1. client'.owned \subseteq Units
      BY <1>1 DEF Holds, ClientType
    <2> QED  BY <2>1, <1>2 DEF Loses
  <1>5. ASSUME NEW r \in client'.owned
        PROVE  GrantAt(heap', client', r) = GrantAt(heap, client, r)
    <2>1. heap'.size[r - HeaderUnits] = heap.size[r - HeaderUnits]
      BY <1>1, GrantExtent
    <2> QED  BY <2>1, <1>4 DEF GrantAt
  <1> DEFINE g == GrantAt(heap, client, p)
  <1>6. Granted' = Granted \ {g} /\ g \in Granted
    <2>1. Granted' = GrantsBut(heap, client, p)
      BY <1>4, <1>5, GrantedPointers DEF Grants, GrantsBut
    <2> QED  BY <2>1, <1>2, GrantRemoved, GrantedPointers
  <1>7. Abs!Extent(g) = Payload(heap, b)
    BY <1>1, <1>2, <1>3, GrantExtent
  <1>8. Promised' = [u \in Units |-> IF u \in Abs!Extent(g) THEN Unknown ELSE Promised[u]]
    BY <1>7, PromisedIsMirror DEF Loses
  <1> HIDE DEF g
  <1>9. Abs!Release(g)
    BY <1>6, <1>8 DEF Abs!Release, Units, Abs!Units
  <1> QED  BY <1>6, <1>9

(* A grant resized or moved: heap_reallocate, in place or by copying.      *)
LEMMA MoveRefines ==
  ASSUME Structure, Ownership, Structure', Ownership',
         NEW old \in UsedBlocks(heap), NEW new \in UsedBlocks(heap'),
         new = old \/ new \notin UsedBlocks(heap), NEW n \in Nat \ {0},
         \A c \in UsedBlocks(heap) \ {old} : heap'.size[c] = heap.size[c],
         client' = Moves(client, block_payload(old), Payload(heap, old),
                         block_payload(new), Payload(heap', new), n)
  PROVE  \E g \in Granted, m \in Abs!Grant : Abs!Reallocate(g, m)
  <1> DEFINE p == block_payload(old)
             q == block_payload(new)
  <1>1. Holds(heap, client) /\ Holds(heap', client')
    BY HoldsBeforeAndAfter
  <1>2. p \in client.owned /\ q \in client'.owned
    BY <1>1 DEF Holds
  <1>3. p - HeaderUnits = old /\ q - HeaderUnits = new
    <2>1. old \in Units /\ new \in Units /\ HeaderUnits \in Nat /\ HeapUnits \in Nat
      BY HeapAssumption DEF UsedBlocks, Blocks
    <2> QED  BY <2>1 DEF block_payload, Units
  <1> HIDE DEF p, q
  <1>4. q = p \/ q \notin client.owned
    BY <1>1, <1>3, GrantExtent DEF p, q
  <1>5. /\ p \in Nat /\ q \in Nat /\ p \in Units /\ q \in Units
        /\ heap.size[old] \in Nat /\ heap'.size[new] \in Nat
        /\ Abs!Extent(GrantAt(heap, client, p)) = Payload(heap, old)
        /\ Abs!Extent(GrantAt(heap', client', q)) = Payload(heap', new)
        /\ Payload(heap, old) = p .. (p + heap.size[old] - 1)
        /\ Payload(heap', new) = q .. (q + heap'.size[new] - 1)
    BY <1>1, <1>2, <1>3, GrantExtent
  <1>6. client' = Moves(client, p, Payload(heap, old), q, Payload(heap', new), n)
    BY DEF p, q
  <1>7. client.owned \subseteq Units
    BY <1>1 DEF Holds, ClientType
  <1>8. /\ client'.owned = (client.owned \ {p}) \cup {q}
        /\ client'.asked[q] = n
        /\ \A r \in client.owned \ {p} : client'.asked[r] = client.asked[r]
    <2>1. /\ client'.owned = (client.owned \ {p}) \cup {q}
          /\ \A u \in Units : client'.asked[u] = IF u = q THEN n
                                                 ELSE IF u = p THEN 0 ELSE client.asked[u]
      BY <1>6 DEF Moves
    <2>2. \A r \in client.owned \ {p} : r \in Units /\ r # q /\ r # p
      BY <1>4, <1>7
    <2> QED  BY <2>1, <2>2, <1>5
  <1>9. ASSUME NEW r \in client.owned \ {p}
        PROVE  heap'.size[r - HeaderUnits] = heap.size[r - HeaderUnits]
    <2>1. r - HeaderUnits \in UsedBlocks(heap) /\ block_payload(r - HeaderUnits) = r
      BY <1>1, GrantExtent
    <2> QED  BY <2>1 DEF p
  <1> DEFINE g == GrantAt(heap, client, p)
             m == GrantAt(heap', client', q)
             rest == GrantsBut(heap, client, p)
  <1>10. /\ m \in Abs!Grant
         /\ Abs!Fits(m, rest)
         /\ Grants(heap', client') = rest \cup {m}
    BY <1>1, <1>4, <1>8, <1>9, GrantsChange
  <1>11. rest = Granted \ {g} /\ g \in Granted
    BY <1>2, GrantRemoved, GrantedPointers
  <1>12. Granted' = (Granted \ {g}) \cup {m}
    BY <1>10, <1>11, GrantedPointers
  <1>13. g.units = heap.size[old] /\ g.ptr = p /\ m.ptr = q
    BY <1>3 DEF GrantAt
  <1>14. /\ Abs!Extent(g) = Payload(heap, old) /\ Abs!Extent(m) = Payload(heap', new)
    BY <1>5
  <1> HIDE DEF g, m, rest
  <1>15. ASSUME NEW u \in Units
         PROVE  client'.mirror[u] =
                  IF u \in Abs!Extent(m) /\ u - m.ptr < g.units THEN client.mirror[u - m.ptr + g.ptr]
                  ELSE IF u \in Abs!Extent(g) \cup Abs!Extent(m) THEN Unknown
                  ELSE client.mirror[u]
    <2>1. client'.mirror[u] =
            IF u \in Payload(heap', new)
            THEN IF u - q + p \in Payload(heap, old) THEN client.mirror[u - q + p] ELSE Unknown
            ELSE IF u \in Payload(heap, old) THEN Unknown
            ELSE client.mirror[u]
      BY <1>6 DEF Moves
    <2>2. u \in Payload(heap', new) =>
            (u - q + p \in Payload(heap, old) <=> u - q < heap.size[old])
      BY <1>5 DEF Units
    <2> QED  BY <2>1, <2>2, <1>13, <1>14
  <1>16. client'.mirror = [u \in Units |->
                IF u \in Abs!Extent(m) /\ u - m.ptr < g.units THEN client.mirror[u - m.ptr + g.ptr]
                ELSE IF u \in Abs!Extent(g) \cup Abs!Extent(m) THEN Unknown
                ELSE client.mirror[u]]
    <2>1. client'.mirror \in [Units -> Values \cup {Unknown}]
      BY <1>1 DEF Holds, ClientType
    <2> QED  BY <2>1, <1>15
  <1>17. Abs!Reallocate(g, m)
    BY <1>10, <1>11, <1>12, <1>16, PromisedIsMirror DEF Abs!Reallocate, Units, Abs!Units
  <1> QED  BY <1>10, <1>11, <1>17

(* Neither the grants nor the promises change.                             *)
LEMMA NothingSeen ==
  ASSUME heap' = heap, client' = client
  PROVE  UNCHANGED Abs!vars
  BY DEF Abs!vars, Granted, Promised

(***************************************************************************)
(* Every step of heap.c is a step of the allocator or one that the callers *)
(* do not see.                                                             *)
(***************************************************************************)
LEMMA AllocatorStep ==
  ASSUME Structure, Ownership, Structure', Ownership', [Next]_vars
  PROVE  [Abs!Next]_(Abs!vars)
  <1>1. /\ heap \in HeapType /\ Tiled(heap) /\ Requests \subseteq Nat /\ HeaderUnits \in Nat
        /\ heap' \in HeapType /\ Tiled(heap')
    BY HeapAssumption DEF Structure, TypeOK, HeapTiled
  <1>2. ASSUME NEW op, Found(op), Searching
        PROVE  /\ call.at \in Blocks(heap) /\ heap.free[call.at] /\ call.at \in Units
               /\ AlignUp(call.size) \in Nat \ {0} /\ heap.size[call.at] >= AlignUp(call.size)
               /\ call.asked = AlignUp(call.size) /\ call.size \in Nat
               /\ AlignUp(call.size) = UnitsFor(call.size)
    <2>1. call.size \in Nat /\ call.op # "idle"
      BY <1>2 DEF Structure, TypeOK, Call, Searching
    <2>2. call.at \in Blocks(heap) /\ Allocatable(call.size)
      BY <1>2, <2>1 DEF Found, CallOK, Structure
    <2> QED  BY <1>2, <2>1, <2>2, Rounding DEF Found, Fitting, Ownership, Blocks
  <1>3. CASE \E p \in Units : heap_release(p)
    <2>1. PICK p \in Units : heap_release(p)
      BY <1>3
    <2> DEFINE b == payload_block(heap, p)
    <2>2. /\ b # NULL /\ ~heap.free[b] /\ heap' = ReleaseBlock(heap, b)
          /\ client' = Loses(client, p, Payload(heap, b))
      BY <2>1 DEF heap_release
    <2>3. b \in UsedBlocks(heap) /\ block_payload(b) = p
      BY <2>2, <1>1, BlockOfPayload DEF UsedBlocks
    <2> HIDE DEF b
    <2>4. \A c \in UsedBlocks(heap') : heap'.size[c] = heap.size[c]
      BY <2>2, <2>3, <1>1, ReleaseList
    <2>5. \E g \in Granted : Abs!Release(g)
      BY <2>2, <2>3, <2>4, LossRefines
    <2> QED  BY <2>5 DEF Abs!Next
  <1>4. ASSUME NEW p \in Units, NEW s \in Requests,
               ReallocateInBlock(p, s) \/ ReallocateIntoNext(p, s)
        PROVE  \E g \in Granted, m \in Abs!Grant : Abs!Reallocate(g, m)
    <2> DEFINE b == payload_block(heap, p)
               n == AlignUp(s)
    <2>1. /\ b \in UsedBlocks(heap) /\ b \in Blocks(heap) /\ block_payload(b) = p
          /\ n \in Nat \ {0} /\ n = UnitsFor(s)
          /\ Resized(p, b, s)
      BY <1>1, <1>4, BlockOfPayload, Rounding
         DEF ReallocateInBlock, ReallocateIntoNext, Reallocatable, UsedBlocks
    <2>2. client' = Moves(client, p, Payload(heap, b), p, Payload(heap', b), n)
      BY <2>1 DEF Resized
    <2>3. /\ UsedBlocks(heap') = UsedBlocks(heap)
          /\ \A c \in UsedBlocks(heap) \ {b} : heap'.size[c] = heap.size[c]
      <3>1. CASE ReallocateInBlock(p, s)
        <4>1. heap.size[b] >= n /\ heap' = split_block(heap, b, n)
          BY <3>1 DEF ReallocateInBlock
        <4> HIDE DEF b, n
        <4> QED  BY <4>1, <2>1, <1>1, SplitBlock DEF UsedBlocks
      <3>2. CASE ReallocateIntoNext(p, s)
        <4> DEFINE merged == merge_with_next(heap, b)
        <4>1. GrowsInPlace(b, n) /\ heap' = split_block(merged, b, n)
          BY <3>2 DEF ReallocateIntoNext
        <4>2. /\ merged \in HeapType /\ Tiled(merged) /\ b \in Blocks(merged)
              /\ merged.size[b] >= n
              /\ UsedBlocks(merged) = UsedBlocks(heap)
              /\ (\A c \in Blocks(merged) \ {b} : merged.size[c] = heap.size[c])
          BY <4>1, <1>1, <2>1, MergeBlock DEF GrowsInPlace
        <4> HIDE DEF merged, b, n
        <4>3. /\ UsedBlocks(heap') = UsedBlocks(merged)
              /\ \A c \in Blocks(merged) \ {b} : heap'.size[c] = merged.size[c]
          BY <4>1, <4>2, <2>1, SplitBlock
        <4> QED  BY <4>2, <4>3 DEF UsedBlocks
      <3> QED  BY <3>1, <3>2, <1>4
    <2> HIDE DEF b, n
    <2> QED  BY <2>1, <2>2, <2>3, MoveRefines
  <1>5. CASE \E p \in Units, v \in Values : Write(p, v)
    <2>1. PICK p \in Units, v \in Values : Write(p, v)
      BY <1>5
    <2> DEFINE b == payload_block(heap, p)
    <2>2. /\ p \in client.owned /\ heap' = Fill(heap, p, heap.size[b], v)
          /\ client' = [client EXCEPT !.mirror =
                [u \in Units |-> IF u \in Payload(heap, b) THEN v ELSE client.mirror[u]]]
      BY <2>1 DEF Write
    <2>3. Holds(heap, client)
      BY HoldsBeforeAndAfter
    <2>4. b = p - HeaderUnits /\ Abs!Extent(GrantAt(heap, client, p)) = Payload(heap, b)
      <3>1. p - HeaderUnits \in Blocks(heap) /\ block_payload(p - HeaderUnits) = p
        BY <2>2, <2>3, GrantExtent
      <3>2. b = p - HeaderUnits
        BY <3>1, <1>1, PayloadOfBlock
      <3> QED  BY <3>2, <2>2, <2>3, GrantExtent
    <2> HIDE DEF b
    <2>5. heap'.size = heap.size
      BY <2>2, <1>1, FillFields
    <2>6. /\ client'.owned = client.owned /\ client'.asked = client.asked
          /\ client'.mirror = [u \in Units |-> IF u \in Payload(heap, b) THEN v ELSE client.mirror[u]]
      BY <2>2, <2>3 DEF Holds, ClientType
    <2>7. Granted' = Granted
      BY <2>5, <2>6 DEF Granted
    <2>8. Promised' = [u \in Units |-> IF u \in Payload(heap, b) THEN v ELSE Promised[u]]
      BY <2>6, PromisedIsMirror
    <2>9. Abs!Write(GrantAt(heap, client, p), v)
      BY <2>4, <2>7, <2>8 DEF Abs!Write, Units, Abs!Units
    <2>10. GrantAt(heap, client, p) \in Granted
      BY <2>2, GrantedPointers DEF Grants
    <2> QED  BY <2>9, <2>10 DEF Abs!Next
  <1>6. CASE AllocateReturns
    <2> DEFINE at == call.at
               n == AlignUp(call.size)
    <2>1. Searching /\ Found("allocate")
      BY <1>6 DEF AllocateReturns, Found, Searching
    <2>2. heap' = TakeBlock(heap, at, n) /\ client' = Gains(client, block_payload(at), n, 0)
      BY <1>2, <1>6, <2>1 DEF AllocateReturns
    <2>3. at \in Blocks(heap) /\ heap.free[at] /\ at \in Units /\ n \in Nat \ {0}
          /\ heap.size[at] >= n
      BY <1>2, <2>1
    <2> HIDE DEF at, n
    <2>4. at \notin UsedBlocks(heap) /\ \A b \in UsedBlocks(heap) : heap'.size[b] = heap.size[b]
      BY <2>2, <2>3, <1>1, TakeList
    <2>5. PICK g \in Abs!Grant :
            /\ Abs!Fits(g, Granted)
            /\ Granted' = Granted \cup {g}
            /\ Promised' = [u \in Units |->
                 IF u \in block_payload(at) .. (block_payload(at) + 0 - 1) THEN Zero ELSE Promised[u]]
      BY <2>2, <2>3, <2>4, GainRefines
    <2>6. Promised' = Promised
      <3>1. block_payload(at) \in Nat
        BY <2>3, <1>1, PayloadExtent
      <3>2. block_payload(at) .. (block_payload(at) + 0 - 1) = {}
        BY <3>1
      <3>3. Promised = [u \in Units |-> Promised[u]]
        BY DEF Promised
      <3> QED  BY <2>5, <3>2, <3>3
    <2> QED  BY <2>5, <2>6 DEF Abs!Next, Abs!Allocate
  <1>7. CASE CallocateReturns
    <2> DEFINE at == call.at
               n == AlignUp(call.size)
               z == call.size \div Alignment
               taken == TakeBlock(heap, at, n)
    <2>1. Searching /\ Found("callocate")
      BY <1>7 DEF CallocateReturns, Found, Searching
    <2>2. /\ heap' = Fill(taken, block_payload(at), z, Zero)
          /\ client' = Gains(client, block_payload(at), n, z)
      BY <1>2, <1>7, <2>1 DEF CallocateReturns
    <2>3. at \in Blocks(heap) /\ heap.free[at] /\ at \in Units /\ n \in Nat \ {0}
          /\ heap.size[at] >= n
      BY <1>2, <2>1
    <2>4. z \in (n - 1) .. n
      <3>1. Alignment \in Nat \ {0} /\ call.size \in Nat
        BY <1>2, <2>1, HeapAssumption
      <3>2. z \in Nat
        BY <3>1, Division
      <3>3. n = (call.size + Alignment - 1) \div Alignment
        BY <1>2, <2>1 DEF UnitsFor
      <3>4. z <= n /\ n <= z + 1
        BY <3>1, <3>3, DivisionGrows, DivisionWithinOne
      <3> QED  BY <2>3, <3>2, <3>4
    <2>5. taken \in HeapType /\ at \notin UsedBlocks(heap)
          /\ \A b \in UsedBlocks(heap) : taken.size[b] = heap.size[b]
      BY <2>3, <1>1, TakeList
    <2> HIDE DEF at, n, z, taken
    <2>6. heap'.size = taken.size
      BY <2>2, <2>5, FillFields, HeapAssumption
    <2>7. PICK g \in Abs!Grant :
            /\ Abs!Fits(g, Granted)
            /\ Granted' = Granted \cup {g}
            /\ g.ptr = block_payload(at) /\ g.asked = n
            /\ Promised' = [u \in Units |->
                 IF u \in block_payload(at) .. (block_payload(at) + z - 1) THEN Zero ELSE Promised[u]]
      BY <2>2, <2>3, <2>5, <2>6, GainRefines
    <2>8. Abs!Callocate(g)
      BY <2>4, <2>7 DEF Abs!Callocate, Units, Abs!Units
    <2> QED  BY <2>8 DEF Abs!Next
  <1>8. CASE ReallocateReturns
    <2> DEFINE old == payload_block(heap, call.ptr)
               at == call.at
               n == AlignUp(call.size)
               taken == TakeBlock(heap, at, n)
    <2>1. Searching /\ Found("reallocate") /\ call.op = "reallocate"
      BY <1>8 DEF ReallocateReturns, Found, Searching
    <2>2. old \in UsedBlocks(heap) /\ heap.size[old] < n
      BY <2>1 DEF CallOK, Structure
    <2>3. call.ptr = block_payload(old)
      <3>1. old \in Blocks(heap) /\ old \in Nat
        BY <1>1, <2>2, BlockBounds DEF UsedBlocks
      <3>2. old # NULL /\ call.ptr # NULL /\ call.ptr \in Units
        BY <3>1, HeapAssumption DEF payload_block, NULL, Structure, TypeOK, Call, Address
      <3> QED  BY <1>1, <3>2, BlockOfPayload
    <2>4. /\ heap' = ReleaseBlock(Copy(taken, block_payload(at), block_payload(old),
                                      heap.size[old]), old)
          /\ client' = Moves(client, block_payload(old), Payload(heap, old),
                            block_payload(at), Payload(taken, at), n)
      BY <1>2, <1>8, <2>1, <2>3 DEF ReallocateReturns
    <2>5. at \in Blocks(heap) /\ heap.free[at] /\ n \in Nat \ {0} /\ heap.size[at] >= n
      BY <1>2, <2>1
    <2> HIDE DEF old, at, n, taken
    <2>6. /\ UsedBlocks(heap') = (UsedBlocks(heap) \ {old}) \cup {at}
          /\ at \notin UsedBlocks(heap)
          /\ heap'.size[at] = taken.size[at]
          /\ \A c \in UsedBlocks(heap) \ {old} : heap'.size[c] = heap.size[c]
      BY <1>1, <2>2, <2>4, <2>5, MoveList DEF taken
    <2>7. Payload(heap', at) = Payload(taken, at)
      BY <2>6, SamePayload
    <2>8. \E g \in Granted, m \in Abs!Grant : Abs!Reallocate(g, m)
      BY <2>2, <2>4, <2>5, <2>6, <2>7, MoveRefines
    <2> QED  BY <2>8 DEF Abs!Next
  <1>9. ASSUME Begin \/ SearchNext \/ SearchFails \/ StatsVisit \/ StatsReturns \/ UNCHANGED vars
         PROVE  heap' = heap /\ client' = client
    BY <1>9 DEF Begin, heap_allocate, heap_callocate, ReallocateMoves, heap_stats, Walk,
                 SearchNext, SearchFails, StatsVisit, StatsReturns, vars
  <1>10. CASE \E p \in Units, s \in Requests : ReallocateInBlock(p, s) \/ ReallocateIntoNext(p, s)
    BY <1>4, <1>10 DEF Abs!Next
  <1> QED  BY <1>3, <1>5, <1>6, <1>7, <1>8, <1>9, <1>10, NothingSeen DEF Next, InPlace, Continue

(* An empty heap: no grants and no promises.                               *)
LEMMA AllocatorInit == Init => Abs!Init
  <1> SUFFICES ASSUME Init PROVE Abs!Init
    OBVIOUS
  <1>1. Granted = {}
    BY DEF Init, NoClient, Granted
  <1>2. Promised = [u \in Abs!Units |-> Unknown]
    BY DEF Init, NoClient, Promised, Units, Abs!Units
  <1> QED  BY <1>1, <1>2 DEF Abs!Init

(***************************************************************************)
(* heap.c implements the allocator: with the blocks in use as grants and   *)
(* what callers wrote there as promises, the heap starts as the allocator  *)
(* does and each of its steps is one of the allocator's or is not seen by  *)
(* the callers.                                                            *)
(***************************************************************************)
THEOREM HeapImplementsAllocator == Spec => ImplementsAllocator
  <1>1. Init => Abs!Init
    BY AllocatorInit
  <1>2. Structure /\ Structure' /\ Ownership /\ Ownership' /\ [Next]_vars
          => [Abs!Next]_(Abs!vars)
    BY AllocatorStep
  <1> QED  BY <1>1, <1>2, AlwaysStructure, AlwaysOwnership, PTL
           DEF Spec, Abs!Spec, ImplementsAllocator
=============================================================================
