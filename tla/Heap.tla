-------------------------------- MODULE Heap --------------------------------
(***************************************************************************)
(* The kernel heap (src/kernel/heap.c): one array cut into blocks, each a  *)
(* header followed by its payload, on a doubly linked list in address      *)
(* order; first fit, splitting, coalescing, reallocation in place or by    *)
(* moving.                                                                 *)
(*                                                                         *)
(* Addresses are offsets from heap_begin in units of HEAP_ALIGNMENT bytes: *)
(* every header and payload starts on such a boundary.  The C structs live *)
(* in the memory they describe, so a header field is a function of the     *)
(* address; `magic` is TRUE where the word holds HEAP_MAGIC.  A header     *)
(* without its magic is never read: its other fields are reset here, where *)
(* the code leaves them.  `data` is Unknown in headers and in free blocks, *)
(* whose bytes are nobody's.                                               *)
(*                                                                         *)
(* The walks along the list (heap_allocate, heap_stats) are modelled one   *)
(* block per step.  `call` is the call that is walking; nothing else runs  *)
(* meanwhile, as the kernel has one thread and takes no interrupts.        *)
(***************************************************************************)
EXTENDS Integers, FiniteSets

CONSTANTS
  HeapUnits,    \* heap_end - heap_begin, in units
  HeaderUnits,  \* header_size(), in units: 2 in the x86_64 build
  Alignment,    \* HEAP_ALIGNMENT: bytes in a unit
  SizeMax,      \* SIZE_MAX
  Requests,     \* the sizes in bytes that callers ask for
  Counts,       \* the element counts that callers of heap_callocate ask for
  Values,       \* what a caller can store in a unit of its payload
  Zero,         \* the value heap_callocate stores
  Unknown       \* in `data` and client.mirror: contents nobody relies on

(* heap_init refuses an array with no room for a header and two units. *)
ASSUME HeapAssumption ==
  /\ HeaderUnits \in Nat \ {0}
  /\ HeapUnits \in Nat /\ HeapUnits > HeaderUnits + 1
  /\ Alignment \in Nat \ {0}
  /\ SizeMax \in Nat /\ SizeMax >= Alignment
  /\ Requests \subseteq 0 .. SizeMax
  /\ Counts \subseteq 0 .. SizeMax
  /\ Zero \in Values
  /\ Unknown \notin Values

VARIABLES
  heap,     \* the array: header fields and payload bytes, by address
  count,    \* allocation_count
  call,     \* the call that is walking the block list, or IdleCall
  sums,     \* the HeapStats that heap_stats is adding up
  client    \* the callers' view: what they hold and what they wrote there

vars == <<heap, count, call, sums, client>>

NULL == -1
Units == 0 .. (HeapUnits - 1)
Address == Units \cup {NULL}

first_block == 0

-----------------------------------------------------------------------------
(* Blocks.                                                                 *)

(* The addresses that hold a header with its magic intact. *)
Blocks(h) == {b \in Units : h.magic[b]}

UsedBlocks(h) == {b \in Blocks(h) : ~h.free[b]}

block_payload(b) == b + HeaderUnits

(* The address after the last unit of b's payload. *)
End(h, b) == b + HeaderUnits + h.size[b]

Payload(h, b) == block_payload(b) .. (End(h, b) - 1)

(* payload_block: the block p is the payload of, or NULL. *)
payload_block(h, p) ==
  IF p >= HeaderUnits /\ p < HeapUnits /\ h.magic[p - HeaderUnits]
  THEN p - HeaderUnits
  ELSE NULL

(* align_up, in units: 0 when rounding up would overflow a size_t. *)
AlignUp(bytes) ==
  IF bytes > SizeMax - (Alignment - 1)
  THEN 0
  ELSE (bytes + Alignment - 1) \div Alignment

(* How many units it takes to hold this many bytes, with no overflow. *)
UnitsFor(bytes) == (bytes + Alignment - 1) \div Alignment

-----------------------------------------------------------------------------
(* The helpers that rewrite the list, as functions from heap to heap.      *)

(* Mutant: the block after the remainder still points back to b. *)
SplitKeepsBackLink(h, b, n) ==
  IF h.size[b] < n + HeaderUnits + 1 THEN h
  ELSE LET r == block_payload(b) + n IN
       [size  |-> [h.size EXCEPT ![b] = n, ![r] = h.size[b] - n - HeaderUnits],
        prev  |-> [h.prev EXCEPT ![r] = b],
        next  |-> [h.next EXCEPT ![b] = r, ![r] = h.next[b]],
        magic |-> [h.magic EXCEPT ![r] = TRUE],
        free  |-> [h.free EXCEPT ![r] = TRUE],
        data  |-> h.data]

(* Mutant: the room check leaves no room for the header of the rest. *)
SplitForgetsHeader(h, b, n) ==
  IF h.size[b] < n THEN h
  ELSE LET r == block_payload(b) + n IN
       [size  |-> [u \in Units |-> IF u = b THEN n
                                   ELSE IF u = r THEN h.size[b] - n - HeaderUnits ELSE h.size[u]],
        prev  |-> [u \in Units |-> IF u = r THEN b ELSE IF u = h.next[b] THEN r ELSE h.prev[u]],
        next  |-> [u \in Units |-> IF u = b THEN r ELSE IF u = r THEN h.next[b] ELSE h.next[u]],
        magic |-> [u \in Units |-> u = r \/ h.magic[u]],
        free  |-> [u \in Units |-> u = r \/ h.free[u]],
        data  |-> h.data]

(* Mutant: block->next is overwritten before the rest has copied it. *)
SplitSwapsLinks(h, b, n) ==
  IF h.size[b] < n + HeaderUnits + 1 THEN h
  ELSE LET r == block_payload(b) + n IN
       [size  |-> [h.size EXCEPT ![b] = n, ![r] = h.size[b] - n - HeaderUnits],
        prev  |-> [h.prev EXCEPT ![r] = b],
        next  |-> [h.next EXCEPT ![b] = r, ![r] = r],
        magic |-> [h.magic EXCEPT ![r] = TRUE],
        free  |-> [h.free EXCEPT ![r] = TRUE],
        data  |-> h.data]

(***************************************************************************)
(* split_block: cut b down to n units and make a free block of the rest,   *)
(* unless the rest has no room for a header and one unit.                  *)
(***************************************************************************)
split_block(h, b, n) ==
  IF h.size[b] < n + HeaderUnits + 1 THEN h
  ELSE LET r == block_payload(b) + n
           after == h.next[b]
       IN
       [size  |-> [h.size EXCEPT ![b] = n, ![r] = h.size[b] - n - HeaderUnits],
        prev  |-> [u \in Units |-> IF u = r THEN b
                                   ELSE IF u = after THEN r ELSE h.prev[u]],
        next  |-> [h.next EXCEPT ![b] = r, ![r] = after],
        magic |-> [h.magic EXCEPT ![r] = TRUE],
        free  |-> [h.free EXCEPT ![r] = TRUE],
        data  |-> [u \in Units |-> IF u \in r .. (End(h, b) - 1) THEN Unknown ELSE h.data[u]]]

(***************************************************************************)
(* merge_with_next: absorb the block after b if it is free.  Its header    *)
(* is inside b's payload now, with its magic cleared.                      *)
(***************************************************************************)
merge_with_next(h, b) ==
  LET n == h.next[b] IN
  IF n = NULL THEN h
  ELSE IF ~h.free[n] \/ ~h.magic[n] THEN h
  ELSE [size  |-> [h.size EXCEPT ![b] = h.size[b] + HeaderUnits + h.size[n], ![n] = 0],
        prev  |-> [u \in Units |-> IF u = n THEN NULL
                                   ELSE IF u = h.next[n] THEN b ELSE h.prev[u]],
        next  |-> [h.next EXCEPT ![b] = h.next[n], ![n] = NULL],
        magic |-> [h.magic EXCEPT ![n] = FALSE],
        free  |-> [h.free EXCEPT ![n] = FALSE],
        data  |-> h.data]

SetFree(h, b, f) == [h EXCEPT !.free = [h.free EXCEPT ![b] = f]]

(* memset and memcpy into a payload, in whole units. *)
Fill(h, from, n, v) ==
  [h EXCEPT !.data = [u \in Units |-> IF u \in from .. (from + n - 1) THEN v ELSE h.data[u]]]

Copy(h, to, from, n) ==
  [h EXCEPT !.data = [u \in Units |->
                        IF u \in to .. (to + n - 1) THEN h.data[u - to + from] ELSE h.data[u]]]

(* Mutant: the block before b is not looked at. *)
ReleaseMergesForward(h, b) ==
  merge_with_next(Fill(SetFree(h, b, TRUE), block_payload(b), h.size[b], Unknown), b)

(* What heap_release does to the list once it has found the block of p. *)
ReleaseBlock(h, b) ==
  LET freed == Fill(SetFree(h, b, TRUE), block_payload(b), h.size[b], Unknown)
      merged == merge_with_next(freed, b)
      before == merged.prev[b]
  IN
  IF before # NULL /\ merged.free[before]
  THEN merge_with_next(merged, before)
  ELSE merged

(* What heap_allocate does to the list once it has found a fitting block. *)
TakeBlock(h, b, n) == SetFree(split_block(h, b, n), b, FALSE)

-----------------------------------------------------------------------------
(* The callers' view.                                                      *)

NoClient ==
  [owned |-> {}, asked |-> [u \in Units |-> 0], mirror |-> [u \in Units |-> Unknown]]

(* A caller gets p for a request of n units, the first z of them zeroed.   *)
Gains(c, p, n, z) ==
  [owned  |-> c.owned \cup {p},
   asked  |-> [c.asked EXCEPT ![p] = n],
   mirror |-> [u \in Units |-> IF u \in p .. (p + z - 1) THEN Zero ELSE c.mirror[u]]]

(* A caller gives p, with this extent, back. *)
Loses(c, p, extent) ==
  [owned  |-> c.owned \ {p},
   asked  |-> [c.asked EXCEPT ![p] = 0],
   mirror |-> [u \in Units |-> IF u \in extent THEN Unknown ELSE c.mirror[u]]]

(* p with the extent old becomes q with the extent new, asked for n units. *)
Moves(c, p, old, q, new, n) ==
  [owned  |-> (c.owned \ {p}) \cup {q},
   asked  |-> [u \in Units |-> IF u = q THEN n ELSE IF u = p THEN 0 ELSE c.asked[u]],
   mirror |-> [u \in Units |->
                 IF u \in new THEN IF u - q + p \in old THEN c.mirror[u - q + p] ELSE Unknown
                 ELSE IF u \in old THEN Unknown
                 ELSE c.mirror[u]]]

-----------------------------------------------------------------------------
(* Calls.                                                                  *)

IdleCall == [op |-> "idle", ptr |-> NULL, size |-> 0, asked |-> 0, at |-> NULL]

NoSums == [used |-> 0, free |-> 0, largest |-> 0]

Init ==
  /\ heap = [size  |-> [u \in Units |-> IF u = first_block THEN HeapUnits - HeaderUnits ELSE 0],
             prev  |-> [u \in Units |-> NULL],
             next  |-> [u \in Units |-> NULL],
             magic |-> [u \in Units |-> u = first_block],
             free  |-> [u \in Units |-> u = first_block],
             data  |-> [u \in Units |-> Unknown]]
  /\ count = 0
  /\ call = IdleCall
  /\ sums = NoSums
  /\ client = NoClient

(* A call that walks the list from its first block starts. *)
Walk(op, p, bytes, asked) ==
  /\ call = IdleCall
  /\ call' = [op |-> op, ptr |-> p, size |-> bytes, asked |-> asked, at |-> first_block]
  /\ UNCHANGED <<heap, count, sums, client>>

(* The size is not zero and rounding it up does not overflow: the early    *)
(* returns of heap_allocate and heap_reallocate.                           *)
Allocatable(bytes) == bytes # 0 /\ AlignUp(bytes) # 0

heap_allocate(s) == Allocatable(s) /\ Walk("allocate", NULL, s, UnitsFor(s))

(* Mutant: the multiplication is not guarded. *)
UncheckedCallocate(k, s) ==
  LET total == (k * s) % (SizeMax + 1) IN
  Allocatable(total) /\ Walk("callocate", NULL, total, UnitsFor(k * s))

heap_callocate(k, s) ==
  LET total == (k * s) % (SizeMax + 1) IN
  /\ k # 0 => s <= SizeMax \div k
  /\ Allocatable(total)
  /\ Walk("callocate", NULL, total, UnitsFor(k * s))

(* heap_stats, up to its loop. *)
heap_stats == Walk("stats", NULL, 0, 0)

Searching == call.op \in {"allocate", "callocate", "reallocate"}

(* Mutant: a block of exactly the size asked for is passed over. *)
FittingLarger(b, bytes) == heap.free[b] /\ heap.size[b] > AlignUp(bytes)

Fitting(b, bytes) == heap.free[b] /\ heap.size[b] >= AlignUp(bytes)

(* The search passes a block that is in use or too small. *)
SearchNext ==
  /\ Searching
  /\ call.at # NULL
  /\ ~Fitting(call.at, call.size)
  /\ call' = [call EXCEPT !.at = heap.next[call.at]]
  /\ UNCHANGED <<heap, count, sums, client>>

(* The search has passed the last block: the call returns NULL. *)
SearchFails ==
  /\ Searching
  /\ call.at = NULL
  /\ call' = IdleCall
  /\ UNCHANGED <<heap, count, sums, client>>

(* The search stops at a block that fits. *)
Found(op) ==
  /\ call.op = op
  /\ call.at # NULL
  /\ Fitting(call.at, call.size)
  /\ call' = IdleCall
  /\ UNCHANGED sums

AllocateReturns ==
  /\ Found("allocate")
  /\ heap' = TakeBlock(heap, call.at, AlignUp(call.size))
  /\ count' = count + 1
  /\ client' = Gains(client, block_payload(call.at), call.asked, 0)

(* memset(pointer, 0, total), in the whole units it covers. *)
CallocateReturns ==
  LET p == block_payload(call.at)
      zeroed == call.size \div Alignment
  IN
  /\ Found("callocate")
  /\ heap' = Fill(TakeBlock(heap, call.at, AlignUp(call.size)), p, zeroed, Zero)
  /\ count' = count + 1
  /\ client' = Gains(client, p, call.asked, zeroed)

(* Mutant: a pointer whose block is free already is released again. *)
ReleaseAgain(p) ==
  LET b == payload_block(heap, p) IN
  /\ call = IdleCall
  /\ b # NULL
  /\ heap' = ReleaseBlock(heap, b)
  /\ count' = IF count # 0 THEN count - 1 ELSE count
  /\ client' = Loses(client, p, Payload(heap, b))
  /\ UNCHANGED <<call, sums>>

(***************************************************************************)
(* heap_release, also called by heap_reallocate(p, 0).  A pointer without  *)
(* a block, or whose block is free already, changes nothing: no step.      *)
(***************************************************************************)
heap_release(p) ==
  LET b == payload_block(heap, p) IN
  /\ call = IdleCall
  /\ b # NULL /\ ~heap.free[b]
  /\ heap' = ReleaseBlock(heap, b)
  /\ count' = IF count # 0 THEN count - 1 ELSE count
  /\ client' = Loses(client, p, Payload(heap, b))
  /\ UNCHANGED <<call, sums>>

(* The early returns of heap_reallocate. *)
Reallocatable(p, s) ==
  /\ call = IdleCall
  /\ payload_block(heap, p) # NULL
  /\ ~heap.free[payload_block(heap, p)]
  /\ Allocatable(s)

(* Mutant: the block after b is taken for free. *)
GrowsOverUsed(b, n) ==
  /\ heap.size[b] < n
  /\ heap.next[b] # NULL
  /\ heap.size[b] + HeaderUnits + heap.size[heap.next[b]] >= n

(* The block after b is free and, with b, large enough. *)
GrowsInPlace(b, n) ==
  /\ heap.size[b] < n
  /\ heap.next[b] # NULL
  /\ heap.free[heap.next[b]]
  /\ heap.size[b] + HeaderUnits + heap.size[heap.next[b]] >= n

(* b was resized in place: p keeps what fits in both extents. *)
Resized(p, b, s) ==
  /\ client' = Moves(client, p, Payload(heap, b), p, Payload(heap', b), UnitsFor(s))
  /\ UNCHANGED <<count, call, sums>>

ReallocateInBlock(p, s) ==
  LET b == payload_block(heap, p) IN
  /\ Reallocatable(p, s)
  /\ heap.size[b] >= AlignUp(s)
  /\ heap' = split_block(heap, b, AlignUp(s))
  /\ Resized(p, b, s)

ReallocateIntoNext(p, s) ==
  LET b == payload_block(heap, p) IN
  /\ Reallocatable(p, s)
  /\ GrowsInPlace(b, AlignUp(s))
  /\ heap' = split_block(merge_with_next(heap, b), b, AlignUp(s))
  /\ Resized(p, b, s)

(* No room in place: a new block is searched for. *)
ReallocateMoves(p, s) ==
  LET b == payload_block(heap, p) IN
  /\ Reallocatable(p, s)
  /\ heap.size[b] < AlignUp(s) /\ ~GrowsInPlace(b, AlignUp(s))
  /\ Walk("reallocate", p, s, UnitsFor(s))

(* Mutant: the old block is released before its payload is copied. *)
MovesAfterRelease ==
  LET old == payload_block(heap, call.ptr)
      p == block_payload(call.at)
      taken == TakeBlock(heap, call.at, AlignUp(call.size))
  IN
  /\ Found("reallocate")
  /\ heap' = Copy(ReleaseBlock(taken, old), p, call.ptr, heap.size[old])
  /\ client' = Moves(client, call.ptr, Payload(heap, old), p, Payload(taken, call.at), call.asked)
  /\ UNCHANGED count

(* The new block is found: memcpy of the old payload, then heap_release.   *)
(* The old block is smaller than the request here, so all of it is copied. *)
(* allocation_count goes up and down again.                                *)
ReallocateReturns ==
  LET old == payload_block(heap, call.ptr)
      p == block_payload(call.at)
      taken == TakeBlock(heap, call.at, AlignUp(call.size))
  IN
  /\ Found("reallocate")
  /\ heap' = ReleaseBlock(Copy(taken, p, call.ptr, heap.size[old]), old)
  /\ client' = Moves(client, call.ptr, Payload(heap, old), p, Payload(taken, call.at), call.asked)
  /\ UNCHANGED count

(* Mutant: largest_free is the size of the last free block. *)
StatsVisitLast ==
  LET b == call.at IN
  /\ call.op = "stats"
  /\ b # NULL
  /\ sums' = IF heap.free[b]
             THEN [sums EXCEPT !.free = @ + heap.size[b], !.largest = heap.size[b]]
             ELSE [sums EXCEPT !.used = @ + heap.size[b]]
  /\ call' = [call EXCEPT !.at = heap.next[b]]
  /\ UNCHANGED <<heap, count, client>>

(* The loop of heap_stats: one block. *)
StatsVisit ==
  LET b == call.at IN
  /\ call.op = "stats"
  /\ b # NULL
  /\ sums' = IF heap.free[b]
             THEN [sums EXCEPT !.free = @ + heap.size[b],
                               !.largest = IF heap.size[b] > @ THEN heap.size[b] ELSE @]
             ELSE [sums EXCEPT !.used = @ + heap.size[b]]
  /\ call' = [call EXCEPT !.at = heap.next[b]]
  /\ UNCHANGED <<heap, count, client>>

StatsReturns ==
  /\ call.op = "stats"
  /\ call.at = NULL
  /\ call' = IdleCall
  /\ sums' = NoSums
  /\ UNCHANGED <<heap, count, client>>

(* A caller fills what it holds at p with v. *)
Write(p, v) ==
  LET b == payload_block(heap, p) IN
  /\ call = IdleCall
  /\ p \in client.owned
  /\ heap' = Fill(heap, p, heap.size[b], v)
  /\ client' = [client EXCEPT !.mirror =
                  [u \in Units |-> IF u \in Payload(heap, b) THEN v ELSE client.mirror[u]]]
  /\ UNCHANGED <<count, call, sums>>

Begin ==
  \/ \E s \in Requests : heap_allocate(s)
  \/ \E k \in Counts, s \in Requests : heap_callocate(k, s)
  \/ \E p \in Units, s \in Requests : ReallocateMoves(p, s)
  \/ heap_stats

InPlace ==
  \/ \E p \in Units : heap_release(p)
  \/ \E p \in Units, s \in Requests : ReallocateInBlock(p, s) \/ ReallocateIntoNext(p, s)
  \/ \E p \in Units, v \in Values : Write(p, v)

Continue ==
  \/ SearchNext
  \/ SearchFails
  \/ AllocateReturns
  \/ CallocateReturns
  \/ ReallocateReturns
  \/ StatsVisit
  \/ StatsReturns

Next == Begin \/ InPlace \/ Continue

(* A call, once started, runs on: the kernel has nothing to run instead.   *)
Spec == Init /\ [][Next]_vars /\ WF_vars(Continue)

-----------------------------------------------------------------------------
(* Properties.                                                             *)

Call == [op : {"idle", "allocate", "callocate", "reallocate", "stats"},
         ptr : Address, size : Nat, asked : Nat, at : Address]

HeapType == [size : [Units -> Nat], prev : [Units -> Address], next : [Units -> Address],
             magic : [Units -> BOOLEAN], free : [Units -> BOOLEAN],
             data : [Units -> Values \cup {Unknown}]]

ClientType == [owned : SUBSET Units, asked : [Units -> Nat],
               mirror : [Units -> Values \cup {Unknown}]]

TypeOK ==
  /\ heap \in HeapType
  /\ count \in Nat
  /\ call \in Call
  /\ sums \in [used : Nat, free : Nat, largest : Nat]
  /\ client \in ClientType

(* From block b the list goes on exactly where b's payload ends. *)
LinksForward(h, b) ==
  IF End(h, b) = HeapUnits
  THEN h.next[b] = NULL
  ELSE /\ h.next[b] = End(h, b)
       /\ End(h, b) \in Blocks(h)
       /\ h.prev[End(h, b)] = b

LinksBack(h, b) ==
  IF b = first_block
  THEN h.prev[b] = NULL
  ELSE h.prev[b] \in Blocks(h) /\ h.next[h.prev[b]] = b

(***************************************************************************)
(* The headers cut the array into blocks without gap or overlap: the block *)
(* list visits, in address order and in both directions, every address     *)
(* that holds a live magic, and no such address lies inside a block.  All  *)
(* of heap.c relies on it; split_block, merge_with_next and their          *)
(* combinations in heap_release and heap_reallocate must restore it.       *)
(***************************************************************************)
Tiled(h) ==
  /\ first_block \in Blocks(h)
  /\ \A b \in Blocks(h) :
       /\ h.size[b] >= 1
       /\ End(h, b) <= HeapUnits
       /\ LinksForward(h, b)
       /\ LinksBack(h, b)
  /\ \A b, c \in Blocks(h) : b < c => End(h, b) <= c

HeapTiled == Tiled(heap)

(***************************************************************************)
(* What callers hold and what the list says is in use are the same: no     *)
(* block of a caller is released, merged away or handed out twice, none    *)
(* leaks, and allocation_count counts them.                                *)
(***************************************************************************)
CallersHoldUsedBlocks ==
  /\ client.owned = {block_payload(b) : b \in UsedBlocks(heap)}
  /\ count = Cardinality(client.owned)

(***************************************************************************)
(* A caller's block holds what was asked for, as computed without size_t   *)
(* overflow, and wastes at most what split_block could not split off.      *)
(***************************************************************************)
GrantsAreTight ==
  \A p \in client.owned :
    LET size == heap.size[p - HeaderUnits] IN
    client.asked[p] <= size /\ size <= client.asked[p] + HeaderUnits

(***************************************************************************)
(* A payload holds what its caller wrote, or calloc's zeroes, through the  *)
(* allocations, releases and moves of all the other blocks.                *)
(***************************************************************************)
ContentsPreserved ==
  \A u \in Units : client.mirror[u] # Unknown => heap.data[u] = client.mirror[u]

(***************************************************************************)
(* First fit: the blocks a search has passed do not fit, so a call fails   *)
(* (call.at = NULL) only when no single free block is large enough.        *)
(***************************************************************************)
SearchSkipsNoFit ==
  Searching =>
    \A b \in Blocks(heap) :
      heap.free[b] /\ heap.size[b] >= AlignUp(call.size) => call.at # NULL /\ call.at <= b

(***************************************************************************)
(* heap_stats returns a whole picture: used, free and the headers add up   *)
(* to the capacity, and largest_free is the size of the largest free       *)
(* block, so an allocation of that size succeeds.                          *)
(***************************************************************************)
StatsExact ==
  call.op = "stats" /\ call.at = NULL =>
    LET free == {heap.size[b] : b \in Blocks(heap) \ UsedBlocks(heap)} IN
    /\ sums.used + sums.free + HeaderUnits * Cardinality(Blocks(heap)) = HeapUnits
    /\ sums.largest \in free \cup {0}
    /\ \A n \in free : n <= sums.largest

(* The free blocks that follow a free block. *)
Uncoalesced(h) == {b \in Blocks(h) : h.free[b] /\ h.prev[b] # NULL /\ h.free[h.prev[b]]}

(***************************************************************************)
(* Two free blocks come to lie side by side only when heap_reallocate      *)
(* shrinks a block in place; no allocation, release or growth does it.     *)
(* (heap_release merges with its two neighbours, heap_reallocate's shrink  *)
(* leaves the cut-off rest beside a free block.)                           *)
(***************************************************************************)
OnlyShrinkingFragments ==
  [][ Uncoalesced(heap') \subseteq Uncoalesced(heap)
      \/ \E b \in UsedBlocks(heap) \cap UsedBlocks(heap') : heap'.size[b] < heap.size[b]
    ]_vars

(***************************************************************************)
(* Every call that walks the list returns: the list is finite and has no   *)
(* cycle, whatever calls came before.                                      *)
(***************************************************************************)
CallsReturn == (call # IdleCall) ~> (call = IdleCall)

(***************************************************************************)
(* The heap implements the abstract allocator.                             *)
(***************************************************************************)
Promised ==
  [u \in Units |-> IF client.mirror[u] = Unknown THEN Unknown ELSE heap.data[u]]

Granted ==
  {[ptr |-> p, units |-> heap.size[p - HeaderUnits], asked |-> client.asked[p]] :
     p \in client.owned}

Abs == INSTANCE Allocator WITH Slack <- HeaderUnits, grants <- Granted, store <- Promised

(* Seen through Granted and Promised, every step of heap.c is a step of    *)
(* the allocator, or changes nothing a caller can see.                     *)
ImplementsAllocator == Abs!Spec
=============================================================================
