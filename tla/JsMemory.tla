------------------------------ MODULE JsMemory ------------------------------
(***************************************************************************)
(* The memory accounting of the JavaScript runtime (the JSMallocFunctions  *)
(* of src/kernel/runtime.c) over the allocator that module Heap is shown   *)
(* to implement.  QuickJS charges what heap_usable_size reports against    *)
(* malloc_limit; the kernel's C code (libc.c: malloc, realloc, free) takes *)
(* its memory from the same heap and is charged nothing.                   *)
(*                                                                         *)
(* A failing call changes nothing and is no step: heap_allocate may fail   *)
(* for want of a large enough block at any time.                           *)
(***************************************************************************)
EXTENDS Integers, FiniteSets, FiniteSetsExt

CONSTANTS
  HeapUnits,  \* as in Allocator
  Slack,      \* as in Allocator: the header, in units
  Alignment,  \* HEAP_ALIGNMENT: bytes in a unit
  SizeMax,    \* SIZE_MAX
  JsLimit,    \* JS_MEMORY_LIMIT
  Requests,   \* the sizes in bytes that are asked for
  Zero, Unknown

ASSUME JsMemoryAssumption ==
  /\ HeapUnits \in Nat /\ Slack \in Nat
  /\ Alignment \in Nat \ {0}
  /\ SizeMax \in Nat /\ JsLimit \in 0 .. SizeMax
  /\ HeapUnits * Alignment <= SizeMax
  /\ Requests \subseteq 0 .. SizeMax

VARIABLES
  grants, store,  \* the allocator's
  js,             \* the pointers QuickJS holds
  malloc_count, malloc_size, malloc_limit \* JSMallocState

memory == <<grants, store, js, malloc_count, malloc_size, malloc_limit>>
state == <<malloc_count, malloc_size, malloc_limit>>

Heap == INSTANCE Allocator WITH Values <- {Zero}

-----------------------------------------------------------------------------

UnitsFor(bytes) == (bytes + Alignment - 1) \div Alignment

(* The grant that starts at p. *)
GrantAt(p) == CHOOSE g \in grants : g.ptr = p

heap_usable_size(g) == g.units * Alignment

(* The allocator answers a request for s bytes with the grant g, fresh or  *)
(* in place of the one at p.                                               *)
heap_allocate(s, g) == s # 0 /\ g.asked = UnitsFor(s) /\ Heap!Allocate(g)

heap_release(p) == Heap!Release(GrantAt(p))

heap_reallocate(p, s, g) ==
  s # 0 /\ g.asked = UnitsFor(s) /\ Heap!Reallocate(GrantAt(p), g)

InitMemory ==
  /\ Heap!Init
  /\ js = {}
  /\ malloc_count = 0
  /\ malloc_size = 0
  /\ malloc_limit = SizeMax

(* Mutant: the size asked for is charged, in whole units. *)
RuntimeMallocChargesRequest(size, g) ==
  /\ size # 0
  /\ malloc_size <= malloc_limit
  /\ size <= malloc_limit - malloc_size
  /\ heap_allocate(size, g)
  /\ js' = js \cup {g.ptr}
  /\ malloc_count' = malloc_count + 1
  /\ malloc_size' = malloc_size + UnitsFor(size) * Alignment
  /\ UNCHANGED malloc_limit

runtime_malloc(size, g) ==
  /\ size # 0
  /\ malloc_size <= malloc_limit
  /\ size <= malloc_limit - malloc_size
  /\ heap_allocate(size, g)
  /\ js' = js \cup {g.ptr}
  /\ malloc_count' = malloc_count + 1
  /\ malloc_size' = malloc_size + heap_usable_size(g)
  /\ UNCHANGED malloc_limit

runtime_free(p) ==
  LET usable == heap_usable_size(GrantAt(p)) IN
  /\ p \in js
  /\ malloc_count' = IF malloc_count # 0 THEN malloc_count - 1 ELSE malloc_count
  /\ malloc_size' = IF usable <= malloc_size THEN malloc_size - usable ELSE malloc_size
  /\ heap_release(p)
  /\ js' = js \ {p}
  /\ UNCHANGED malloc_limit

(* Mutant: the limit is compared with the growth only. *)
RuntimeReallocUnbounded(p, size, g) ==
  LET old == heap_usable_size(GrantAt(p))
      base == IF malloc_size >= old THEN malloc_size - old ELSE 0
  IN
  /\ p \in js
  /\ size # 0
  /\ size - old <= malloc_limit
  /\ heap_reallocate(p, size, g)
  /\ malloc_size' = base + heap_usable_size(g)
  /\ js' = (js \ {p}) \cup {g.ptr}
  /\ UNCHANGED <<malloc_count, malloc_limit>>

(* runtime_realloc of a pointer, to a size; with no pointer it is          *)
(* runtime_malloc, and with size 0 it is runtime_free.                     *)
runtime_realloc(p, size, g) ==
  LET old == heap_usable_size(GrantAt(p))
      base == IF malloc_size >= old THEN malloc_size - old ELSE 0
  IN
  /\ p \in js
  /\ size # 0
  /\ base <= malloc_limit
  /\ size <= malloc_limit - base
  /\ heap_reallocate(p, size, g)
  /\ malloc_size' = base + heap_usable_size(g)
  /\ js' = (js \ {p}) \cup {g.ptr}
  /\ UNCHANGED <<malloc_count, malloc_limit>>

(***************************************************************************)
(* js_runtime_start sets the limit on a runtime that JS_NewRuntime2 made   *)
(* without one; what that one took by then is well below the limit.        *)
(***************************************************************************)
SetMemoryLimit ==
  /\ malloc_limit = SizeMax
  /\ malloc_size <= JsLimit
  /\ malloc_limit' = JsLimit
  /\ UNCHANGED <<grants, store, js, malloc_count, malloc_size>>

(* malloc, realloc and free of libc.c, for the rest of the kernel; calloc  *)
(* differs from malloc in the contents only.                               *)
Others == {g.ptr : g \in grants} \ js

malloc(size, g) == heap_allocate(size, g) /\ UNCHANGED <<js, state>>

free(p) == p \in Others /\ heap_release(p) /\ UNCHANGED <<js, state>>

realloc(p, size, g) ==
  p \in Others /\ heap_reallocate(p, size, g) /\ UNCHANGED <<js, state>>

NextMemory ==
  \/ SetMemoryLimit
  \/ \E size \in Requests : \E g \in Heap!GrantFor(UnitsFor(size)) :
       \/ runtime_malloc(size, g)
       \/ malloc(size, g)
       \/ \E p \in Heap!Units : runtime_realloc(p, size, g) \/ realloc(p, size, g)
  \/ \E p \in Heap!Units : runtime_free(p) \/ free(p)

MemorySpec == InitMemory /\ [][NextMemory]_memory

-----------------------------------------------------------------------------

(***************************************************************************)
(* malloc_size is exactly the usable size of what QuickJS holds, all of it *)
(* blocks in use, and malloc_count their number, across blocks that move,  *)
(* shrink without being split or are larger than asked for: the clamped    *)
(* subtractions of runtime_free and runtime_realloc are never taken.       *)
(***************************************************************************)
AccountsExact ==
  /\ js \subseteq {g.ptr : g \in grants}
  /\ malloc_count = Cardinality(js)
  /\ malloc_size = MapThenSumSet(heap_usable_size, {g \in grants : g.ptr \in js})

(* What one call can take beyond the limit: the padding of its request and *)
(* the rest that was too small to be split off.                            *)
Overshoot == Alignment - 1 + Slack * Alignment

(***************************************************************************)
(* With the limit set, QuickJS holds at most the limit and the overshoot   *)
(* of one call: the limit is compared with the size asked for, the usable  *)
(* size is what gets charged, and overshoots do not add up.                *)
(***************************************************************************)
LimitHolds == malloc_limit = JsLimit => malloc_size <= JsLimit + Overshoot
=============================================================================
