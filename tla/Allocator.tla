------------------------------ MODULE Allocator ------------------------------
(***************************************************************************)
(* What heap.h promises its callers, with no block list, no header and no  *)
(* search order: the caller holds grants, each a run of units of the heap, *)
(* no two of which overlap; what it wrote in a grant stays there until it  *)
(* overwrites it or gives the grant back; a reallocation may move a grant  *)
(* but takes the contents along.                                           *)
(*                                                                         *)
(* Any request may fail (return NULL), which changes nothing: a failing    *)
(* call is a stuttering step here.  When a request must succeed is a       *)
(* property of the search, stated in module Heap (SearchSkipsNoFit).      *)
(***************************************************************************)
EXTENDS Integers

CONSTANTS
  HeapUnits, \* the size of the heap, in units of HEAP_ALIGNMENT bytes
  Slack,     \* how many units a grant may exceed its request by
  Values,    \* what a caller can store in a unit
  Zero,      \* the value heap_callocate stores
  Unknown    \* a unit whose contents the caller can't rely on

VARIABLES
  grants,    \* what the caller holds: [ptr, units, asked] records
  store      \* for each unit, what the caller may rely on finding there

vars == <<grants, store>>

Units == 0 .. (HeapUnits - 1)

(* The runs of units a request for n units can be given. *)
GrantFor(n) == [ptr : Units, units : n .. (n + Slack), asked : {n}]

Grant == UNION {GrantFor(n) : n \in 1 .. HeapUnits}

(* The units of a grant. *)
Extent(g) == g.ptr .. (g.ptr + g.units - 1)

(* g lies in the heap and overlaps none of the grants in others. *)
Fits(g, others) ==
  /\ Extent(g) \subseteq Units
  /\ \A o \in others : Extent(g) \cap Extent(o) = {}

Init ==
  /\ grants = {}
  /\ store = [u \in Units |-> Unknown]

(* heap_allocate: a fresh grant with arbitrary contents. *)
Allocate(g) ==
  /\ Fits(g, grants)
  /\ grants' = grants \cup {g}
  /\ store' = store

(* heap_callocate: a fresh grant whose first `zeroed` units hold Zero. *)
Callocate(g) ==
  \E zeroed \in (g.asked - 1) .. g.asked :
    /\ Fits(g, grants)
    /\ grants' = grants \cup {g}
    /\ store' = [u \in Units |->
                   IF u \in g.ptr .. (g.ptr + zeroed - 1) THEN Zero ELSE store[u]]

(* heap_release: the grant is gone, and so is what it held. *)
Release(g) ==
  /\ grants' = grants \ {g}
  /\ store' = [u \in Units |-> IF u \in Extent(g) THEN Unknown ELSE store[u]]

(***************************************************************************)
(* heap_reallocate: g becomes n, wherever that is, and the units common to *)
(* both keep their contents, relative to the pointer.                      *)
(***************************************************************************)
Reallocate(g, n) ==
  /\ Fits(n, grants \ {g})
  /\ grants' = (grants \ {g}) \cup {n}
  /\ store' = [u \in Units |->
                 IF u \in Extent(n) /\ u - n.ptr < g.units THEN store[u - n.ptr + g.ptr]
                 ELSE IF u \in Extent(g) \cup Extent(n) THEN Unknown
                 ELSE store[u]]

(* The caller fills a grant with a value. *)
Write(g, v) ==
  /\ store' = [u \in Units |-> IF u \in Extent(g) THEN v ELSE store[u]]
  /\ UNCHANGED grants

Next ==
  \/ \E g \in Grant : Allocate(g) \/ Callocate(g)
  \/ \E g \in grants : Release(g)
  \/ \E g \in grants, n \in Grant : Reallocate(g, n)
  \/ \E g \in grants, v \in Values : Write(g, v)

Spec == Init /\ [][Next]_vars
==============================================================================
