------------------------------- MODULE MCHeap -------------------------------
(* Small instances of Heap for TLC. *)
EXTENDS Heap

(* Bytes: less than a unit, one unit, a unit and a bit, more than one      *)
(* block can spare, and a size that align_up cannot round up.              *)
MCRequests == {0, 1, 4, 5, 31}

MCCounts == {0, 3, 7}
=============================================================================
