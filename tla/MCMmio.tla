------------------------------- MODULE MCMmio -------------------------------
(***************************************************************************)
(* A small instance of Mmio for TLC: three levels of tables of two.  The   *)
(* firmware has mapped pages 0 and 1 by a large page and page 2 by a table *)
(* of its own; pages 4 to 7 by a larger one, to themselves or to other     *)
(* memory, or not at all.                                                  *)
(***************************************************************************)
EXTENDS Mmio, TLC

LargePage(n, pages, high) == [kind |-> "page", to |-> n, span |-> pages, high |-> high]

MCTrees ==
  {0 :> (0 :> ToTable(1) @@ 1 :> upper)
   @@ 1 :> (0 :> LargePage(0, 2, high) @@ 1 :> ToTable(2))
   @@ 2 :> (0 :> Page(2) @@ 1 :> Absent) :
     upper \in {Absent, LargePage(4, 4, FALSE), LargePage(0, 4, FALSE)}, high \in BOOLEAN}

(* Ranges within the eight pages of the tree, and one whose rounded end wraps. *)
MCCalls ==
  {c \in [physical : {0, 3, 5, 8, 11, 13, 30}, length : {0, 1, 2, 4, 6}] :
     c.physical + c.length <= 16 \/ c.physical = 30}
=============================================================================
