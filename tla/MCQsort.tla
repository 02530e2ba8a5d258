------------------------------ MODULE MCQsort ------------------------------
(* A small instance of Qsort for TLC. *)
EXTENDS Qsort

MCValues == 0 .. 2
=============================================================================
