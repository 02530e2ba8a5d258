----------------------------- MODULE MCJsMemory -----------------------------
(* A small instance of JsMemory for TLC. *)
EXTENDS JsMemory

MCRequests == {0, 1, 3, 6, 31}
=============================================================================
