----------------------------- MODULE MCRuntime -----------------------------
(* A small instance of Runtime for TLC; its values are in the cfg. *)
EXTENDS Runtime
=============================================================================
