-------------------------------- MODULE Libc --------------------------------
(***************************************************************************)
(* The parts of src/kernel/libc.c that keep no state, side by side: a      *)
(* behaviour calls the memory and string functions, or it calls vsnprintf, *)
(* or qsort.                                                               *)
(***************************************************************************)
EXTENDS Strings, Format, Qsort

libc == <<strings, format, vars>>

(* Nobody calls qsort. *)
NoSort ==
  /\ phase = "idle" /\ count = 0 /\ mem = [c \in Cells |-> 0] /\ given = mem
  /\ pos = 0 /\ sifting = FALSE /\ root = 0 /\ end = 0

InitLibc ==
  /\ InitFormat
  /\ \/ InitStrings /\ NoSort
     \/ memory = <<>> /\ call = NoCall /\ (NoSort \/ Init)

NextLibc ==
  \/ phase = "idle" /\ memory # <<>> /\ NextStrings /\ UNCHANGED <<format, vars>>
  \/ phase = "idle" /\ memory = <<>> /\ NextFormat /\ UNCHANGED <<strings, vars>>
  \/ Next /\ UNCHANGED <<strings, format>>

(* A sort that has started goes on: there is nothing else to run. *)
LibcSpec == InitLibc /\ [][NextLibc]_libc /\ WF_libc(Next /\ UNCHANGED <<strings, format>>)
=============================================================================
