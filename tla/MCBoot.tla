------------------------------- MODULE MCBoot -------------------------------
(***************************************************************************)
(* A small instance of Boot for TLC.  With a Word of 64, a million of 4    *)
(* and frequencies of 4 to 13 the remainder of a second times a million    *)
(* fits, as it does in the build, while ticks times a million overflows.   *)
(***************************************************************************)
EXTENDS Boot

Cpu(maximum, eax, ebx, ecx, mhz) ==
  [maximum |-> maximum, eax |-> eax, ebx |-> ebx, ecx |-> ecx, mhz |-> mhz]

(* Each way to the frequency, one that rounds to zero, and one unknown. *)
MCCpus ==
  {Cpu(22, 2, 13, 2, 0), Cpu(21, 7, 2, 3, 0), Cpu(22, 2, 0, 5, 3), Cpu(22, 0, 1, 1, 0),
   Cpu(20, 1, 9, 1, 9)}
MCStarts == {0, 50}
MCEpochs == {14}
MCSleeps == {0, 1, 2, 7, 31, 33}
=============================================================================
