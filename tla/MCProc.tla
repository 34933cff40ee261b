------------------------------- MODULE MCProc -------------------------------
(* Instances of Proc for TLC. *)
EXTENDS Proc, TLC

\* CPUs are interchangeable: a step mentions them only through equality.
CpuSymmetry == Permutations(CPU)
=============================================================================
