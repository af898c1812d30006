---------------------------- MODULE MCKernelSema ----------------------------
(* KernelSema on a small set of interchangeable threads.                   *)
EXTENDS KernelSema, TLC

Symmetry == Permutations(Threads)
=============================================================================
