---------------------------- MODULE MCUmtxRwlock ----------------------------
(* UmtxRwlock on a few interchangeable threads.                            *)
EXTENDS UmtxRwlock, TLC

Symmetry == Permutations(Threads)
=============================================================================
