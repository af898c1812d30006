-------------------------- MODULE MCPthreadRwlock ---------------------------
(* PthreadRwlock on a few interchangeable threads and lock objects.        *)
EXTENDS PthreadRwlock, TLC

Symmetry == Permutations(Threads) \cup Permutations(Locks)
=============================================================================
