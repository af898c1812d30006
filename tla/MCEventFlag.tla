---------------------------- MODULE MCEventFlag ----------------------------
(* EventFlag on a few interchangeable threads and bits.                    *)
EXTENDS EventFlag, TLC

\* Both ways to match and both ways to clear; a wait that keeps the bits is an
\* easier case of them.
Modes == {[match |-> "OR", clear |-> "pattern"], [match |-> "AND", clear |-> "all"]}

Symmetry == Permutations(Threads) \cup Permutations(Bits)
=============================================================================
