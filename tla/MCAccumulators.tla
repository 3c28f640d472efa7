--------------------------- MODULE MCAccumulators ---------------------------
(* Instance of Accumulators for TLC: the sessions are interchangeable. *)
EXTENDS Accumulators, TLC

Symmetry == Permutations(Sessions)
=============================================================================
