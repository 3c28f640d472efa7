-------------------------- MODULE MCContentTransfer -------------------------
(* Instance of ContentTransfer for TLC. *)
EXTENDS ContentTransfer, TLC

Symmetry == Permutations(Plans) \cup Permutations(Groups) \cup Permutations(Transfers)

=============================================================================
