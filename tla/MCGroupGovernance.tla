------------------------- MODULE MCGroupGovernance -------------------------
(* Instance of GroupGovernance for TLC. *)
EXTENDS GroupGovernance, TLC

\* No author is named by a constant when SuperAdmins is empty.
Symmetry == Permutations(Authors) \cup Permutations(Invites) \cup Permutations(Sessions)
=============================================================================
