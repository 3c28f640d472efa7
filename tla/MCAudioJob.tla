----------------------------- MODULE MCAudioJob -----------------------------
(* Instance of AudioJob for TLC. *)
EXTENDS AudioJob, TLC

\* Jobs and workers are interchangeable where no fairness is assumed.
Symmetry == Permutations(Jobs) \cup Permutations(Workers)
=============================================================================
