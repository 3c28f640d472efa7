-------------------------- MODULE MCEventReminder --------------------------
(* Instance of EventReminder for TLC. *)
EXTENDS EventReminder, TLC

\* Pollers, and editing handlers, are interchangeable where no fairness is assumed.
Symmetry == Permutations(Pollers) \cup Permutations(Updaters)
=============================================================================
