----------------------------- MODULE MCChatRoom -----------------------------
(* Instance of ChatRoom for TLC. *)
EXTENDS ChatRoom, TLC

Symmetry == Permutations(Users) \cup Permutations(Messages) \cup Permutations(Sessions)
=============================================================================
