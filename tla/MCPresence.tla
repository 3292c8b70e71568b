----------------------------- MODULE MCPresence -----------------------------
(* Presence on a small instance. *)
EXTENDS Presence, TLC

Symmetry == Permutations(Sessions) \cup Permutations(Users) \cup Permutations(Servers)
=============================================================================
