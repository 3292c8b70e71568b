--------------------------- MODULE MCTaskDispatch ---------------------------
(* TaskDispatch on a small instance. *)
EXTENDS TaskDispatch, TLC

Symmetry == Permutations(Servers)
=============================================================================
