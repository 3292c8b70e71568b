------------------------------- MODULE MCRoom -------------------------------
(* Room on a small instance: model values for the connections, interchangeable. *)
EXTENDS Room, TLC

Symmetry == Permutations(Channels)
=============================================================================
