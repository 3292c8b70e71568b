------------------------------ MODULE MCBucket ------------------------------
(* Bucket on a small instance, whose values are all interchangeable. *)
EXTENDS Bucket, TLC

Symmetry == Permutations(Conns) \cup Permutations(Objs) \cup Permutations(Users)
              \cup Permutations(RoomIds)
=============================================================================
