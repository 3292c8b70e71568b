----------------------------- MODULE MCBroadcast -----------------------------
(* Broadcast on a small instance: everybody is in one room, in the last bucket. *)
EXTENDS Broadcast

InLastBucket == [c \in Conns |-> NumBuckets]
InOneRoom    == [c \in Conns |-> CHOOSE r \in Rooms : TRUE]
=============================================================================
