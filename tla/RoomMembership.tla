--------------------------- MODULE RoomMembership ---------------------------
(***************************************************************************)
(* What a Room promises its callers, without the list, the lock and the    *)
(* counter: a connection joins, is refused, or leaves; a room refuses only *)
(* when it has had members and has none left, and a room that has refused  *)
(* somebody never takes anybody in again (its bucket may throw it away).   *)
(***************************************************************************)
CONSTANT Channels
VARIABLE status

Present == {c \in Channels : status[c] = "in"}
Closed  == \E c \in Channels : status[c] = "refused"

Init == status = [c \in Channels |-> "out"]

Join(c) ==
    /\ status[c] = "out"
    /\ ~Closed
    /\ status' = [status EXCEPT ![c] = "in"]

Refuse(c) ==
    /\ status[c] = "out"
    /\ Present = {}
    /\ \E d \in Channels : status[d] = "left"
    /\ status' = [status EXCEPT ![c] = "refused"]

Leave(c) ==
    /\ status[c] = "in"
    /\ status' = [status EXCEPT ![c] = "left"]

Next == \E c \in Channels : Join(c) \/ Refuse(c) \/ Leave(c)

Spec == Init /\ [][Next]_status
=============================================================================
