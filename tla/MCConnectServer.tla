--------------------------- MODULE MCConnectServer ---------------------------
(***************************************************************************)
(* ConnectServer with bytes of four values: an int16 counts to 7, so a     *)
(* message of 3 bytes is the longest that fits, one of 4 has a negative    *)
(* length, and of one of 16 the length starts again at that of the header. *)
(***************************************************************************)
EXTENDS ConnectServer

Message(bytesOf, kind, room) == [size |-> bytesOf, kind |-> kind, room |-> room]

MCMessages ==
    {Message(1, "build", "r1"), Message(1, "build", "r2"),
     Message(1, "badJson", NoRoom), Message(1, "noToken", NoRoom),
     Message(2, "roomSend", NoRoom), Message(4, "roomSend", NoRoom), Message(16, "roomSend", NoRoom)}
=============================================================================
