SPECIFICATION SerialSpec
CONSTANTS
    Channels = {c1, c2, c3, c4}
    Pushers = {p1}
    Nil = Nil
SYMMETRY Symmetry
INVARIANTS EveryMemberPushed ListExact OnlineCountExact EmptyRoomDropped
CHECK_DEADLOCK FALSE
