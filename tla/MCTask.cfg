\* The task process from its start, servers coming and going, one reply lost.
SPECIFICATION Spec
CONSTANTS
    Servers = {a, b}
    Everyone = Everyone
    NoServer = NoServer
    PushChan = 2
    PushChanSize = 1
    MaxMsgs = 3
    MaxLost = 1
SYMMETRY Symmetry
INVARIANTS OneCopy RoomOrder
CHECK_DEADLOCK FALSE
