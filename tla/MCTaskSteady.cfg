\* The started process, all servers up: everything is delivered.
SPECIFICATION SteadySpec
CONSTANTS
    Servers = {a, b}
    Everyone = Everyone
    NoServer = NoServer
    PushChan = 2
    PushChanSize = 1
    MaxMsgs = 4
    MaxLost = 1
INVARIANT SameRooms
PROPERTY Delivered
CHECK_DEADLOCK FALSE
