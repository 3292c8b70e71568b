\* A process of each module, and one connection of the TCP server.
SPECIFICATION FairSpec
CONSTANTS
    Byte = 4
    Messages <- MCMessages
    NoRoom = "none"
    MaxSent = 2
    MaxBytes = 20
    Addresses = {a1}
    Requests = {q1, q2}
INVARIANTS InStep LeavesRoom ServesReady
PROPERTIES ReaderEnds PacketHandled Findable
CHECK_DEADLOCK FALSE
