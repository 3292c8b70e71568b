\* One client that reads and two that do not; short queues and buffers; three connections, so
\* that a Room can lose members at once while one stays, and its entry while it has members.
SPECIFICATION FairSpec
CONSTANTS
    Conns = {c1, c2, c3}
    Rooms = {r1}
    None = None
    Bucket <- InLastBucket
    RoomOf <- InOneRoom
    Reading = {c1}
    NumBuckets = 2
    RoutineAmount = 1
    RoutineSize = 1
    BroadcastSize = 1
    MaxMsgs = 2
INVARIANTS Accounted RoutineOrder
PROPERTY Reaches
CHECK_DEADLOCK FALSE
