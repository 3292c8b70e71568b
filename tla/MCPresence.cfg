\* One session per user at a time, connect servers dying, one call repeated.
SPECIFICATION OneSessionSpec
CONSTANTS
    Sessions = {s1, s2, s3}
    Users = {u1, u2}
    Servers = {a, b}
    Rooms = {r1, r0}
    ZeroRooms = {r0}
    MaxRetries = 1
    Nil = Nil
SYMMETRY Symmetry
INVARIANTS LiveListed LiveRouted CountExact
CHECK_DEADLOCK FALSE
