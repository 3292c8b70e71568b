\* A user connects again while DisConnect of the last session runs.
SPECIFICATION Spec
CONSTANTS
    Sessions = {s1, s2, s3}
    Users = {u1, u2}
    Servers = {a, b}
    Rooms = {r1}
    ZeroRooms = {}
    MaxRetries = 0
    Nil = Nil
SYMMETRY Symmetry
INVARIANT LiveListed
CHECK_DEADLOCK FALSE
