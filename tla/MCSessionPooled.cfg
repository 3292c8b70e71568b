\* As MCSession, for the login whose transaction is spread over the pool.
SPECIFICATION Spec
CONSTANTS
    Requests = {h1, h2, h3}
    Names = {u1, u2}
    Kinds = {"register", "login", "checkAuth", "logout", "push", "pushRoom", "count", "roomInfo"}
    Concurrent = {"register", "login", "logout", "push"}
    MaxOverlaps = 1
    MaxOverlapping = 3
    MaxFaults = 1
    Nil = Nil
    Queued = Queued
SYMMETRY Symmetry
INVARIANT TokenOpens
CHECK_DEADLOCK FALSE
