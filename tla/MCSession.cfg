\* Three requests, two of which may overlap; any endpoint; a connection that ages or a call that is lost.
SPECIFICATION Spec
CONSTANTS
    Requests = {h1, h2, h3}
    Names = {u1, u2}
    Kinds = {"register", "login", "checkAuth", "logout", "push", "pushRoom", "count", "roomInfo"}
    Concurrent = {"register", "login", "logout", "push"}
    MaxOverlaps = 1
    MaxOverlapping = 3
    MaxFaults = 1
    Nil = Nil
    Queued = Queued
SYMMETRY Symmetry
INVARIANTS TypeOK LogoutHolds SenderKnown OneSession LoginHolds
CHECK_DEADLOCK FALSE
