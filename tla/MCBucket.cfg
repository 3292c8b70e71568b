\* Three connections of three users, racing registrations and cleanups.
SPECIFICATION Spec
CONSTANTS
    Conns = {c1, c2, c3}
    Users = {u1, u2, u3}
    RoomIds = {r1, r2}
    NoRoom = NoRoom
    Objs = {o1, o2}
    Nil = Nil
SYMMETRY Symmetry
INVARIANTS TypeOK NoStranger UserIndex NoPanic Listed Forgotten RoomsInUse
CHECK_DEADLOCK FALSE
