\* Every interleaving of two connections and two broadcasts, under a fair scheduler.
SPECIFICATION FairSpec
CONSTANTS
    Channels = {c1, c2}
    Pushers = {p1, p2}
    Nil = Nil
INVARIANTS NoRepeatVisit CountCovers DropMeansEmpty DropReported
PROPERTIES Implements OperationsReturn
CHECK_DEADLOCK FALSE
