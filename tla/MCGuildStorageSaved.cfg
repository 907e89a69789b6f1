SPECIFICATION Spec
CONSTANTS
    Member = {p1, p2}
    Owned = 1
    Stored = 1
    Slots = 2
    MaxLosses = 0
    MaxQueue = 2
INVARIANT CleanIsStored
CHECK_DEADLOCK FALSE
