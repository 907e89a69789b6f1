SPECIFICATION FairSpec
CONSTANTS
    Member = {p1, p2}
    Owned = 1
    Stored = 1
    Slots = 2
    MaxLosses = 1
    MaxQueue = 2
INVARIANTS StorageTypeOK 
PROPERTIES LoadKeepsItems LogoutEnds 
CHECK_DEADLOCK FALSE
