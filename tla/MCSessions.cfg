SPECIFICATION FairSpec
CONSTANTS
    Server = {m1}
    Home = m1
    MaxLogins = 2
    MaxVersion = 1
    MaxLosses = 1
    MaxQueue = 2
INVARIANTS SessionTypeOK NoRollback AckedIsSaved
PROPERTIES LeaverIsSaved PendingEnds
CHECK_DEADLOCK FALSE
