SPECIFICATION Spec
CONSTANTS
    Server = {m1, m2}
    Home = m1
    MaxLogins = 1
    MaxVersion = 2
    MaxLosses = 0
    MaxQueue = 3
INVARIANTS   CharKnowsPlayer
CHECK_DEADLOCK FALSE
