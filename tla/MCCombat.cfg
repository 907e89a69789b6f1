SPECIFICATION Spec
CONSTANTS
    Player = {p1, p2, p3}
    Blue = {p1}
    Window = 1
    MaxAssists = 1
    MaxTime = 3
    MaxHits = 3
INVARIANTS CombatTypeOK NobodyDiesTwice KillsAreEarned StatsMatchLog
PROPERTIES LatestHitKills
CHECK_DEADLOCK FALSE
SYMMETRY Symmetry
