SPECIFICATION BattleSpec
CONSTANTS
    Char = {c1, c2, c3}
    Arena = {a1}
    Home = a1
    BlueSize = 2
    RedSize = 1
    TeamSize <- MCTeamSize
    MaxMatch = 1
    MaxSleeps = 2
    Prompt = TRUE
    SqlFailures = {}
    StartDelay = 1
    CheckDelay = 4
    BeginDelay = 2
    MatchDelay = 1
    WinDelay = 3
    DrawDelay = 1
    StopDelay = 0
    OutDelay = 3
    CancelDelay = 1
    ResetDelay = 1
INVARIANTS EliminationIsReal
SYMMETRY Symmetry
