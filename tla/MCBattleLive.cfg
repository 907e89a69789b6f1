SPECIFICATION FairBattleSpec
CONSTANTS
    Char = {c1, c2}
    Arena = {a1}
    Home = a1
    BlueSize = 1
    RedSize = 1
    TeamSize <- MCTeamSize
    MaxMatch = 1
    MaxSleeps = 2
    Prompt = FALSE
    SqlFailures = {"save"}
    StartDelay = 0
    CheckDelay = 4
    BeginDelay = 1
    MatchDelay = 1
    WinDelay = 3
    DrawDelay = 1
    StopDelay = 0
    OutDelay = 3
    CancelDelay = 1
    ResetDelay = 1
PROPERTIES ArenaIsFreed FightersAreReleased
