SPECIFICATION PartsSpec
CONSTANTS
    Members <- ThreeMembers
    Groups <- SixGroups
    Turns = {"x", "y"}
    AcpTurns = {"x"}
    MaxGen = 2
    MaxLeases = 0
    MaxCrashes = 0
CHECK_DEADLOCK FALSE
INVARIANTS
    HelperRunsOnce
    MentionsAreAnswered
    OneTurnActs
PROPERTIES
    KeepsTurnPromise
    LimitsKept
    BegunTurnEnds
    SweepSparesWork
