SPECIFICATION ContextSpec
CONSTANTS
    KeptTurns = 3
    SqueezedTurns = 2
    Windows = {20}
    Inputs = {1}
    Results <- SmallAndLarge
    Screens = TRUE
    MaxTurns = 2
    MaxRounds = 2
    MaxLists = 0
CHECK_DEADLOCK FALSE
INVARIANTS
    CallsKeepResults
