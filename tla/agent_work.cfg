SPECIFICATION WorkSpec
CONSTANTS
    h1 = h1
    h2 = h2
    Handlers <- TwoHandlers
    Plans <- FourPlans
    MaxCalls = 2
    MaxAnswers = 2
    MaxCrashes = 1
    KeptTurns = 3
    SqueezedTurns = 2
    Windows <- DeclaredWindow
    Inputs <- Short
    Results <- Sizes
    Screens = FALSE
    MaxTurns = 3
    MaxRounds = 2
    MaxLists = 2
CHECK_DEADLOCK FALSE
INVARIANTS
    RefusalHolds
    OneContinuation
    CallsKeepResults
    ChecklistIsCurrent
PROPERTIES
    KeepsPromise
    CancelledDispatchStartsNothing
    RejectionEnds
    AnswersAreUsed
