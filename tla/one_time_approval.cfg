SPECIFICATION Spec
CONSTANTS
    h1 = h1
    Handlers <- OneHandler
    Plans <- GatedPlans
    MaxCalls = 2
    MaxAnswers = 1
    MaxCrashes = 1
CHECK_DEADLOCK FALSE
INVARIANTS
    OneTimeApprovalIsOneCall
