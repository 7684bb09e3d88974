SPECIFICATION Spec
CONSTANTS
    t1 = t1
    Threads <- OneThread
    Automations <- NoAutomations
    Commands <- Everything
    MaxRequests = 2
    MaxCrashes = 1
CHECK_DEADLOCK FALSE
INVARIANTS
    StartupCanCommit
