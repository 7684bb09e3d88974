SPECIFICATION ServiceSpec
CONSTANTS
    t1 = t1
    t2 = t2
    a1 = a1
    Threads <- TwoThreads
    Automations <- OneAutomation
    Commands <- Everything
    MaxRequests = 3
    MaxCrashes = 2
    Agents = {"x", "y"}
    GoesOn = FALSE
    MaxMessages = 3
    MaxRows = 5
    MaxDeletes = 0
    MaxStops = 1
CHECK_DEADLOCK FALSE
INVARIANTS
    OneWorkerPerThread
    OneOwnerPerThread
    NothingRunsBesideInterrupted
    AutomationSequential
    ContinuationKeepsThread
    OneTerminalEvent
    HistoryInOrder
    HistoryIsComplete
PROPERTIES
    QueuedWorkIsKept
    ImplementsService
