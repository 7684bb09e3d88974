SPECIFICATION FeedSpec
CONSTANTS
    Rows = {"thread"}
    Files = {"group"}
    Requests = {"q1"}
    Target <- OneTarget
    Keep = 0
    Batch = 1
    MaxEvents = 2
    MaxBreaks = 1
    MaxSeq = 2
    MaxWork = 3
    Page = 1
    Triggers <- ThreeCalendars
    Events = {}
    Late = 1
    Window = 2
    QueueLimit = 2
    RateLimit = 2
    Horizon = 4
    MaxEdits = 1
    MaxOthers = 1
    MaxAsked = 1
    MaxStops = 1
    MaxOpened = 2
    MaxTasks = 2
    MaxPerRequest = 1
    MaxBatch = 2
    MaxDeliveries = 1
    Commands = {}
    MaxTopicEvents = 2
    MaxSent = 0
    MaxOrders = 2
    MaxClaims = 1
    MaxCrashes = 0
    MaxTogether = 4
CHECK_DEADLOCK FALSE
INVARIANTS
    NothingMissed
    LiveHasNoGap
    TimesAccounted
    EventsRunOnce
    InputsReadOnce
PROPERTIES
    ClientCatchesUp
    DueInstantIsServed
    RouterHears
