SPECIFICATION TaskSpec
CONSTANTS
    MaxOpened = 1
    MaxTasks = 1
    MaxPerRequest = 1
    MaxBatch = 2
    MaxDeliveries = 1
    Commands = {}
    MaxTopicEvents = 1
    MaxSent = 0
    MaxOrders = 1
    MaxClaims = 1
    MaxCrashes = 1
    MaxTogether = 3
CHECK_DEADLOCK FALSE
INVARIANTS
    EndedRunIsReported
