SPECIFICATION HistorySpec
CONSTANTS
    Agents = {"x"}
    GoesOn = FALSE
    MaxMessages = 2
    MaxRows = 4
    MaxDeletes = 1
    MaxStops = 0
CHECK_DEADLOCK FALSE
INVARIANTS
    DeletedStaysOut
