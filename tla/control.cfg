SPECIFICATION PartsSpec
CONSTANTS
    t1 = t1
    ControlActs = {"status", "request"}
    MaxGen = 4
    MaxFaults = 1
    MaxInputs = 1
    MaxCrashes = 2
CHECK_DEADLOCK FALSE
INVARIANTS
    StoppedMeansStopped
    OneAgentActs
    HumanActsAlone
PROPERTIES
    GenerationsAreFresh
    TakeoverIsAnswered
    QueueIsServed
    StreamEnds
