SPECIFICATION FairSpec
CONSTANTS
    Workers = {w1, w2}
    Initial = {w1}
    Producers = {p1}
    NLots = 1
    RqCap = 1
    RemoteCap = 1
    MinConcurrency = TRUE
    Stops = TRUE
    MaxTasks = 3
    MaxTurns = 0
    NoWorker = none
PROPERTIES
    FibersRun
    StopEnds
CHECK_DEADLOCK FALSE
