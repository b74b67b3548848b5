SPECIFICATION SchedulerSpec
CONSTANTS
    Workers = {w1, w2}
    Initial = {w1}
    Producers = {p1}
    NLots = 2
    RqCap = 1
    RemoteCap = 1
    MinConcurrency = TRUE
    Stops = FALSE
    MaxTasks = 3
    MaxTurns = 1
    NoWorker = none
PROPERTIES
    NothingStranded
CHECK_DEADLOCK FALSE
