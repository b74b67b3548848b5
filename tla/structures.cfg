SPECIFICATION StructuresSpec
CONSTANTS
    Submitters = {u1, u2}
    Runners = {c1, c2}
    Nodes = {n1, n2, n3}
    NULL = NULL
    UNCONNECTED = UNCONNECTED
    Kinds <- AllKinds
    EarlyReturn = TRUE
    MaxQueueLives = 2
    MaxSubmits = 3
    Fibers = {n1, n2, n3}
    MaxCalls = 4
    Readers = {u1, u2}
    Modifiers = {c1, c2}
    MaxModify = 3
    Capacity = 2
    Thieves = {u1, u2}
    MaxPush = 4
SYMMETRY Symmetry
INVARIANTS
    ConsumerAlone
    TasksInOrder
    QueueEmptied
    MutexSound
PROPERTIES
    DataSound
    IsADeque
CHECK_DEADLOCK FALSE
