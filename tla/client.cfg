SPECIFICATION ClientSpec
CONSTANTS
    MaxRetry = 2
    Options <- MCOptions
INVARIANTS
    OneCompletion
    PooledIsIdle
    RightAnswer
    RendezvousOnce
    FailLimitDecides
    WindowExact
PROPERTIES
    RpcEnds
    StopsAtLimit
    WritersGoOn
    CallsReturn
CHECK_DEADLOCK FALSE
