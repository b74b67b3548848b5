SPECIFICATION FairSpec
CONSTANTS
    w1 = w1
    self = self
    s1 = s1
    Threads = {w1, self}
    Self = self
    NBuckets = 1
    Slots = {s1}
    NoSlot = NoSlot
    VerMod = 16
    FirstVer = 2
    Stops = TRUE
    MaxTime = 1
    MaxTasks = 1
    Asked = {1}
PROPERTIES
    StopReturns
CHECK_DEADLOCK FALSE
