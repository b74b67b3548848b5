SPECIFICATION Spec
CONSTANTS
    w1 = w1
    w2 = w2
    self = self
    s1 = s1
    s2 = s2
    Threads = {w1, w2, self}
    Self = self
    NBuckets = 2
    Slots = {s1, s2}
    NoSlot = NoSlot
    VerMod = 16
    FirstVer = 14
    Stops = TRUE
    MaxTime = 2
    MaxTasks = 2
    Asked = {1, 2}
SYMMETRY Symmetry
INVARIANTS
    NoOversleep
    TasksAccountedFor
PROPERTIES
    RunsEarliest
CHECK_DEADLOCK FALSE
