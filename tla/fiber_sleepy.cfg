SPECIFICATION Spec
CONSTANTS
    Interrupters = {i1}
    Joiners = {j1}
    VerMod = 64
    MaxLives = 1
    MaxSleeps = 1
    MaxWaits = 1
    MaxInterrupts = 1
INVARIANTS
    SleepyOrWaiting
CHECK_DEADLOCK FALSE
