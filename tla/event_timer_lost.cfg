SPECIFICATION FairSpec
CONSTANTS
    Fibers = {f1}
    Pthreads = {}
    Wakers = {k1}
    Interrupters = {}
    Events = {e1}
    NoEvent = NoEvent
    Wild = Wild
    Ops = {"timed", "wake_all"}
    MaxWaits = 1
    MaxWakes = 1
    MaxInterrupts = 0
PROPERTIES TimedWaitReturns
CHECK_DEADLOCK FALSE
