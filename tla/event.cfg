SPECIFICATION Spec
CONSTANTS
    Fibers = {fiber}
    Pthreads = {pthread}
    Wakers = {waker}
    Interrupters = {interrupter}
    Events = {e1, e2}
    NoEvent = none
    Wild = wild
    Ops = {"timed", "wake", "wake_all", "wake_except", "requeue"}
    MaxWaits = 2
    MaxWakes = 2
    MaxInterrupts = 2
SYMMETRY Symmetry
INVARIANTS
    WaitersLive
    ResumedOnce
    NothingLost
CHECK_DEADLOCK FALSE
