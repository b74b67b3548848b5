SPECIFICATION HandlesSpec
CONSTANTS
    Threads = {t1, t2, t3}
    Checkers = {c1}
    Map = map
    Uses <- MCUses
    MaxOps = 5
    MaxLives = 2
    Users = {t1, t2, t3}
    MaxRange = 2
    VerMod = 12
    FirstVersion = 11
    Codes = {"e"}
    Ops = {"lock", "reset_range", "trylock", "error", "join", "cancel", "about_to_destroy", "unlock_after_about_to_destroy", "interrupt"}
    MaxTokenOps = 1
    MaxTokens = 2
SYMMETRY Symmetry
INVARIANTS
    HoldersSafe
    RefsExact
    IdsCurrent
    MutualExclusion
    ErrorsInOrder
    RunnableOnce
    InterruptKept
PROPERTIES
    ResetAlone
CHECK_DEADLOCK FALSE
