SPECIFICATION SocketSpec
CONSTANTS
    Slots = {1, 2}
    MaxMessages = 4
    Writers = {w1, w2}
    Keepers = {f1}
    Other = other
    Conns = {w1, w2}
SYMMETRY Symmetry
INVARIANTS
    InputRead
    EofComesLast
    OneWriter
    WireInOrder
    UnwrittenExact
    ToldOnce
    ServerStops
CHECK_DEADLOCK FALSE
