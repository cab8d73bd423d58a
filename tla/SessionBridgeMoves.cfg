SPECIFICATION Spec
CHECK_DEADLOCK FALSE
CONSTANTS
    w1 = w1
    w2 = w2
    Windows = {w1}
    Runtime = Runtime
    Nobody = Nobody
    MaxEvents = 4
    MaxMoves = 2
    ProbeEvents = 1
    FrameMayStall = TRUE
INVARIANTS
    MovesKeepAnOrder
