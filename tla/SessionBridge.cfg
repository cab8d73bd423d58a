SPECIFICATION Spec
CHECK_DEADLOCK FALSE
CONSTANTS
    w1 = w1
    w2 = w2
    Windows = {w1, w2}
    Runtime = Runtime
    Nobody = Nobody
    MaxEvents = 3
    MaxMoves = 2
    ProbeEvents = 2
    FrameMayStall = FALSE
INVARIANTS
    NothingLostNorTwice
    OutputInOrder
