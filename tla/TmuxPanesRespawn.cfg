SPECIFICATION Spec
CONSTANTS
    Panes = {p1, p2}
    Windows = {w1, w2}
    host = host
    NoPane = NoPane
    MaxMoves = 0
    MaxWire = 2
    MaxStates = 2
SYMMETRY Symmetry
INVARIANTS
    ProjectedPanesLive
CHECK_DEADLOCK FALSE
