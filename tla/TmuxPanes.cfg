SPECIFICATION FairSpec
CONSTANTS
    Panes = {p1}
    Windows = {w1, w2}
    host = host
    NoPane = NoPane
    MaxMoves = 2
    MaxWire = 2
    MaxStates = 2
INVARIANTS
    PanesSilentAfterClose
    NoOrphanSessions
PROPERTIES
    DropsOnlyPanesThatLeft
    CloseEndsWorker
CHECK_DEADLOCK FALSE
