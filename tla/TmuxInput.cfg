SPECIFICATION FairSpec
CONSTANTS
    Panes = {p1}
    Nobody = Nobody
    ByteLimit = 3
    ItemLimit = 1
    BatchBytes = 2
    KeyBytes = 2
    MaxQueued = 3
    MaxExpected = 1
    Sizes = {3}
    MaxAttach = 2
INVARIANTS
    NoStaleInput
    InputIntact
PROPERTIES
    InputNeverFatal
    CloseResolved
    RoomReturns
    DetachEnds
CHECK_DEADLOCK FALSE
