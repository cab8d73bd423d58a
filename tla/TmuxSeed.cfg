SPECIFICATION FairSpec
CONSTANTS
    MaxHeld = 2
    MaxExpected = 5
    Steady = TRUE
    OtherClient = TRUE
    MaxOutput = 3
    MaxPauses = 2
    MaxFaults = 1
    MaxAsks = 1
INVARIANTS
    BlocksMatchRequests
    NothingLost
PROPERTIES
    PaneRecoversAlone
CHECK_DEADLOCK FALSE
