SPECIFICATION Spec
CHECK_DEADLOCK FALSE
CONSTANTS
    MaxIds = 2
    ByteLimit = 2
    CommandLimit = 1
    Sizes = {1}
    MaxStarts = 1
    MaxPayloads = 2
    MaxFaults = 1
INVARIANTS
    RunningGapsShown
    RecordedWithoutHole
    ShownIsRunning
