SPECIFICATION Spec
SYMMETRY Symmetry
CHECK_DEADLOCK FALSE
CONSTANTS
    d1 = d1
    d2 = d2
    a = a
    b = b
    Devices = {d1, d2}
    Values = {a, b}
    None = None
    MaxEdits = 1
    MaxPrepares = 3
    MaxFaults = 1
INVARIANTS
    NoFork
    DamageIsRepairable
    EditKept
    CaptureIsEdits
    Converged
PROPERTIES
    ReplacedWhenSuperseded
