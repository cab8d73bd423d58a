SPECIFICATION Spec
CHECK_DEADLOCK FALSE
CONSTANT
    Payload = 3
INVARIANTS
    OldFilesKept
    StartsWhole
