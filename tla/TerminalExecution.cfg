SPECIFICATION Spec
CHECK_DEADLOCK FALSE
CONSTANTS
    key1 = key1
    key2 = key2
    Keys = {key1, key2}
    Offers <- AllOffers
    NoKey = NoKey
    None = None
    MaxRetired = 1
    MaxRequests = 2
    MaxDisturbances = 1
INVARIANTS
    OneCommandInShell
    ExitIsReal
    GuardNotStuck
    OutputIsOwn
    OncePerKey
PROPERTIES
    EveryoneAnswered
