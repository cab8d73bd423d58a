SPECIFICATION FairSpec
CHECK_DEADLOCK FALSE
CONSTANTS
    pane = pane
    local = local
    ssh = ssh
    reader = reader
    c1 = c1
    Sessions = {pane}
    LocalSessions = {}
    PaneSessions = {pane}
    Producers = {ssh, reader}
    AsyncProducers = {ssh}
    SessionsOf <- MCSharedSession
    Consumers = {c1}
    Anyone = Anyone
    Drainers = {c1}
    NoConsumer = NoConsumer
    NoProducer = NoProducer
    Limit = 4
    Low = 2
    EventLimit = 2
    CleanupLimit = 1
    OutputSizes = {3}
    MaxPushes = 1
    MaxOps = 2
    BatchSizes = {2}
    Budgets = {1}
PROPERTIES
    TurnReleased
