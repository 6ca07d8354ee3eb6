SPECIFICATION FairSpec
CONSTANTS
    NoStore = NoStore
    RedisStore = RedisStore
    FileStore = FileStore
    Setups <- MCSetups
    Reader = {reader}
    MaxSnapshot = 2
    Attempts = 2
    MaxFaults = 2
INVARIANTS
    StoresInv
PROPERTIES
    OlderOnlyAfterOverlap
    RegisterSpec
    CallsAndPushesEnd
CHECK_DEADLOCK FALSE
