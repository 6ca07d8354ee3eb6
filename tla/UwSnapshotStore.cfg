SPECIFICATION FairSpec
CONSTANTS
    Op = {boot, o1, o2}
    BootOp = boot
    RedisReachable = TRUE
    MaxWrites = 4
    MaxCrashes = 1
INVARIANT
    StoreInv
PROPERTIES
    WarmWritesInOrder
    SchedulerStarts
