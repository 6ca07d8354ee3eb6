SPECIFICATION FairSpec
CONSTANTS
    Client = {}
    Job = job
    Poller = {poller}
    Price = {10, 13}
    Window = {1, 2}
    TrendMin = 2
    MaxPrices = 1
    SeedTo = 1
    MaxPremiums = 2
    SendFrom = 1
    SendUntil = 3
    MaxTime = 3
    MaxVersion = 2
    Spot <- MCSpot
PROPERTY SnapshotArrives
CHECK_DEADLOCK FALSE
