SPECIFICATION Spec
CONSTANTS
    Client = {client}
    Job = job
    Poller = {poller}
    Price = {10, 13}
    Window = {1}
    TrendMin = 2
    MaxPrices = 3
    SeedTo = 3
    MaxPremiums = 2
    SendFrom = 1
    SendUntil = 3
    MaxTime = 2
    MaxVersion = 2
    Spot <- MCSpot
INVARIANTS
    JobsInv
PROPERTIES
    SeedingKeepsTrends
CHECK_DEADLOCK FALSE
