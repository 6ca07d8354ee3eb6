SPECIFICATION FairSpec
CONSTANTS
    flow = flow
    volume = volume
    Endpoint = {flow, volume}
    MinimalEndpoints = {flow}
    IntervalTable <- MCIntervalTable
    TurboInterval <- MCTurboInterval
    TurboHold = 1
    BackoffBase = 1
    BackoffMax = 2
    QuotaReports <- MCQuotaReports
    MaxConcurrentRuns = 2
INVARIANTS
    SchedulerInv
PROPERTIES
    DropsOutOnlyWhenSkipped
    KeepsPolling
    ClosedMarketDrains
