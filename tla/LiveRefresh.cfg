SPECIFICATION FairLoopSpec
CONSTANTS
    flow = flow
    volume = volume
    gex = gex
    warmup = warmup
    Endpoint = {flow}
    MinimalEndpoints = {flow}
    UwEndpoint = {flow, gex}
    Ttl = 1
    PriceTriggers = {"none", "level"}
    Warmup = warmup
    IntervalTable <- MCIntervalTable
    TurboInterval <- MCTurboInterval
    TurboHold = 1
    BackoffBase = 1
    BackoffMax = 1
    QuotaReports <- MCQuotaReports
    MaxConcurrentRuns = 2
INVARIANTS
    LoopInv
PROPERTIES
    AllEndpointsAskedFor
