SPECIFICATION ChainSpec
CONSTANTS
    FlowLiveAge = 300
    GexLiveAge = 3600
    ShortWindow = 1
    LongWindow = 2
    NearBound = 1
    MaxEntries = 3
    AgeBound = 3
    Prices <- MCPrices
    Structures <- MCStructures
    Flows <- MCFlows
    Tapes <- MCTapes
INVARIANTS
    TypeOK
    HomeObeysFlow
    ReadyIsGrounded
    ExecutableIsConfirmed
    TrapHoldsBack
    WallsBracketSpot
    DarkpoolLevelIsTraded
