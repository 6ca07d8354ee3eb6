SPECIFICATION QueueSpec
CONSTANTS
    Poller = {a, b}
    PageSize = 2
    MaxAge = 2
    SeenTtl = 3
    MaxSize = 3
    MaxTime = 6
    MaxTrades = 4
    Nameless = {2}
INVARIANTS
    QueueInv
PROPERTIES
    YoungTradesKept
