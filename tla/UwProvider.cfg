SPECIFICATION Spec
CONSTANTS
    spot = spot
    flow = flow
    c1 = c1
    c2 = c2
    Endpoint = {spot, flow}
    CoreEndpoint = {spot}
    SpotGex = spot
    Ttl <- MCTtl
    StaleAfter = 1
    Caller = {c1, c2}
    MaxTime = 4
INVARIANTS
    ProviderInv
    LiveDataIsRecent
PROPERTIES
    UndisturbedCallAdvances
SYMMETRY Symmetry
