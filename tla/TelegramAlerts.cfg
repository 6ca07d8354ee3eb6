SPECIFICATION FairSpec
CONSTANTS
    r1 = r1
    r2 = r2
    h1 = h1
    h2 = h2
    RefreshTask = {r1, r2}
    HookTask = {h1, h2}
    AbOrder <- MCAbOrder
    PlanView <- MCPlanView
    Window = 2
    MaxSignals = 2
INVARIANTS
    AlertsInv
    RepeatedOnlyWhenOvertaken
PROPERTIES
    HighSeverityAlwaysAnnounced
