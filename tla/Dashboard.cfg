SPECIFICATION Spec
CONSTANTS
    GexThreshold = 3
    TvStale = 1
    ThetaStale = 1
    FirstLeft = 5
    Default <- MCDefault
    Demos <- MCDemos
    TvEvents <- MCTvEvents
    Chains <- MCChains
    Feeds <- MCFeeds
INVARIANTS
    ReadyNeedsFreshTheta
    NoPlanNearEvents
    ScenarioNeverTrades
    LivePlansAreShort
    UnblockedIsGrounded
    NothingIsAuthorised
