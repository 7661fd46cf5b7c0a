SPECIFICATION LiveSpec
CONSTANTS
    Environments <- MCEnvironments
    Upstreams <- MCUpstreams
    Published <- MCPublished
    DefaultAllowList <- MCAllowList
    DefaultTargets <- MCTargets
    DefaultServices <- MCServices
    DefaultTimeout = 2
    SessionTimeout = 2
    DiscoverBudget = 3
    DrainBudget = 2
    FlushBudget = 1
    MaxRequests = 2
INVARIANTS
    OfferTrue
    ModeHonest
    ConfigUsable
    CleanExit
PROPERTY
    MovesOn
