SPECIFICATION LiveSpec
CONSTANTS
    N = 4
    Wired <- MCWired
    HTTPTimeout = 2
INVARIANTS
    TypeOK
    PanelsTrue
    LatencyBounded
PROPERTIES
    DashboardReturns
    DashboardDegrades
