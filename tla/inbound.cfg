SPECIFICATION Spec
CONSTANTS
    Targets <- MCTargets
    BriefClients <- MCBriefClients
    StaffingReadings <- MCStaffing
    StuckReadings <- MCStuck
    Services <- MCServices
    LogLimit = 2
    LogStores <- MCLogStores
    Totals = {0, 100}
    Errors = {0, 1, 5}
    Latencies = {0, 999, 1000, 3000, NaN}
    NaN = NaN
    WorkUnitLists <- MCWorkUnitLists
    TaskLists <- MCTaskLists
    Deployments <- MCDeployments
    Requests <- MCRequests
    Now = 5
    ReportWindow = 2
    Distances = {60, 61}
INVARIANTS
    PathsTrue
    ExceptionsRanked
    SignalsTrue
    LifecycleTrue
    RepliesTrue
PROPERTIES
    BriefDegrades
    SignalsDegrade
