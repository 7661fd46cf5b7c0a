SPECIFICATION Spec
CONSTANTS
    Callers = {c1, c2}
    MaxRequests = 1
    ConsecutiveLimit = 2
    MinVolume = 3
    Interval = 1
    Cooldown = 1
    ProbeRefunds = {TRUE, FALSE}
    WindowBound = 3
    MaxTurns = 2
    MaxAttempts = 2
    MaxBlocks = 1
SYMMETRY CallerSymmetry
INVARIANTS TypeOK RequestsBounded EveryExitReports OpenLoadBounded
PROPERTIES CancelBlamesNobody BreakerRefined
