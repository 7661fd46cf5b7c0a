SPECIFICATION Spec
CONSTANTS
    Callers = {c1, c2, c3}
    MaxRequests = 1
    ConsecutiveLimit = 5
    MinVolume = 10
    Interval = 2
    Cooldown = 2
    ProbeRefunds = {TRUE, FALSE}
    WindowBound = 11
SYMMETRY CallerSymmetry
INVARIANTS TypeOK GaugeBoundsLoad
PROPERTIES ShedsWhileOpen ProbeDecides TripsOnFreshFailures
