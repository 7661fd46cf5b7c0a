SPECIFICATION FairSpec
CONSTANTS
    Callers = {c1}
    MaxRequests = 1
    ConsecutiveLimit = 2
    MinVolume = 3
    Interval = 1
    Cooldown = 1
    ProbeRefunds = {TRUE}
    WindowBound = 3
    MaxTurns = 6
    MaxAttempts = 3
    MaxBlocks = 2
PROPERTIES ReasonEnds
