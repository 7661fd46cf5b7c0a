SPECIFICATION FairSpec
CONSTANTS
    Callers = {c1, c2}
    MaxRequests = 1
    ConsecutiveLimit = 2
    MinVolume = 3
    Interval = 2
    Cooldown = 2
    ProbeRefunds = {TRUE}
    WindowBound = 3
PROPERTIES Recovers
