SPECIFICATION FairSpec
CONSTANTS
    Callers = {c1}
    MaxRequests = 1
    ConsecutiveLimit = 2
    MinVolume = 3
    Interval = 1
    Cooldown = 1
    ProbeRefunds = {TRUE, FALSE}
    WindowBound = 3
    MaxTurns = 2
    MaxAttempts = 2
    MaxBlocks = 1
PROPERTIES HonestCounts
