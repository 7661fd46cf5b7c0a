SPECIFICATION Spec
CONSTANTS
    MaxProposedHeads = 50
    QueueDepthHigh = 50
    UtilizationLowPct = 60
    HighIdleSharePct = 40
    None = None
    Unasked = Unasked
    WesActions <- MCWesActions
    WesDepths <- MCWesDepths
    WfmReadings <- MCWfmReadings
    FeReadings <- MCFeReadings
    LpReadings <- MCLpReadings
    Plans <- MCPlans
INVARIANTS TypeOK TrailMatchesAnswers LeverJustified ModelConfined UntrustedActionStops
PROPERTIES AgreementHonest
