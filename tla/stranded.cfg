SPECIFICATION Spec
CONSTANTS
    TaskTypes <- MCTaskTypes
    AlienTypes <- MCAlienTypes
    Units <- MCUnits
    OwnSku <- MCOwnSku
    Reservations = {r1}
    Thresholds <- MCThresholds
    MaxUsable = 1
    None = None
INVARIANTS
    TypeOK
    RevokeGrounded
    StrandedIsSeen
    HoldExplained
