SPECIFICATION MCSpec
CONSTANTS
    d1 = d1  d2 = d2
    Drains <- MCDrains
    OwnGateway = TRUE
    MaxAttempts = 2  MaxEdits = 2  MaxConfigs = 1  MaxRevokes = 3  MaxCrashes = 1
CHECK_DEADLOCK FALSE
INVARIANTS  RevokeDroppedOnlyWhenSent
PROPERTY PendingSettles
