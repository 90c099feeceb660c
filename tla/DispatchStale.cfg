SPECIFICATION Spec
CONSTANTS
    d1 = d1  d2 = d2
    Drains <- MCDrains
    OwnGateway = TRUE
    MaxAttempts = 2  MaxEdits = 2  MaxConfigs = 1  MaxRevokes = 0  MaxCrashes = 0
SYMMETRY DrainSymmetry
CHECK_DEADLOCK FALSE
INVARIANT DeliveredMeansCurrent
