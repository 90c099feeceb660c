SPECIFICATION DrainFairSpec
CONSTANTS
    d1 = d1
    d2 = d2
    Drains <- MCDrains
    Owner = owner
    MaxNode = 2
    BadVector = {1}
    OwnerRuns = 1
    Cap = 2
    MaxRounds = 2
    BackstopWindow = 2
    MaxTime = 3
    MaxFailures = 1
INVARIANTS
    OnlyKnownLosses
    VectorsOnce
    EdgesFollowVectors
PROPERTIES
    NodesGetEmbedded
CHECK_DEADLOCK FALSE
