SPECIFICATION FairSpec
CONSTANTS
    w1 = w1
    w2 = w2
    Writes <- MCWrites
    MaxFaults = 1
    MaxKills = 1
INVARIANTS
    
    FinalFlushKeeps
PROPERTIES
    DurableStaysDurable
    
    ShutdownEnds
CHECK_DEADLOCK FALSE
