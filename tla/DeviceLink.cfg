SPECIFICATION LinkFairSpec
CONSTANTS
    l1 = l1
    l2 = l2
    c1 = c1
    c2 = c2
    p1 = p1
    p2 = p2
    Links <- MCLinks
    Claims <- MCClaims
    Polls <- MCPolls
    Name <- MCName
    NoClaim = NoClaim
    MaxPerWindow = 1
INVARIANTS
    KeyHandedOnce
    HandedPairMatches
    

    
CHECK_DEADLOCK FALSE
