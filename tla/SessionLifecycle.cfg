SPECIFICATION FairSpec
CONSTANTS
    c1 = c1  c2 = c2  c3 = c3
    Conns <- MCTwoConns
    RunAs = {}
    Policy = "supersede"
    MaxAttempts = 1  MaxFaults = 1
CHECK_DEADLOCK FALSE
INVARIANTS OneLiveSessionPerAgent SupersededHasSuccessor DeniedOnlyWhileKilling
PROPERTY ConnectAnswers
