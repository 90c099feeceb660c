SPECIFICATION FairSpec
CONSTANTS
    s1 = s1  w1 = w1  w2 = w2
    Sessions <- MCSessions
    Sweeps <- MCSweeps
    Rate <- MCRate
    Queries = {q1, q2}
    Packs = {p1}
    TTL = 1  Floor = 1  PackMicro = 3  MicroPerCent = 2  Batch = 1  Comped = FALSE
    MaxTime = 2  MaxFaults = 1
INVARIANTS MeterWithinDebit DriftOnlyAfterReclose DebitWithinTTL
PROPERTIES KeepsPromise DebtIsSettledAtZero OpenGetsBilled
