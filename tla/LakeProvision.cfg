SPECIFICATION Spec
CONSTANTS
    r1 = r1  r2 = r2  r3 = r3  o1 = o1  o2 = o2
    Requests <- MCRequests
    Orgs <- MCOrgs
    Memory = memory
    Names = {memory}
    None = None
    MaxFaults = 1
SYMMETRY Symmetric
CHECK_DEADLOCK FALSE
INVARIANTS DsnMatchesRole OwnGateway KeyOpensFile
