SPECIFICATION GrantSpec
CONSTANTS
    a1 = a1  r1 = r1  r2 = r2  w1 = w1  w2 = w2
    Agents <- MCAgents
    Roles <- MCRoles
    Writers <- MCWriters
    Statements <- MCStatements
    MaxRows = 3  MaxEpoch = 3
SYMMETRY WriterSymmetry
CHECK_DEADLOCK FALSE
INVARIANTS AllowedAsWritten DeniedOnlyAfterRearm ShownWhenAllowed
