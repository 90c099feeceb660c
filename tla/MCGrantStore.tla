---------------------------- MODULE MCGrantStore ----------------------------
EXTENDS GrantStore, TLC
CONSTANTS a1, r1, r2, w1, w2
MCAgents == {a1}
MCRoles == {r1, r2}
MCWriters == {w1, w2}
On(verb, to) == [verb |-> verb, role |-> NoRole, to |-> to]
Member(role, to) == [verb |-> "GRANT", role |-> role, to |-> to]
MCStatements ==
    {On("GRANT", r1), On("DENY", r1), Member(r1, a1), Member(r1, r2), Member(r2, a1)}
WriterSymmetry == Permutations(MCWriters)
=============================================================================
