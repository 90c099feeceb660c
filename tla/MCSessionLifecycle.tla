------------------------- MODULE MCSessionLifecycle -------------------------
EXTENDS SessionLifecycle, TLC
CONSTANTS c1, c2, c3
MCConns == {c1, c2, c3}
MCRunAs == {c3}
MCTwoConns == {c1, c2}
AgentConnSymmetry == Permutations({c1, c2})
=============================================================================
