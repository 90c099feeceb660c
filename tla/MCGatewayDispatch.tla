-------------------------- MODULE MCGatewayDispatch --------------------------
EXTENDS GatewayDispatch, TLC
CONSTANTS d1, d2
MCDrains == {d1, d2}
DrainSymmetry == Permutations(MCDrains)

\* One behaviour is about edits of the configuration or about revocations, not both: the two
\* rows meet only in a drain's todo set.  Drains crash in the second kind.
OneKind ==
    \/ asked' = 0 /\ crashes' = 0
    \/ edits' = 0 /\ cfg' = 1 /\ sync' = 0

MCSpec ==
    /\ Init /\ [][Next /\ OneKind]_vars
    /\ \A r \in Rows : WF_vars(BackoffElapses(r))
    /\ \A d \in Drains : WF_vars(DrainStep(d))
=============================================================================
