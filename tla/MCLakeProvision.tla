--------------------------- MODULE MCLakeProvision ---------------------------
EXTENDS LakeProvision, TLC
CONSTANTS r1, r2, r3, o1, o2

MCRequests == {r1, r2, r3}
MCOrgs == {o1, o2}
\* Requests and organisations are interchangeable; no property is temporal.
Symmetric == Permutations(MCRequests) \cup Permutations(MCOrgs)
=============================================================================
