----------------------------- MODULE MCOrgPlan -----------------------------
(* A founder and one other, three requests: two that race and one before or *)
(* after them.                                                              *)
EXTENDS OrgPlan, TLC

CONSTANTS u1, u2, r1, r2, r3

MCUsers == {u1, u2}
MCRequests == {r1, r2, r3}
Interchangeable == Permutations(MCRequests)
=============================================================================
