---------------------------- MODULE MCTierReset ----------------------------
EXTENDS TierEnvelope

MCAllotment == [p \in AllPlans |-> IF p = "free" THEN 1 ELSE 2]
=============================================================================
