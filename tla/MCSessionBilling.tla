-------------------------- MODULE MCSessionBilling --------------------------
EXTENDS SessionBilling
CONSTANTS s1, w1, w2

MCSessions == {s1}
MCSweeps == {w1, w2}
MCRate == [s \in MCSessions |-> 2]
=============================================================================
