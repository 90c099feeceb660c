------------------------- MODULE MCWorkspacePersist -------------------------
EXTENDS WorkspacePersist

CONSTANTS w1, w2

MCWrites == {w1, w2}
=============================================================================
