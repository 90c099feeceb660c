---------------------------- MODULE MCEmbedDrain ----------------------------
EXTENDS EmbedDrain

CONSTANTS d1, d2

MCDrains == {d1, d2}
=============================================================================
