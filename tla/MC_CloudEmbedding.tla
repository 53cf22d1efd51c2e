------------------------- MODULE MC_CloudEmbedding -------------------------
EXTENDS CloudEmbedding, TLC

CONSTANTS c1, c2
=============================================================================
