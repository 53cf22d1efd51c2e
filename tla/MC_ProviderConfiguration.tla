--------------------- MODULE MC_ProviderConfiguration ---------------------
EXTENDS ProviderConfiguration, TLC

CONSTANTS p1, p2
=============================================================================
