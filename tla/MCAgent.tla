------------------------------ MODULE MCAgent ------------------------------
EXTENDS Agent, TLC
=============================================================================
