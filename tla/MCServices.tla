---------------------------- MODULE MCServices ----------------------------
EXTENDS Services, TLC
RequestSymmetry == Permutations(Requests)
=============================================================================
