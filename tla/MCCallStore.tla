---------------------------- MODULE MCCallStore ----------------------------
EXTENDS CallStore, TLC
CallSymmetry == Permutations(Calls)
=============================================================================
