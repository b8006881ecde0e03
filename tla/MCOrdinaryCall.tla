--------------------------- MODULE MCOrdinaryCall ---------------------------
EXTENDS OrdinaryCall, TLC
TurnSymmetry == Permutations(Turns)
\* The properties are about a call until it is strained: what follows is not explored.
Unstrained == ~strained
=============================================================================
