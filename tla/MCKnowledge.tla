---------------------------- MODULE MCKnowledge ----------------------------
EXTENDS Knowledge, TLC
=============================================================================
