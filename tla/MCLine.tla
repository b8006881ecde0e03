------------------------------- MODULE MCLine -------------------------------
EXTENDS Line
=============================================================================
