--------------------------- MODULE MCCallSession ---------------------------
EXTENDS CallSession, TLC

\* Bound of the liveness run: back-pressure holds up a send only while no turn is
\* under way, and no turn begins before it is through.
SlowApart == \A p \in SlowSender : HeldUp(p)' => \A t \in Turns : ~Live(t)'
=============================================================================
