------------------------------ MODULE MCCalls ------------------------------
EXTENDS Calls, TLC
CONSTANTS w, s, a
MCVia == (w :> "web") @@ (s :> "smartflo") @@ (a :> "asterisk")
=============================================================================
