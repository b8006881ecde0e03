---------------------------- MODULE CallPromise ----------------------------
(***************************************************************************)
(* What a call promises whoever runs it: the transports await              *)
(* CallSession.run() and read nothing of it but that it is over.  A call   *)
(* runs, finishes and is over; its record is kept by the very step that    *)
(* ends it, unless it was cut short, which only a finish that outlasts the *)
(* transport's patience may bring about.                                   *)
(***************************************************************************)

CONSTANT MayBeCut    \* finishing may take longer than the transport waits
VARIABLES phase, kept

Init == phase = "running" /\ kept = FALSE

Finish ==
  /\ phase = "running"
  /\ phase' = "finishing"
  /\ UNCHANGED kept

Keep ==
  /\ phase = "finishing"
  /\ phase' = "over" /\ kept' = TRUE

\* Cancelled before the call began, or while it finished.
CutShort ==
  /\ MayBeCut /\ phase # "over"
  /\ phase' = "over"
  /\ UNCHANGED kept

Next == Finish \/ Keep \/ CutShort

Spec == Init /\ [][Next]_<<phase, kept>>
=============================================================================
