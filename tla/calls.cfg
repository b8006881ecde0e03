SPECIFICATION FairSpec
CONSTANTS
  w = w
  s = s
  a = a
  Lines = {w, s, a}
  Via <- MCVia
  Max = 2
  HistorySize = 1
  Faults = {"wedge", "error"}
  StopWaits = FALSE
INVARIANTS
  CapacityKept
  LiveIsServed
PROPERTIES
  LinesFree
  DrainReturns
CHECK_DEADLOCK FALSE
