SPECIFICATION FairSpec
CONSTANTS
  Calls = {c1, c2}
  Exchanges = 2
  QueueMax = 3
  BatchMax = 2
  Enforced = TRUE
  Recorded = TRUE
  Faults = {"create", "batch", "update", "cut", "crash"}
INVARIANTS
  StoredWhole
PROPERTIES
  FlushEnds
  CompleteIsFinal
CHECK_DEADLOCK FALSE
