SPECIFICATION AgentSpec
CONSTANTS
  None = None
  MaxTurns = 2
  MaxCalls = 2
  MaxIterations = 2
  HistoryTurns = 2
  AgentSet = {"resolved", "unresolved", "complaint_registered"}
  NeedsReference = {"complaint_registered"}
  Invented = "invented"
INVARIANTS
  RequestWhole
  TurnSettled
  FiledProperly
CHECK_DEADLOCK FALSE
