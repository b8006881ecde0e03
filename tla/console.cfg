SPECIFICATION ConsoleSpec
CONSTANTS
  None = None
  Machine = Machine
  j1 = j1
  j2 = j2
  Users = {"ann", "bob"}
  Orgs = {"north", "south"}
  Jobs = {j1, j2}
  Granted = {"platform_admin", "org_admin"}
  Dids = {"n1"}
  Agents = {"default", "a"}
  Callers = {"c1"}
  Mishaps = {"save", "crash"}
SYMMETRY JobSymmetry
INVARIANTS
  OwnAgentAnswers
  AgentsAsSaved
CONSTRAINT Bound
PROPERTY AnAdminRemains
CHECK_DEADLOCK FALSE
