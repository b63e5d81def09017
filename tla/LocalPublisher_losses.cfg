SPECIFICATION Spec
CONSTANTS
  Processes = {p, q}
  Requests <- MCRequests
  Contents <- MCContents
  Publishable = {"a", "b"}
  ForeignTrees <- MCForeignTrees
  MaxCalls = 3
  MaxLosses = 1
  MaxEdits = 0
INVARIANTS
  NothingTorn
PROPERTIES
  ImplementsManagedDirectory
CHECK_DEADLOCK FALSE
