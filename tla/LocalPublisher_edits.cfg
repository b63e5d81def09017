SPECIFICATION Spec
CONSTANTS
  Processes = {p, q}
  Requests <- MCFewRequests
  Contents <- MCContents
  Publishable = {"a", "b"}
  ForeignTrees <- MCForeignTrees
  MaxCalls = 2
  MaxLosses = 0
  MaxEdits = 2
INVARIANTS
  ForeignDataKept
  StagesAccountedFor
PROPERTIES
  EveryCallReturns
CHECK_DEADLOCK FALSE
