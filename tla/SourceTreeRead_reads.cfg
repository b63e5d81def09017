SPECIFICATION Spec
CONSTANTS
  Marker = "marker"
  PortableNames <- MCPortableNames
  Fold <- MCFold
  Inodes = {"r", "i", "j", "k", "l", "m"}
  Root = "r"
  NameOrder <- MCNameOrder
  Depth = 3
  Size <- MCSize
  Starts <- MCStarts
  Requests <- MCRequests
  MaxEdits = 2
INVARIANTS
  OneMoment
  ReadableIsRead
CHECK_DEADLOCK FALSE
