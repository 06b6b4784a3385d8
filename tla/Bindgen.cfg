\* Two records that may hold or point to one another, an enum and a function.
CONSTANTS
  CTypes <- MCTypes
  Depth <- MCDepth
  Headers <- MCHeaders
  Longer = {0, 1}
  Modes = {"json", "node", "lua"}

CHECK_DEADLOCK FALSE  \* a tool that ends

SPECIFICATION Spec

INVARIANTS
  TablesWhole
  ReferencesResolve
  NullsBehindPointers
  OverflowsOnlyInside
  PreparedAreFreed
  CopiesStayInside

PROPERTIES
  Prints
