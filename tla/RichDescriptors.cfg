\* Every function of one or two arguments over fourteen types, and some of three,
\* which is one more than a signature has room for.
CONSTANTS
  Functions <- MCFunctions
  Bindings = {"node", "lua"}
  MaxArgs = 2
  LayoutOf <- TypeLayout
  GraphOf <- LayoutGraph
  Layouts <- TypeLayouts
  Depth <- LayoutDepth

CHECK_DEADLOCK FALSE  \* a call that returns

SPECIFICATION Spec

INVARIANTS
  CountsAreExact
  PositionsKeepLayouts
  BlocksHaveAnEntry
  TextsAreFreed
