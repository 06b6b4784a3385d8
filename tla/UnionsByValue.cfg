\* The sizes of what is passed by value, unions among it.
CONSTANTS
  Functions <- MCFunctions
  Bindings = {"node", "lua"}
  MaxArgs = 2
  LayoutOf <- TypeLayout
  GraphOf <- LayoutGraph
  Layouts <- TypeLayouts
  Depth <- LayoutDepth

CHECK_DEADLOCK FALSE  \* a call that returns

SPECIFICATION Spec

INVARIANT ValuesKeepTheirSize
