\* The host uses descriptors, as both bindings do, or binds untagged text, and
\* bytecode uses the cache: three descriptors, one of each owner alive together.
CONSTANTS
  Descs = {d1, d2, d3}
  Handles = {h1, h2}
  Closures = {c1, c2}
  NoDesc = NoDesc
  StringKinds = {"plain"}

CHECK_DEADLOCK FALSE  \* teardown ends the behaviour

SPECIFICATION Spec

SYMMETRY Symmetry

INVARIANTS
  NoUseAfterFree
  OneCachedPerSignature
  TeardownFrees
