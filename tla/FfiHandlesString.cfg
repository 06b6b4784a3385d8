\* A C host that binds by signature string.
CONSTANTS
  Descs = {d1}
  Handles = {h1}
  Closures = {c1}
  NoDesc = NoDesc
  StringKinds = {"plain", "tagged"}

CHECK_DEADLOCK FALSE  \* teardown ends the behaviour

SPECIFICATION Spec

PROPERTY TagIsMetadata
