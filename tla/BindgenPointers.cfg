\* Node wrappers only.
CONSTANTS
  CTypes <- MCTypes
  Depth <- MCDepth
  Headers <- MCHeaders
  Longer = {0, 1}
  Modes = {"node"}

CHECK_DEADLOCK FALSE

SPECIFICATION Spec

INVARIANTS
  AddressesAreStored
