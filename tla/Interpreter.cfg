\* The encodings bounded by a word's limits, as urb.h defines the macros.
CONSTANTS
  Programs <- MCPrograms
  OpRegs <- MCOpRegs
  HostStacks <- MCHostStacks
  ExecAddr = 11
  MemAddr = 12
  WordBits = 6
  MacroBits = 6
  HalfBits = 4
  MaxStack = 5

CHECK_DEADLOCK FALSE  \* a process that crashed or aborted has stopped

SPECIFICATION Spec

PROPERTY ImplementsMachine
