\* The encodings bounded by an int's limits, as the .c files compile where words
\* have 64 bits.
CONSTANTS
  Programs <- MCPrograms
  OpRegs <- MCOpRegs
  HostStacks <- MCHostStacks
  ExecAddr = 11
  MemAddr = 12
  WordBits = 10
  MacroBits = 5
  HalfBits = 5
  MaxStack = 5

CHECK_DEADLOCK FALSE  \* a process that crashed or aborted has stopped

SPECIFICATION Spec

PROPERTY ConstRefPushes
