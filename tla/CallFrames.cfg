\* Three processes: see MCScopes.
CONSTANTS
  t1 = t1
  t2 = t2
  w = w
  HostThreads = {t1, t2}
  NativeThreads = {w}
  Runtimes = {1, 2}
  NoRuntime = 0
  Scopes <- MCScopes

CHECK_DEADLOCK FALSE  \* a process that crashed has stopped

SPECIFICATION Spec

INVARIANTS
  LockMatchesFrames
  CurrentIsLocked
  CallbacksOnOwnerThread
  NoWaitCycle
  RunReportsFailure
