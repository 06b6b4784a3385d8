\* Three threads, each nesting up to two sections: one inside, one stale
\* reader and one waiter at once.
CONSTANTS
  Threads = {t1, t2, t3}
  NoThread = NoThread
  MaxDepth = 2

SPECIFICATION FairSpec

INVARIANTS
  MutualExclusion
  FastPathHolds
  NoSelfDeadlock
  QuiescentIsFree

PROPERTIES
  ImplementsMonitor
  SomeWaiterEnters
