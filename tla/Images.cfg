\* Files right or wrong in one place; one host name, and four objects made after
\* the load.
CONSTANTS
  Files <- MCFiles
  SizeModulus <- MCModulus
  Names = {n1}
  Fns = {f1, f2}
  MaxMade = 4

CHECK_DEADLOCK FALSE  \* with runtime and image gone, or no image, it ends

SPECIFICATION Spec

INVARIANTS
  LoadsDocumented
  ReadsInside
  WordsAreSound
  NothingLeaks
  ClosuresCallLatest

PROPERTIES
  ReleasedLastFirst
