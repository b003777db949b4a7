CONSTANTS
  Problems <- MCProblems
  Algs <- MCAlgs
  Timeout = 12
  Limit = 2
  MaxTime = 22
SPECIFICATION FairSpec
CHECK_DEADLOCK FALSE
INVARIANT NoneIfNoWay
