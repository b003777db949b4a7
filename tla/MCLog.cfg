\* Two processes, three blocks and two values, crashes anywhere: calls of one
\* block, in a log with room for two of them.
CONSTANTS
  Procs = {p1, p2}
  Blocks = {b1, b2, b3}
  Vals = {0, 1}
  InitVal = 0
  Absent = Absent
  LOGSIZE = 4
  MAXOPBLOCKS = 2
  OpBlocks = 1
SPECIFICATION FairSpec
INVARIANT SleepersHaveWaker
INVARIANT NoPanic
PROPERTY Atomic
PROPERTY BeginReturns
