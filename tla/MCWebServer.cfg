\* A browser and another client, files of two blocks.
CONSTANTS
  Conns = {1, 2}
  Browsers = {2}
  MAX_ACCESOS = 2
  Blocks = 2
  Room = 1
  MaxSegs <- SegsOf
  Segments <- SomeSegments
SPECIFICATION WebFairSpec
CHECK_DEADLOCK FALSE
INVARIANT WholeAnswers
PROPERTY Accepts IdleEnds
