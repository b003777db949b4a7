\* A browser that asks for the index again and again.
CONSTANTS
  Conns = {1}
  Browsers = {1}
  MAX_ACCESOS = 3
  Blocks = 1
  Room = 1
  MaxSegs <- OneBrowser
  Segments = {}
SPECIFICATION WebFairSpec
CHECK_DEADLOCK FALSE
INVARIANT LimitHolds
