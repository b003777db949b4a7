\* Plans of one to three monitors, in one to three processes.
CONSTANTS
  Plans <- MCPlans
  Pids <- MCPids
  MaxProcesses = 3
SPECIFICATION Spec
CHECK_DEADLOCK FALSE
INVARIANT DirectorySound MergeExact ClosedKept
PROPERTY StatsGrow
