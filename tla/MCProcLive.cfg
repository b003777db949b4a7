\* One CPU and one level; kills of the first process that init creates.
CONSTANTS
  NPROC = 3
  CPUs = {c1}
  Free = Free
  LOWEST_PRIO = 0
  NORM_PRIO = 0
  Events = {ticks}
  MaxPid = 3
  KillPids = {2}
  PrioPids = {}
SPECIFICATION FairSpec
PROPERTY KilledDies
PROPERTY InitReaps
PROPERTY RunnableRuns
