\* Three slots and two CPUs; two priority levels, two pids to be born.
CONSTANTS
  NPROC = 3
  CPUs = {c1, c2}
  Free = Free
  LOWEST_PRIO = 1
  NORM_PRIO = 1
  Events = {ticks}
  MaxPid = 3
  KillPids = {0, 2, 3}
  PrioPids = {0, 1, 2, 3}
SYMMETRY CpuSymmetry
SPECIFICATION Spec
INVARIANT RunQueuesExact
INVARIANT StacksExclusive
INVARIANT NoLostExit
INVARIANT ParentsAlive
PROPERTY ZombiesOnlyReaped
