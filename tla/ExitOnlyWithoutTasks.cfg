SPECIFICATION Spec
CONSTANTS
  p1 = p1
  p2 = p2
  killPid = killPid
  Pids <- ThreePids
  NoPid = NoPid
  Failed = Failed
  KillChar = killPid
  MaxTasks = 3
INVARIANT ExitOnlyWithoutTasks
CHECK_DEADLOCK FALSE
