SPECIFICATION Spec
CONSTANTS
  p1 = p1
  p2 = p2
  killPid = killPid
  Pids <- ThreePids
  NoPid = NoPid
  Failed = Failed
  KillChar = killPid
  MaxTasks = 3
PROPERTY KillTerminatesTarget
CHECK_DEADLOCK FALSE
