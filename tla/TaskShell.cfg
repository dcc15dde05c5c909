SPECIFICATION FairSpec
CONSTANTS
  p1 = p1
  p2 = p2
  killPid = killPid
  Pids <- TwoPids
  NoPid = NoPid
  Failed = Failed
  KillChar = killPid
  MaxTasks = 3
INVARIANTS TypeOK ListedTasksAreBackground ForegroundFinished ZombiesAccounted
PROPERTIES HandlerHalves ForegroundReturns
CHECK_DEADLOCK FALSE
