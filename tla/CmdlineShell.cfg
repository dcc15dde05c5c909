SPECIFICATION FairSpec
CONSTANTS
  c1 = c1
  c2 = c2
  Commands <- TwoCommands
  Unset = Unset
  SIZE = 3
  MaxLines = 4
INVARIANTS OneReapedPerWait HistoryWindow
PROPERTY WaitReturns
CHECK_DEADLOCK FALSE
