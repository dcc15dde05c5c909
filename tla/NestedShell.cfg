SPECIFICATION Spec
CONSTANTS
  MaxProcs = 4
  HistorySize = 2
  Lines <- TypedLines
INVARIANTS OneReader RefusesExitInCopies
PROPERTIES ArmedNeverReturns
CHECK_DEADLOCK FALSE
