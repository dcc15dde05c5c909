SPECIFICATION FairSpec
CONSTANTS
  MaxProcs = 4
  MaxPipes = 3
  Capacity = 1
  Items = 3
  Shells <- BothShells
  PipeNums <- OneOrTwo
  Commands <- AllCommands
INVARIANTS NeverStuck PromptAfterLastDatum FailedStageBlocksShell NoBrokenPipe
PROPERTIES ImplementsRelay ShellReturns BothStagesEnd
CHECK_DEADLOCK FALSE
