SPECIFICATION FairSpec
CONSTANTS
  NUM_THREAD = 3
  Sizes <- ThreeSizes
  Capacity = 4
INVARIANTS AtMostOneExtends RemainderIsLost CompleteJustInOrder
PROPERTY TransferEnds
CHECK_DEADLOCK FALSE
