SPECIFICATION FairSpec
CONSTANTS
  Letters <- TwoLetters
  Lines <- AllLines
  WordLists <- SomeWords
  InNames <- SomeInNames
  OutNames <- SomeOutNames
  Beyond <- Garbage
  MAXLINE = 8
  MAX_VAR_NUM = 3
  PIPE_MAX_NUM = 2
  FILE_MAX_SIZE = 2
  MaxShort = 5
  MaxLong = 8
INVARIANTS  CommandsAreSegments 
PROPERTY Terminates
CHECK_DEADLOCK FALSE
