SPECIFICATION ListSpec
CONSTANTS
  c1 = c1
  c2 = c2
  c3 = c3
  Commands <- SomeCommands
  Unset = Unset
  Size = 4
PROPERTY KeepsRecentCommands
