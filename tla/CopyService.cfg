SPECIFICATION FairSpec
CONSTANTS
  c1 = c1
  c2 = c2
  c3 = c3
  NoClient = NoClient
  Free = Free
  File = File
  Clients <- ThreeClients
  SourceLen = 2
  OldLen <- OldLengths
  Capacity = 2
INVARIANTS TypeOK ApartIsComplete DeathNeedsEcho
PROPERTIES ImplementsLossyCopy GoneClientIsLeft
CHECK_DEADLOCK FALSE
