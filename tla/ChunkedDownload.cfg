SPECIFICATION FairDownload
CONSTANTS
  c1 = c1
  c2 = c2
  c3 = c3
  NoClient = NoClient
  Clients <- ThreeClients
  Requests <- Numbers
INVARIANT FileNeedsNoThreads
PROPERTY ServerIsLost
CHECK_DEADLOCK FALSE
