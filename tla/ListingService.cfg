SPECIFICATION FairSpec
CONSTANTS
  c1 = c1
  c2 = c2
  NoClient = NoClient
  Clients <- TwoClients
INVARIANTS ListingAfterLogin ClosedAfterLogin
PROPERTIES StuckForGood NoListingAfterInvalid GoneClientIsLeft
CHECK_DEADLOCK FALSE
