------------------------- MODULE MCListingService --------------------------
(* Model-checking instance of ListingService: two runs of the client.       *)
EXTENDS ListingService

CONSTANTS c1, c2

TwoClients == {c1, c2}
=============================================================================
