------------------------- MODULE MCChunkedDownload -------------------------
(* Model-checking instance of ChunkedDownload: three clients, each of which *)
(* asks for no thread, one, two or a negative number.                       *)
EXTENDS ChunkedDownload

CONSTANTS c1, c2, c3

ThreeClients == {c1, c2, c3}
Numbers == {-1, 0, 1, 2}
=============================================================================
