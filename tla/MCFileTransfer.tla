--------------------------- MODULE MCFileTransfer --------------------------
(* Model-checking instance of FileTransfer: three threads; sizes with and   *)
(* without a remainder, and one whose pieces exceed one read.               *)
EXTENDS FileTransfer

ThreeSizes == {6, 8, 15}
=============================================================================
