--------------------------- MODULE MCCopyService ---------------------------
(* Model-checking instance of CopyService: a first client and two later     *)
(* ones, a source of two bytes, and a destination that was shorter or       *)
(* longer than the source.                                                  *)
EXTENDS CopyService

CONSTANTS c1, c2, c3

ThreeClients == {c1, c2, c3}
OldLengths == {1, 3}
=============================================================================
