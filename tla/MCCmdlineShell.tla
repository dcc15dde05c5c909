--------------------------- MODULE MCCmdlineShell --------------------------
(* Model-checking instance of CmdlineShell: more lines than the history     *)
(* holds.                                                                   *)
EXTENDS CmdlineShell

CONSTANTS c1, c2

TwoCommands == {c1, c2}
=============================================================================
