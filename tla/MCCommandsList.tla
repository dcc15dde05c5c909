--------------------------- MODULE MCCommandsList --------------------------
(* Model-checking instance of CommandsList: three commands in four slots.   *)
EXTENDS CommandsList

CONSTANTS c1, c2, c3

SomeCommands == {c1, c2, c3}
=============================================================================
