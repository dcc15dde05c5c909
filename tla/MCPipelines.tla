---------------------------- MODULE MCPipelines ----------------------------
(* Model-checking instance of Pipelines: one and two pipes, every choice of *)
(* commands, pipes that hold less than a source writes.                     *)
EXTENDS Pipelines

BothShells == {"cmdline", "n"}
OneOrTwo == {1, 2}
AllCommands == {"source", "filter", "head", "nosuch"}
=============================================================================
