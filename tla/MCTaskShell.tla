---------------------------- MODULE MCTaskShell ----------------------------
(* Model-checking instance of TaskShell: a table of MaxTasks slots and as   *)
(* many successful forks as there are pids.  killPid is the pid equal to    *)
(* the character 'k'.                                                       *)
EXTENDS TaskShell

CONSTANTS p1, p2, killPid

TwoPids == {p1, killPid}
ThreePids == {p1, p2, killPid}
=============================================================================
