--------------------------- MODULE RecentCommands --------------------------
(***************************************************************************)
(* What a shell's history promises: the commands given to it, in the order *)
(* they were given, of which at most the last Limit are kept.              *)
(***************************************************************************)
EXTENDS Sequences, Naturals

CONSTANTS Commands, Limit

VARIABLE recent

Init == recent = <<>>

\* The oldest command makes room when the history is full
Keep(c) ==
  recent' = IF Len(recent) < Limit
              THEN Append(recent, c)
              ELSE Append(Tail(recent), c)

Next == \E c \in Commands : Keep(c)

Spec == Init /\ [][Next]_recent
=============================================================================
