-------------------------------- MODULE Relay ------------------------------
(***************************************************************************)
(* What a pipeline promises: a row of stages passes on what the first one  *)
(* has.  Nothing is lost, made up or overtaken between two stages, a stage *)
(* that is ahead of the next one by what a pipe holds waits, and a stage   *)
(* ends when it has passed on everything and the one before it has ended.  *)
(***************************************************************************)
EXTENDS Integers

CONSTANTS
  Items,      \* data the first stage has
  Capacity    \* data on their way between two stages

VARIABLES
  stages,   \* how many there are
  passed,   \* data each of them has passed on
  ended     \* the stages that have ended

vars == <<stages, passed, ended>>

Init ==
  /\ stages \in Nat \ {0}
  /\ passed = [k \in 1 .. stages |-> 0]
  /\ ended = {}

\* Data stage k has or can get: what the stage before has passed on
Offered(k) == IF k = 1 THEN Items ELSE passed[k - 1]

Pass(k) ==
  /\ k \notin ended /\ passed[k] < Offered(k)
  /\ k < stages => passed[k] - passed[k + 1] <= Capacity
  /\ passed' = [passed EXCEPT ![k] = @ + 1]
  /\ UNCHANGED <<stages, ended>>

End(k) ==
  /\ k \notin ended /\ passed[k] = Items
  /\ k > 1 => k - 1 \in ended
  /\ ended' = ended \cup {k}
  /\ UNCHANGED <<stages, passed>>

Next == \E k \in 1 .. stages : Pass(k) \/ End(k)

Spec == Init /\ [][Next]_vars
=============================================================================
