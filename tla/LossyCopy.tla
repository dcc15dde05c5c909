------------------------------ MODULE LossyCopy -----------------------------
(***************************************************************************)
(* What the copy service does promise.  A source grows byte by byte; the   *)
(* service takes some of the bytes it has not taken yet, in their order,   *)
(* and keeps the first of those it takes at a time.  It stops for good     *)
(* when it has taken all there is and the source has ended.  A copy that   *)
(* cannot be written stays empty.                                          *)
(***************************************************************************)
EXTENDS Naturals, Sequences

CONSTANTS
  Bytes,     \* what a source is made of
  Capacity   \* how many bytes are taken at a time, at most

VARIABLES writable, source, taken, copy, ended

vars == <<writable, source, taken, copy, ended>>

Init ==
  /\ writable \in BOOLEAN
  /\ source = <<>> /\ taken = 0 /\ copy = <<>> /\ ended = FALSE

Put ==
  /\ ~ended
  /\ \E b \in Bytes : source' = Append(source, b)
  /\ UNCHANGED <<writable, taken, copy, ended>>

Take ==
  /\ ~ended
  /\ \E n \in 1 .. Capacity : taken + n <= Len(source) /\ taken' = taken + n
  /\ copy' = IF writable THEN Append(copy, source[taken + 1]) ELSE copy
  /\ UNCHANGED <<writable, source, ended>>

End ==
  /\ ~ended /\ taken = Len(source)
  /\ ended' = TRUE
  /\ UNCHANGED <<writable, source, taken, copy>>

Next == Put \/ Take \/ End

Spec == Init /\ [][Next]_vars
=============================================================================
