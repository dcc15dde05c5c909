---------------------------- MODULE HistoryQueue ---------------------------
(***************************************************************************)
(* The history of cmdline.c: the array history[] with Front and Rear, the  *)
(* functions enqueue(), dequeue() and show() on it, and the counter hist   *)
(* with which main() decides to drop an entry.                             *)
(*                                                                         *)
(* The three variables of the queue are a record q; -1 is the empty mark.  *)
(***************************************************************************)
EXTENDS Integers, Sequences

CONSTANTS
  Commands,   \* command lines
  Unset,      \* NULL
  SIZE        \* 10: SIZE, and the value hist is compared with

ASSUME SizeAssumption == SIZE \in Nat /\ SIZE >= 2
ASSUME UnsetAssumption == Unset \notin Commands

EmptyQueue == [history |-> [s \in 0 .. SIZE - 1 |-> Unset], Front |-> -1, Rear |-> -1]

Overflows(q) == q.Rear = SIZE - 1

\* "Overflow": the item is dropped
enqueue(q, item) ==
  IF Overflows(q)
    THEN q
    ELSE [history |-> [q.history EXCEPT ![q.Rear + 1] = item],
          Front   |-> IF q.Front = -1 THEN 0 ELSE q.Front,
          Rear    |-> q.Rear + 1]

\* "Underflow"
dequeue(q) ==
  IF q.Front = -1 \/ q.Front > q.Rear THEN q ELSE [q EXCEPT !.Front = @ + 1]

\* What show() prints
show(q) ==
  IF q.Front = -1 THEN <<>>
                  ELSE [k \in 1 .. q.Rear - q.Front + 1 |-> q.history[q.Front + k - 1]]

\* Mutant of Remember: an entry is dropped for every command from the SIZE-th on
RememberDropping(q, hist, c) ==
  IF hist + 1 >= SIZE
    THEN enqueue(dequeue(enqueue(q, c)), c)
    ELSE enqueue(q, c)

\* What main() does with a command line when hist commands came before it
Remember(q, hist, c) ==
  IF hist + 1 = SIZE
    THEN enqueue(dequeue(enqueue(q, c)), c)
    ELSE enqueue(q, c)
=============================================================================
