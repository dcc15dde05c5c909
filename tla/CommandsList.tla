---------------------------- MODULE CommandsList ---------------------------
(***************************************************************************)
(* The command history of n.c: the array commandsList, its length          *)
(* commandsList_total, and the two ways a line is recorded in it.  Only    *)
(* main() touches them, so recording a line is one action.                 *)
(*                                                                         *)
(* A line of at most one command is recorded unless it is refused, before  *)
(* it is looked at any further; a pipeline takes its own branch and is     *)
(* executed without being recorded.                                        *)
(*                                                                         *)
(* The names of the specification begin with List, because the module of   *)
(* its theorems, TaskShellProofs, extends TaskShell as well.               *)
(***************************************************************************)
EXTENDS Integers, Sequences

CONSTANTS
  Commands,  \* the commands a line may hold
  Unset,     \* what a slot of the uninitialised array holds
  Size       \* the length of commandsList, 10 in the code

ASSUME SizeAssumption == Size \in Nat \ {0}
ASSUME UnsetAssumption == Unset \notin Commands

VARIABLES
  commandsList,
  commandsList_total

listVars == <<commandsList, commandsList_total>>

Entries == 0 .. Size - 1

ListInit ==
  /\ commandsList = [s \in Entries |-> Unset]
  /\ commandsList_total = 0

\* Mutants of Shift: the loop runs the other way, copying the newest entry
\* down over all the others; the loop stops one slot early
ShiftBackwards(a) == [s \in Entries |-> a[Size - 1]]
ShiftShort(a) == [s \in Entries |-> IF s < Size - 2 THEN a[s + 1] ELSE a[s]]

\* for (i = 0; i < commandsList_total - 1; i++) a[i] = a[i + 1], the array full
Shift(a) == [s \in Entries |-> IF s < Size - 1 THEN a[s + 1] ELSE a[s]]

HasRoom == commandsList_total < Size

Record(c) ==
  IF HasRoom
    THEN /\ commandsList' = [commandsList EXCEPT ![commandsList_total] = c]
         /\ commandsList_total' = commandsList_total + 1
    ELSE /\ commandsList' = [Shift(commandsList) EXCEPT ![commandsList_total - 1] = c]
         /\ UNCHANGED commandsList_total

ListNext == \E c \in Commands : Record(c)

ListSpec == ListInit /\ [][ListNext]_listVars

-----------------------------------------------------------------------------

\* The array and its length have their types, and the slots in use are the
\* first commandsList_total ones (n.c:137-150).
ListTypeOK ==
  /\ commandsList \in [Entries -> Commands \cup {Unset}]
  /\ commandsList_total \in 0 .. Size
  /\ \A s \in Entries : s < commandsList_total <=> commandsList[s] # Unset

\* What the builtin commandsList prints
Printed == [k \in 1 .. commandsList_total |-> commandsList[k - 1]]

Recent == INSTANCE RecentCommands WITH Limit <- Size, recent <- Printed

\* The array implements the abstract history: appending below the limit, then
\* shifting by one and overwriting the last slot, keeps the last Size commands
\* in order across the change from one regime to the other (n.c:137-150).
KeepsRecentCommands == Recent!Spec
=============================================================================
