---------------------------- MODULE CmdlineShell ---------------------------
(***************************************************************************)
(* main() of cmdline.c: a loop that reads a line, remembers it, forks a    *)
(* child for every line but exit, and waits for some child unless the line *)
(* ends in &.  The child runs the builtins, in its own copy of the shell,  *)
(* and then executes the command, or starts the pipeline (Pipelines).      *)
(*                                                                         *)
(* The working directory and the table of jobs change only in the copy of  *)
(* the child, where no later code reads them, and are left out.            *)
(* new.c and maha.c are earlier versions of the same loop.                 *)
(***************************************************************************)
EXTENDS HistoryQueue, SequencesExt

CONSTANT MaxLines    \* bound: the lines typed in a run

ASSUME MaxLinesAssumption == MaxLines \in Nat

VARIABLES
  pc,         \* the statement main() executes next
  line,       \* the line being executed
  queue,      \* history, Front and Rear
  hist,       \* as in the code
  children,   \* the children not yet reaped, in the order of their forks
  log,        \* ghost: the command lines read so far
  bgLines     \* ghost: how many of them ended in &

vars == <<pc, line, queue, hist, children, log, bgLines>>

\* "bang" is a line whose first word is !CMD, "pipe" one with a pipe; help, cd
\* and history go on to be executed as commands
Kinds == {"command", "bang", "pipe"}
LineType == [kind : Kinds, bg : BOOLEAN, text : Commands]

\* A child starts in the shell's code, then is a program (or, after a pipeline
\* whose last command cannot be executed, a shell that reads the pipe), and is
\* a zombie until it is waited for
ChildType == [line : LineType, state : {"code", "runs", "zombie"}]

Init ==
  /\ pc = "prompt" /\ line \in LineType
  /\ queue = EmptyQueue /\ hist = 0
  /\ children = <<>>
  /\ log = <<>> /\ bgLines = 0

-----------------------------------------------------------------------------
(* The shell *)

\* enqueue, hist++, and at the tenth line dequeue and enqueue again
ReadLine(l) ==
  /\ pc = "prompt" /\ Len(log) < MaxLines
  /\ line' = l
  /\ queue' = Remember(queue, hist, l.text)
  /\ hist' = hist + 1
  /\ log' = Append(log, l.text)
  /\ bgLines' = IF l.bg THEN bgLines + 1 ELSE bgLines
  /\ pc' = "fork"
  /\ UNCHANGED children

\* exit is tested first, whatever runs in the background
ReadExit ==
  /\ pc = "prompt" /\ pc' = "exited"
  /\ UNCHANGED <<line, queue, hist, children, log, bgLines>>

\* End of input, an empty line, or a line that parse() rejects: a NULL pointer
\* is used
ReadBad ==
  /\ pc = "prompt" /\ pc' = "crashed"
  /\ UNCHANGED <<line, queue, hist, children, log, bgLines>>

\* Mutant of ForkChild: the shell does not wait for !CMD
ForkChildNoWait ==
  /\ pc = "fork"
  /\ children' = Append(children, [line |-> line, state |-> "code"])
  /\ pc' = IF line.bg \/ line.kind = "bang" THEN "prompt" ELSE "wait"
  /\ UNCHANGED <<line, queue, hist, log, bgLines>>

ForkChild ==
  /\ pc = "fork"
  /\ children' = Append(children, [line |-> line, state |-> "code"])
  /\ pc' = IF line.bg THEN "prompt" ELSE "wait"
  /\ UNCHANGED <<line, queue, hist, log, bgLines>>

ForkFails ==
  /\ pc = "fork" /\ pc' = "exited"
  /\ UNCHANGED <<line, queue, hist, children, log, bgLines>>

\* Mutant of WaitAny: waitpid for the child that was forked last
WaitLast ==
  /\ pc = "wait"
  /\ Last(children).state = "zombie"
  /\ children' = Front(children)
  /\ pc' = "prompt"
  /\ UNCHANGED <<line, queue, hist, log, bgLines>>

\* wait(NULL): any child that has terminated
WaitAny ==
  /\ pc = "wait"
  /\ \E i \in 1 .. Len(children) :
       /\ children[i].state = "zombie"
       /\ children' = RemoveAt(children, i)
  /\ pc' = "prompt"
  /\ UNCHANGED <<line, queue, hist, log, bgLines>>

-----------------------------------------------------------------------------
(* The i-th child, a copy of the shell that executes one line *)

Enters(i, s) ==
  /\ children' = [children EXCEPT ![i].state = s]
  /\ UNCHANGED <<pc, line, queue, hist, log, bgLines>>

\* A command in the background ends at the strcpy to a NULL pointer; !CMD at
\* the atoi of one, for the second word is never in myargs
CrashBeforeExec(i) ==
  LET l == children[i].line IN
  /\ children[i].state = "code"
  /\ l.kind = "bang" \/ (l.kind = "command" /\ l.bg)
  /\ Enters(i, "zombie")

\* execvp, or exit if it fails
ExecCommand(i) ==
  LET l == children[i].line IN
  /\ children[i].state = "code"
  /\ l.kind = "command" /\ ~l.bg
  /\ Enters(i, "runs") \/ Enters(i, "zombie")

\* fork_pipes, in the foreground and in the background
StartPipeline(i) ==
  /\ children[i].state = "code"
  /\ children[i].line.kind = "pipe"
  /\ Enters(i, "runs")

ChildEnds(i) ==
  /\ children[i].state = "runs"
  /\ Enters(i, "zombie")

Shell ==
  \/ \E l \in LineType : ReadLine(l)
  \/ ReadExit \/ ReadBad \/ ForkChild \/ ForkFails \/ WaitAny

ChildCode(i) == CrashBeforeExec(i) \/ ExecCommand(i) \/ StartPipeline(i)

Next ==
  \/ Shell
  \/ \E i \in 1 .. Len(children) : ChildCode(i) \/ ChildEnds(i)

Spec == Init /\ [][Next]_vars

\* The kernel schedules the shell and the code before exec; a program may run
\* for ever
Fairness ==
  /\ WF_vars(WaitAny)
  /\ WF_vars(\E i \in 1 .. Len(children) : ChildCode(i))

FairSpec == Spec /\ Fairness

-----------------------------------------------------------------------------
(* Properties *)

\* Every variable has its type; Rear and Front stay inside the array
\* (cmdline.c:28-60).
TypeOK ==
  /\ pc \in {"prompt", "fork", "wait", "exited", "crashed"}
  /\ line \in LineType
  /\ queue \in [history : [0 .. SIZE - 1 -> Commands \cup {Unset}],
                Front : -1 .. SIZE - 1, Rear : -1 .. SIZE - 1]
  /\ hist \in Nat
  /\ children \in Seq(ChildType)
  /\ log \in Seq(Commands) /\ bgLines \in Nat

\* Every wait reaps one child, not necessarily the one just forked: at the
\* prompt as many children are left as lines have ended in &, and one more
\* while the shell waits.  So zombies of the background are reaped only in the
\* place of a command in the foreground, which then still runs
\* (cmdline.c:254-263).
OneReapedPerWait ==
  /\ pc = "prompt" => Len(children) = bgLines
  /\ pc = "wait" => Len(children) = bgLines + 1

\* The history shows all lines until there are SIZE, and the lines 2 to SIZE
\* from then on, whatever is typed later (cmdline.c:32-77, 171-176).
HistoryWindow ==
  show(queue) = IF Len(log) < SIZE THEN log ELSE SubSeq(log, 2, SIZE)

\* A command in the background, which ends by itself before it is executed,
\* gives the prompt back to a shell that waits, even if what it waits for never
\* ends (cmdline.c:228-237, 261).
WaitReturns ==
  (pc = "wait" /\ \E i \in 1 .. Len(children) :
                    children[i].line.bg /\ children[i].line.kind = "command")
    ~> pc = "prompt"
=============================================================================
