----------------------------- MODULE NestedShell ----------------------------
(***************************************************************************)
(* The shell of assignment3.c, whose children become shells.               *)
(*                                                                         *)
(* main() forks a child for every line and waits for it.  A child that     *)
(* executes a builtin, whose command cannot be executed, or whose file     *)
(* cannot be used goes back to the loop: it is a shell of its own, with    *)
(* copies of the history and of remainingJobs, that reads the same         *)
(* terminal while its parent waits.  For a line that ends in & the child   *)
(* forks a copy that executes the line, and then executes it itself.       *)
(*                                                                         *)
(* signal(SIGCHLD, SIGKILL) installs address 9 as the handler: the next    *)
(* SIGCHLD ends the process, unless it has exec'ed a program before.       *)
(*                                                                         *)
(* builtInCMDs.c, which declares what is not in the file, is external.     *)
(* Left out: the working directory, and the array backgroundProcesses,     *)
(* which is never initialised: what `jobs` reads from it is undefined.     *)
(***************************************************************************)
EXTENDS Integers

CONSTANTS
  MaxProcs,     \* how many processes there can be in a run: a fork after them fails
  HistorySize,  \* the length of history[], 10 in the code
  Lines         \* the lines that are typed

ASSUME ProcsAssumption == MaxProcs \in Nat \ {0}
ASSUME HistoryAssumption == HistorySize \in Nat \ {0}

VARIABLES
  proc,       \* each process with its copy of the variables of main()
  signalled   \* the processes a SIGCHLD that ends them is pending for

vars == <<proc, signalled>>

\* Process identifiers ascend from that of the shell the user has started;
\* NoProc is what a fork that failed leaves as pid
Procs == 1 .. MaxProcs
Root == 1
NoProc == 0

Slots == 0 .. HistorySize - 1

\* What parse() makes of a line: a program, a command that cannot be executed,
\* a builtin that leaves all as it is (help, cd, kill with an argument, whose
\* address is no process identifier), kill alone, or one of the other builtins
Commands == {"program", "unknown", "plain", "kill", "jobs", "history", "exit"}

\* For !CMD (bang) the command is the one it names, "unset" for a slot that holds
\* no line or is outside the array; usable is FALSE if a file of a redirection is not
Line == [bang : BOOLEAN, command : Commands \cup {"unset"}, bg : BOOLEAN, usable : BOOLEAN]

ASSUME LinesAssumption == Lines \subseteq Line

\* The statements of main(), in a shell and in a child, then what comes after
Loop == {"prompt", "fork", "wait"}
ChildCode == {"child", "copied", "copy", "run"}
States == {"unused", "program", "zombie", "reaped"} \cup Loop \cup ChildCode

\* info, when it is not used any more
NoLine == [bang |-> FALSE, command |-> "plain", bg |-> FALSE, usable |-> TRUE]

\* below is history: the process is the copy of a line in the background, or was
\* forked below one
Process == [state : States, parent : Procs \cup {NoProc}, waits : Procs \cup {NoProc},
            line : Line, history : [Slots -> Commands \cup {"unset"}], index : Slots,
            remainingJobs : Nat, armed : BOOLEAN, below : BOOLEAN]

Fresh == [state |-> "unused", parent |-> NoProc, waits |-> NoProc,
          line |-> NoLine,
          history |-> [s \in Slots |-> "unset"], index |-> 0,
          remainingJobs |-> 0, armed |-> FALSE, below |-> FALSE]

Init ==
  /\ proc = [p \in Procs |-> IF p = Root THEN [Fresh EXCEPT !.state = "prompt"] ELSE Fresh]
  /\ signalled = {}

At(p, s) == proc[p].state = s /\ p \notin signalled

\* The shell's code goes on in p
In(p, s) ==
  [proc[p] EXCEPT !.state = s, !.line = IF s = "prompt" THEN NoLine ELSE @,
                  !.waits = IF s = "prompt" THEN NoProc ELSE @]

Goes(p, s) == proc' = [proc EXCEPT ![p] = In(p, s)] /\ UNCHANGED signalled

\* What is left of a process that has exec'ed a program, has ended or was reaped
Without(p, s) == [Fresh EXCEPT !.state = s, !.parent = proc[p].parent, !.below = proc[p].below]

InCode(p) == proc[p].state \in Loop \cup ChildCode

\* Mutant of Shot: the handler is a function that returns
ShotNot(p) == FALSE

\* p is ended by a SIGCHLD
Shot(p) == proc[p].armed /\ InCode(p)

\* p ends, by exit or by a signal, and its parent gets a SIGCHLD
Ends(p) ==
  /\ proc' = [proc EXCEPT ![p] = Without(p, "zombie")]
  /\ signalled' = (signalled \cup {q \in Procs : q = proc[p].parent /\ Shot(q)}) \ {p}

Alive(p) == InCode(p) \/ proc[p].state = "program"

\* kill(NULL, SIGKILL): kill(0, ...) is for all processes of the terminal's job
GroupEnds ==
  /\ proc' = [p \in Procs |-> IF Alive(p) THEN Without(p, "zombie") ELSE proc[p]]
  /\ signalled' = {}

-----------------------------------------------------------------------------
(* Reading a line *)

After(i) == (i + 1) % HistorySize

\* history[index] = info, or for !CMD what the slot of that number holds
Remember(p, l) ==
  [proc[p] EXCEPT
     !.history[proc[p].index] = l.command,
     !.index = After(proc[p].index), !.line = l, !.state = "fork"]

\* !CMD at index 0 divides by zero; exit without jobs is the end
EndsShell(p, l) ==
  \/ l.bang /\ proc[p].index = 0
  \/ ~l.bang /\ l.command = "exit" /\ proc[p].remainingJobs = 0

\* The lines that can be typed: a number names a slot or none
Typed(p) ==
  {l \in Lines : IF l.bang THEN l.command \in {proc[p].history[s] : s \in Slots} \cup {"unset"}
                 ELSE l.command # "unset"}

\* exit with jobs prints a text and is forked like any other line
ReadLine(p) ==
  /\ At(p, "prompt")
  /\ \E l \in Typed(p) : ~EndsShell(p, l) /\ proc' = [proc EXCEPT ![p] = Remember(p, l)]
  /\ UNCHANGED signalled

\* Also a line that parse() rejects, and the end of input: NULL is dereferenced
ReadEnds(p) == At(p, "prompt") /\ Ends(p)

-----------------------------------------------------------------------------
(* The child of a line *)

\* The identifier of the next process
IsNext(c) == proc[c].state = "unused" /\ \A d \in 1 .. c - 1 : proc[d].state # "unused"

ForkChild(p, c) ==
  /\ At(p, "fork") /\ IsNext(c)
  /\ proc' = [proc EXCEPT
                ![p] = [In(p, "wait") EXCEPT !.waits = c, !.line = NoLine],
                ![c] = [proc[p] EXCEPT !.state = "child", !.parent = p, !.waits = NoProc]]
  /\ UNCHANGED signalled

ForkFails(p) ==
  /\ At(p, "fork")
  /\ Goes(p, "wait")

Children(p) == {c \in Procs : proc[c].parent = p /\ proc[c].state # "reaped"}

Reap(p, c) ==
  /\ proc' = [proc EXCEPT ![p] = In(p, "prompt"), ![c] = Without(c, "reaped")]
  /\ UNCHANGED signalled

\* Mutant of Wait: waitpid(pid, NULL, WNOHANG)
WaitNot(p) == At(p, "wait") /\ Goes(p, "prompt")

\* waitpid(pid, NULL, 0); with the pid -1 of a fork that failed, for any child
Wait(p) ==
  /\ At(p, "wait")
  /\ \/ \E c \in Children(p) :
          /\ proc[p].waits \in {c, NoProc} /\ proc[c].state = "zombie"
          /\ Reap(p, c)
     \/ proc[p].waits = NoProc /\ Children(p) = {} /\ Goes(p, "prompt")

\* A file of a redirection does not exist or cannot be used: continue
Refused(p) ==
  /\ At(p, "child") /\ ~proc[p].line.usable
  /\ Goes(p, "prompt")

InBackground(p) == At(p, "child") /\ proc[p].line.usable /\ proc[p].line.bg

\* remainingJobs++ and the second fork
ForkCopy(p, c) ==
  /\ InBackground(p) /\ IsNext(c)
  /\ LET counted == [proc[p] EXCEPT !.remainingJobs = @ + 1] IN
     proc' = [proc EXCEPT
                ![p] = [counted EXCEPT !.state = "copied", !.waits = c],
                ![c] = [counted EXCEPT !.state = "copy", !.parent = p, !.waits = NoProc,
                                       !.below = TRUE]]
  /\ UNCHANGED signalled

ForkCopyFails(p) ==
  /\ InBackground(p)
  /\ proc' = [proc EXCEPT ![p].remainingJobs = @ + 1, ![p].state = "copied"]
  /\ UNCHANGED signalled

\* Mutant of Uncount: the line is missing
UncountNot(n) == n

\* remainingJobs--
Uncount(n) == n - 1

\* signal(), waitpid(ppid, NULL, WNOHANG) and the line itself
GoOn(p) ==
  /\ At(p, "copied")
  /\ LET c == proc[p].waits
         q == [proc[p] EXCEPT !.armed = TRUE, !.remainingJobs = Uncount(@), !.waits = NoProc, !.state = "run"]
     IN proc' = IF c # NoProc /\ proc[c].state = "zombie"
                THEN [proc EXCEPT ![p] = q, ![c] = Without(c, "reaped")]
                ELSE [proc EXCEPT ![p] = q]
  /\ UNCHANGED signalled

-----------------------------------------------------------------------------
(* Executing a command *)

\* What becomes of a process that executes a command in the shell's code: a
\* program, a shell, a crash, or the end of all.  history divides by index and prints all
\* slots; jobs prints an array that was never initialised
Outcomes(p, command) ==
  CASE command = "program" -> {"program"}
    [] command = "kill" -> {"group"}
    [] command = "jobs" -> {"prompt", "crash"}
    [] command = "history" ->
         (IF proc[p].index # 0 THEN {"prompt"} ELSE {})
           \cup (IF proc[p].index = 0 \/ \E s \in Slots : proc[p].history[s] = "unset"
                 THEN {"crash"} ELSE {})
    [] OTHER -> {"prompt"}

\* executePrevious: the same for the command of the slot
Executes(p) ==
  LET l == proc[p].line IN
  IF l.bang /\ proc[p].index = 0 THEN {"crash"}
  ELSE IF l.command = "unset" THEN {"prompt", "crash"}
  ELSE Outcomes(p, l.command)

\* execvp resets the handler
Execs(p) ==
  /\ proc' = [proc EXCEPT ![p] = Without(p, "program")]
  /\ UNCHANGED signalled

\* The end of the loop's body: the child of a line, or a copy after a builtin
Run(p) ==
  /\ At(p, "run") \/ (At(p, "child") /\ proc[p].line.usable /\ ~proc[p].line.bg)
  /\ \/ "program" \in Executes(p) /\ Execs(p)
     \/ "crash" \in Executes(p) /\ Ends(p)
     \/ "group" \in Executes(p) /\ GroupEnds
     \/ "prompt" \in Executes(p) /\ Goes(p, "prompt")

\* The copy of a line in the background.  !CMD is called with its arguments
\* swapped, an index for a text; a builtin goes on to be executed again
RunCopy(p) ==
  LET l == proc[p].line IN
  /\ At(p, "copy")
  /\ \/ ~l.bang /\ l.command = "program" /\ Execs(p)
     \/ (l.bang \/ l.command = "unknown") /\ Ends(p)
     \/ /\ ~l.bang /\ l.command \notin {"program", "unknown"}
        /\ \/ "crash" \in Outcomes(p, l.command) /\ Ends(p)
           \/ "group" \in Outcomes(p, l.command) /\ GroupEnds
           \/ "prompt" \in Outcomes(p, l.command) /\ Goes(p, "run")

ProgramEnds(p) == At(p, "program") /\ Ends(p)

\* The handler is called
Killed(p) == p \in signalled /\ Ends(p)

Code(p) ==
  \/ \E c \in Procs : ForkChild(p, c) \/ ForkCopy(p, c)
  \/ ForkFails(p) \/ ForkCopyFails(p) \/ Wait(p) \/ Refused(p) \/ GoOn(p)
  \/ Run(p) \/ RunCopy(p) \/ Killed(p)

Next == \E p \in Procs : ReadLine(p) \/ ReadEnds(p) \/ Code(p) \/ ProgramEnds(p)

Spec == Init /\ [][Next]_vars

-----------------------------------------------------------------------------
(* Properties *)

IsShell(p) == proc[p].state \in Loop
Started == {p \in Procs : proc[p].state # "unused"}

\* Every variable has its type; only armed processes in the shell's code are
\* ended by SIGCHLD (assignment3.c:233).
TypeOK ==
  /\ proc \in [Procs -> Process]
  /\ signalled \subseteq {p \in Procs : Shot(p)}

\* However deep the shells are nested, one of them reads the terminal, as long as
\* no line in the background was forked (assignment3.c:155, 183-188, 262-264).
OneReader ==
  (\A p \in Started : ~proc[p].below) =>
    \A p, q \in Procs : proc[p].state = "prompt" /\ proc[q].state = "prompt" => p = q

\* exit is refused by the copies of lines in the background and by the shells
\* below them, for ever, and by no other shell, whatever runs in the background:
\* remainingJobs counts the forks above a shell (assignment3.c:146-153, 185, 236).
RefusesExitInCopies ==
  \A p \in Procs : IsShell(p) => (proc[p].remainingJobs > 0 <=> proc[p].below)

\* A shell that has executed a line in the background never returns from a wait
\* for a child: the child's end is its own (assignment3.c:233, 262-264).
ArmedNeverReturns ==
  [][\A p \in Procs : proc[p].armed /\ At(p, "wait") /\ proc[p].waits # NoProc
                        => proc'[p].state # "prompt"]_vars
=============================================================================
