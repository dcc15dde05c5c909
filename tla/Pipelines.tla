------------------------------ MODULE Pipelines ----------------------------
(***************************************************************************)
(* How the shells start a pipeline: fork_pipes() and spawn_proc() of       *)
(* cmdline.c (new.c and maha.c have the same text, shell.c inlines it),    *)
(* and the branch for pipes in main() of n.c.                              *)
(*                                                                         *)
(* In cmdline.c process 1 is the child the shell waits for: it forks one   *)
(* child per pipe and becomes the last command itself.  In n.c process 1   *)
(* is the shell, which forks two children and waits for neither.           *)
(*                                                                         *)
(* A descriptor is a pipe end: dup2 and close move and drop ends.  "nosuch"*)
(* is a command whose exec fails.                                          *)
(***************************************************************************)
EXTENDS PipeKernel

CONSTANTS
  Shells,      \* which code starts the pipeline
  PipeNums,    \* numbers of pipes: without one neither code is reached
  Commands     \* what a command may be: programs other than "reader", "nosuch"

ASSUME ShellsAssumption == Shells \subseteq {"cmdline", "n"}
ASSUME PipeNumsAssumption == PipeNums \subseteq Nat \ {0}
ASSUME CommandsAssumption == Commands \subseteq (Programs \ {"reader"}) \cup {"nosuch"}

VARIABLES
  shell,   \* the code that runs: an element of Shells
  scarce,  \* whether the system is short of processes or descriptors in the
           \* run: only then fork(), and n.c's pipe(), may fail
  cmd,     \* the commands of the pipeline, from 1
  pc,      \* of each process in state "code": the statement it executes next
  i,       \* fork_pipes: the loop variable, from 1
  in,      \* fork_pipes: the read end kept from the last iteration, or 0
  fd       \* the pipe created last, fd or pd

codeVars == <<pc, i, in, fd>>
vars == <<kernelVars, shell, scarce, cmd, codeVars>>

n == Cardinality(DOMAIN cmd) - 1   \* pipeNum

\* The first command does not read: it would read the terminal
Init ==
  /\ KernelInit
  /\ shell \in Shells /\ scarce \in BOOLEAN
  /\ \E pipes \in PipeNums : cmd \in [1 .. pipes + 1 -> Commands]
  /\ cmd[1] \in {"source", "nosuch"}
  /\ pc = [q \in Procs |-> IF q = 1 THEN "pipe" ELSE "none"]
  /\ i = [q \in Procs |-> 1]
  /\ in = [q \in Procs |-> 0] /\ fd = [q \in Procs |-> 0]

At(q, label) == state[q] = "code" /\ pc[q] = label
Goto(q, label) == pc' = [pc EXCEPT ![q] = label]

Unexecutable(k) == cmd[k] = "nosuch"

-----------------------------------------------------------------------------
(* fork_pipes and spawn_proc of cmdline.c *)

\* for i from 0 to n - 1
MorePipes(q) == i[q] <= n

\* pipe(fd); MaxPipes bounds the pipes of a run
CreatePipe(q) ==
  /\ At(q, "pipe") /\ shell = "cmdline" /\ MorePipes(q) /\ made < MaxPipes
  /\ made' = made + 1
  /\ fds' = [fds EXCEPT ![q] = @ \cup {<<"r", made + 1>>, <<"w", made + 1>>}]
  /\ fd' = [fd EXCEPT ![q] = made + 1]
  /\ Goto(q, "spawn")
  /\ UNCHANGED <<state, program, stdin, stdout, left, hold, buf, put, shell, scarce, cmd, i, in>>

\* A fork() that returns -1 makes no child; the caller goes on
NoFork == scarce /\ UNCHANGED <<state, stdin, stdout, fds>>

\* fork() of spawn_proc: the child goes on inside spawn_proc.  fork_pipes does
\* not look at what spawn_proc returns
Spawn(q) ==
  /\ At(q, "spawn")
  /\ \/ \E c \in Procs :
          /\ Fork(q, c)
          /\ pc' = [pc EXCEPT ![q] = "close", ![c] = "child"]
          /\ i' = [i EXCEPT ![c] = i[q]] /\ in' = [in EXCEPT ![c] = in[q]]
          /\ fd' = [fd EXCEPT ![c] = fd[q]]
     \/ NoFork /\ Goto(q, "close") /\ UNCHANGED <<i, in, fd>>
  /\ UNCHANGED <<progVars, buf, made, put, shell, scarce, cmd>>

\* The child's stdin becomes infile and its stdout outfile, which are closed
Redirected(q) ==
  /\ stdin' = [stdin EXCEPT ![q] = IF in[q] = 0 THEN @ ELSE in[q]]
  /\ stdout' = [stdout EXCEPT ![q] = fd[q]]
  /\ fds' = [fds EXCEPT ![q] = @ \ {<<"r", in[q]>>, <<"w", fd[q]>>}]

\* Mutants of ExecStage: outfile is closed but not duplicated; a child that
\* cannot exec exits; the child closes the read end of its own pipe
ExecStageNoDup(q) ==
  /\ At(q, "child")
  /\ stdin' = [stdin EXCEPT ![q] = IF in[q] = 0 THEN @ ELSE in[q]]
  /\ fds' = [fds EXCEPT ![q] = @ \ {<<"r", in[q]>>, <<"w", fd[q]>>}]
  /\ IF Unexecutable(i[q])
       THEN Goto(q, "close") /\ UNCHANGED <<state, progVars>>
       ELSE Load(q, cmd[i[q]]) /\ Goto(q, "none")
  /\ UNCHANGED <<stdout, buf, made, put, shell, scarce, cmd, i, in, fd>>

ExecStageOrExit(q) ==
  /\ At(q, "child")
  /\ Redirected(q)
  /\ IF Unexecutable(i[q])
       THEN state' = [state EXCEPT ![q] = "exited"] /\ UNCHANGED progVars
       ELSE Load(q, cmd[i[q]])
  /\ Goto(q, "none")
  /\ UNCHANGED <<buf, made, put, shell, scarce, cmd, i, in, fd>>

ExecStageClosing(q) ==
  /\ At(q, "child")
  /\ stdin' = [stdin EXCEPT ![q] = IF in[q] = 0 THEN @ ELSE in[q]]
  /\ stdout' = [stdout EXCEPT ![q] = fd[q]]
  /\ fds' = [fds EXCEPT ![q] = @ \ {<<"r", in[q]>>, <<"r", fd[q]>>, <<"w", fd[q]>>}]
  /\ IF Unexecutable(i[q])
       THEN Goto(q, "close") /\ UNCHANGED <<state, progVars>>
       ELSE Load(q, cmd[i[q]]) /\ Goto(q, "none")
  /\ UNCHANGED <<buf, made, put, shell, scarce, cmd, i, in, fd>>

\* execvp in the child.  When it fails, spawn_proc returns -1 in the child,
\* which goes on in the loop of fork_pipes as a second copy of its parent
ExecStage(q) ==
  /\ At(q, "child")
  /\ Redirected(q)
  /\ IF Unexecutable(i[q])
       THEN Goto(q, "close") /\ UNCHANGED <<state, progVars>>
       ELSE Load(q, cmd[i[q]]) /\ Goto(q, "none")
  /\ UNCHANGED <<buf, made, put, shell, scarce, cmd, i, in, fd>>

\* Mutant of CloseWriteEnd: the write end stays open
CloseNothing(q) ==
  /\ At(q, "close")
  /\ in' = [in EXCEPT ![q] = fd[q]]
  /\ i' = [i EXCEPT ![q] = @ + 1]
  /\ Goto(q, "pipe")
  /\ UNCHANGED <<kernelVars, shell, scarce, cmd, fd>>

\* close(fd[1]); in = fd[0]: the previous read end stays open
CloseWriteEnd(q) ==
  /\ At(q, "close")
  /\ fds' = [fds EXCEPT ![q] = @ \ {<<"w", fd[q]>>}]
  /\ in' = [in EXCEPT ![q] = fd[q]]
  /\ i' = [i EXCEPT ![q] = @ + 1]
  /\ Goto(q, "pipe")
  /\ UNCHANGED <<state, program, stdin, stdout, left, hold, buf, made, put, shell, scarce, cmd, fd>>

\* The last command.  When its exec fails, fork_pipes returns into main(),
\* which reads its next command line from what is now the pipe
ExecLast(q) ==
  /\ At(q, "pipe") /\ shell = "cmdline" /\ ~MorePipes(q)
  /\ stdin' = [stdin EXCEPT ![q] = in[q]]
  /\ Load(q, IF Unexecutable(n + 1) THEN "reader" ELSE cmd[n + 1])
  /\ Goto(q, "none")
  /\ UNCHANGED <<stdout, fds, buf, made, put, shell, scarce, cmd, i, in, fd>>

-----------------------------------------------------------------------------
(* The pipe branch of main() in n.c *)

\* pipe(pd), which may fail: then the shell exits.  Only the first two commands
\* are looked at
CreatePd ==
  /\ At(1, "pipe") /\ shell = "n"
  /\ \/ /\ made' = 1
        /\ fds' = [fds EXCEPT ![1] = {<<"r", 1>>, <<"w", 1>>}]
        /\ fd' = [fd EXCEPT ![1] = 1]
        /\ Goto(1, "front") /\ UNCHANGED state
     \/ /\ scarce
        /\ state' = [state EXCEPT ![1] = "exited"]
        /\ Goto(1, "none") /\ UNCHANGED <<made, fds, fd>>
  /\ UNCHANGED <<program, stdin, stdout, left, hold, buf, put, shell, scarce, cmd, i, in>>

ForkStage(label, next, child) ==
  /\ At(1, label)
  /\ \/ \E c \in Procs :
          /\ Fork(1, c)
          /\ pc' = [pc EXCEPT ![1] = next, ![c] = child]
          /\ fd' = [fd EXCEPT ![c] = fd[1]]
     \/ NoFork /\ Goto(1, next) /\ UNCHANGED fd
  /\ UNCHANGED <<progVars, buf, made, put, shell, scarce, cmd, i, in>>

ForkFront == ForkStage("front", "exit", "frontchild")
ForkExit == ForkStage("exit", "closeboth", "exitchild")

\* Either child closes both ends of pd; if its exec fails it exits
ExecOrExit(q, k) ==
  /\ fds' = [fds EXCEPT ![q] = {}]
  /\ IF Unexecutable(k)
       THEN state' = [state EXCEPT ![q] = "exited"] /\ UNCHANGED progVars
       ELSE Load(q, cmd[k])
  /\ Goto(q, "none")
  /\ UNCHANGED <<buf, made, put, shell, scarce, cmd, i, in, fd>>

ExecFront(q) ==
  /\ At(q, "frontchild")
  /\ stdout' = [stdout EXCEPT ![q] = fd[q]]
  /\ ExecOrExit(q, 1)
  /\ UNCHANGED stdin

ExecExit(q) ==
  /\ At(q, "exitchild")
  /\ stdin' = [stdin EXCEPT ![q] = fd[q]]
  /\ ExecOrExit(q, 2)
  /\ UNCHANGED stdout

\* Mutant of CloseBoth: main keeps the write end
CloseReadEnd ==
  /\ At(1, "closeboth")
  /\ fds' = [fds EXCEPT ![1] = {<<"w", 1>>}]
  /\ Goto(1, "prompt")
  /\ UNCHANGED <<state, program, stdin, stdout, left, hold, buf, made, put,
                 shell, scarce, cmd, i, in, fd>>

CloseBoth ==
  /\ At(1, "closeboth")
  /\ fds' = [fds EXCEPT ![1] = {}]
  /\ Goto(1, "prompt")
  /\ UNCHANGED <<state, program, stdin, stdout, left, hold, buf, made, put,
                 shell, scarce, cmd, i, in, fd>>

-----------------------------------------------------------------------------

ForkPipes(q) ==
  CreatePipe(q) \/ Spawn(q) \/ ExecStage(q) \/ CloseWriteEnd(q) \/ ExecLast(q)

TwoStages(q) == ExecFront(q) \/ ExecExit(q)

Step(q) ==
  \/ ForkPipes(q) \/ TwoStages(q)
  \/ ProgramStep(q) /\ UNCHANGED <<shell, scarce, cmd, codeVars>>

Next ==
  \/ CreatePd \/ ForkFront \/ ForkExit \/ CloseBoth
  \/ \E q \in Procs : Step(q)

Spec == Init /\ [][Next]_vars

\* The shell's code and every process that can run are scheduled
Fairness ==
  /\ WF_vars(CreatePd \/ ForkFront \/ ForkExit \/ CloseBoth)
  /\ \A q \in Procs : WF_vars(Step(q))

FairSpec == Spec /\ Fairness

-----------------------------------------------------------------------------
(* Properties *)

\* Every variable has its type; the loop of fork_pipes stops after n iterations
\* in every copy of it (cmdline.c:122), and no pipe is written more data than a
\* source has, also where a copy closes the stages to a ring.
TypeOK ==
  /\ KernelTypeOK
  /\ i \in [Procs -> 1 .. n + 1]
  /\ in \in [Procs -> Outputs] /\ fd \in [Procs -> Outputs]

FailedStage == \E k \in 1 .. n : Unexecutable(k)
AllFilters == \A k \in 2 .. n + 1 : cmd[k] = "filter"

\* The shell of cmdline.c does not get its prompt back before every stage has
\* written all it has, when all stages are forked, run and read to the end
\* (cmdline.c:116-133).
PromptAfterLastDatum ==
  shell = "cmdline" /\ ~scarce /\ ~FailedStage /\ AllFilters /\ ~Alive(1) =>
    /\ put[0] = Items
    /\ \A q \in Procs : left[q] = 0 /\ hold[q] = 0

\* If a command cannot be executed and all after it read to the end of their
\* input, the last one never sees that end and the shell waits for ever: the copy
\* that goes on in fork_pipes keeps the write end as its stdout (cmdline.c:103,
\* 122-132).  A stage that is not even forked leaves no such copy.
FailedStageBlocksShell ==
  shell = "cmdline" /\ ~scarce
    /\ (\E k \in 1 .. n : Unexecutable(k) /\ \A j \in k + 1 .. n + 1 : cmd[j] = "filter")
  => Alive(1)

\* In cmdline.c no stage is ever told that nobody reads its output: each child
\* keeps the read end of its own pipe open (cmdline.c:91-103), so a producer
\* whose reader has gone blocks for good, and n.c closes it.
NoBrokenPipe == shell = "cmdline" => \A q \in Procs : state[q] # "sigpipe"

\* The shell of cmdline.c gets its prompt back when all commands can be executed,
\* also when a stage stops reading early or could not be forked (cmdline.c:89,
\* 116-133, 261).
ShellReturns == shell = "cmdline" /\ ~FailedStage ~> ~Alive(1)

\* Both stages that n.c starts come to an end whatever they are and also when only
\* one was forked, for its children and main close every end they do not use
\* (n.c:104-131).
BothStagesEnd == shell = "n" ~> \A q \in Procs \ {1} : ~Alive(q)

\* What a process can do alone: execute its command, or go on in its program
CanRun(q) ==
  \/ state[q] = "code" /\ pc[q] \in {"child", "frontchild", "exitchild"}
  \/ Wants(q) /\ ~Finished(q) /\ stdin[q] # 0 /\ (buf[stdin[q]] > 0 \/ ~HasWriter(stdin[q]))
  \/ HasDatum(q) /\ (stdout[q] = 0 \/ buf[stdout[q]] < Capacity \/ ~HasReader(stdout[q]))
  \/ Runs(q) /\ Finished(q) /\ hold[q] = 0

\* The stages never wait for each other in a ring: while the process the shell of
\* cmdline.c waits for runs its command, or a child of n.c is left, some stage can
\* go on, also when others block for good behind a reader that has gone, or were
\* never forked (cmdline.c:89-133, n.c:104-131).
NeverStuck ==
  /\ shell = "cmdline" /\ ~FailedStage /\ Runs(1) => \E q \in Procs : CanRun(q)
  /\ shell = "n" /\ pc[1] = "prompt" /\ (\E q \in Procs \ {1} : Alive(q))
       => \E q \in Procs \ {1} : CanRun(q)

\* A pipeline whose commands are all forked, run and read to the end is a relay of
\* their data:
\* between two stages nothing is lost, made up or overtaken, and a stage ends after
\* the one before it (cmdline.c:91-133, n.c:104-131).  n.c starts two stages only,
\* and the last one writes to the terminal.
Stages == IF shell = "n" THEN 2 ELSE n + 1
RunsThrough ==
  ~scarce /\ \A k \in 1 .. Stages : cmd[k] = IF k = 1 THEN "source" ELSE "filter"
OutputOf(k) == IF k = Stages THEN 0 ELSE k

Row == INSTANCE Relay WITH
          stages <- Stages,
          passed <- [k \in 1 .. Stages |->
                       IF RunsThrough /\ OutputOf(k) \in Outputs THEN put[OutputOf(k)] ELSE 0],
          ended <- {k \in 1 .. Stages : RunsThrough /\ \E q \in Procs :
                       state[q] \in Dead /\ stdout[q] = OutputOf(k)}

ImplementsRelay == Row!Spec
=============================================================================
