----------------------------- MODULE TaskShell -----------------------------
(***************************************************************************)
(* The background-task table of n.c: main()'s command loop, the SIGCHLD    *)
(* handler that shares tasks[] and totalTasks with it, and the children    *)
(* that may terminate at any moment.                                       *)
(*                                                                         *)
(* One action is one C statement of main() that touches shared state.  A   *)
(* signal is taken between two statements, and between the load and the    *)
(* store of `totalTasks = totalTasks +- 1` on the volatile counter.  The   *)
(* handler runs on main's stack: while it is active main is suspended, and *)
(* SIGCHLD is blocked, so it never nests.  Children run on.                *)
(*                                                                         *)
(* The command history (commandsList) is the module CommandsList.  A line  *)
(* is reduced to the branch it takes: a pipeline, `kill`, `exit`, `!`, or  *)
(* any other command, with or without a trailing &.                        *)
(***************************************************************************)
EXTENDS Integers, FiniteSets

CONSTANTS
  Pids,      \* the process ids fork() hands out in a run, each at most once
  NoPid,     \* what a slot of the zero-initialised table holds
  Failed,    \* -1, what fork() returns when it fails
  KillChar,  \* the pid that equals *VarList[0] of "kill", the character 'k'
  MaxTasks   \* the length of tasks[], 10 in the code

ASSUME PidAssumption == NoPid \notin Pids /\ Failed \notin Pids \cup {NoPid}
ASSUME FinitePids == IsFiniteSet(Pids)
ASSUME MaxTasksAssumption == MaxTasks \in Nat \ {0}

VARIABLES
  pc,          \* the statement main() executes next
  bg,          \* boolBackground of the current command
  cur,         \* the pid main() got from its last fork()
  target,      \* history: the task the current `kill` names by its local id
  ki, kj,      \* loop variables i and j of the kill builtin
  reg,         \* the value loaded by an increment or a decrement
  taskPid,     \* tasks[].pid
  taskId,      \* tasks[].Local_ID
  totalTasks,
  hpc,         \* "idle", or "scan" while signal_handler runs
  hi, hpid,    \* i and child_id of signal_handler
  h0,          \* history: totalTasks when the handler was entered
  proc,        \* the kernel's view of each process
  role,        \* history: what the shell forked each process for
  sigchld,     \* SIGCHLD is pending (pending signals do not queue)
  installed,   \* signal(SIGCHLD, signal_handler) has been called
  lost         \* history: terminations that left no pending SIGCHLD of their own

mainVars == <<pc, bg, cur, target, ki, kj, reg>>
tableVars == <<taskPid, taskId, totalTasks>>
handlerVars == <<hpc, hi, hpid, h0>>
kernelVars == <<proc, role, sigchld, installed, lost>>
vars == <<mainVars, tableVars, handlerVars, kernelVars>>

Slots == 0 .. MaxTasks - 1

\* By the exit builtin, by exit(1) for want of a pipe, or by undefined behaviour,
\* after which nothing more is said
Stopped == {"exited", "failed", "crashed"}
KillLoop == {"k_test", "k_cmp", "k_kill", "k_shift", "k_load", "k_store"}
Recording == {"rec_pid", "rec_id", "inc_load", "inc_store", "install"}
Labels == {"prompt", "pipe1", "pipe2", "fork", "wait"}
             \cup KillLoop \cup Recording \cup Stopped

Running(p) == proc[p] = "running"
Zombies == {p \in Pids : proc[p] = "zombie"}

Init ==
  /\ pc = "prompt" /\ bg = FALSE /\ cur = NoPid /\ target = NoPid
  /\ ki = 0 /\ kj = 0 /\ reg = 0
  /\ taskPid = [s \in Slots |-> NoPid]
  /\ taskId = [s \in Slots |-> 0]
  /\ totalTasks = 0
  /\ hpc = "idle" /\ hi = 0 /\ hpid = NoPid /\ h0 = 0
  /\ proc = [p \in Pids |-> "unused"]
  /\ role = [p \in Pids |-> "none"]
  /\ sigchld = FALSE /\ installed = FALSE /\ lost = 0

-----------------------------------------------------------------------------
(* Helpers *)

\* a[s] = v of a C array; a store outside the array changes no slot
Put(a, s, v) == [t \in Slots |-> IF t = s THEN v ELSE a[t]]

\* Main goes on after a store to slot s.  A store outside tasks[] is undefined:
\* it hits nothing that is modelled, or nothing can be said from there on
AfterStore(s, next) == pc' \in IF s \in Slots THEN {next} ELSE {next, "crashed"}

\* for (j = from; j < n - 1; j++) a[j] = a[j + 1]
ShiftDown(a, from, n) ==
  [t \in Slots |-> IF from <= t /\ t < n - 1 THEN a[t + 1] ELSE a[t]]

\* Children terminate: they are zombies, and one SIGCHLD is pending for all of
\* them and for those before them, unless it is still ignored
Terminate(victims) ==
  /\ proc' = [p \in Pids |-> IF p \in victims THEN "zombie" ELSE proc[p]]
  /\ sigchld' = (sigchld \/ (installed /\ victims # {}))
  /\ lost' = lost + Cardinality(victims) - (IF sigchld' /\ ~sigchld THEN 1 ELSE 0)

\* Main runs only while the handler does not
MainAt(label) == pc = label /\ hpc = "idle"

-----------------------------------------------------------------------------
(* Reading a command line *)

\* Mutant of Accepts: the limit is tested one too high
AcceptsOneMore(b) == ~b \/ totalTasks <= MaxTasks

\* boolBackground == 0 || totalTasks <= 9
Accepts(b) == ~b \/ totalTasks <= MaxTasks - 1

ReadCommand(b, next) ==
  /\ MainAt("prompt")
  /\ Accepts(b)
  /\ bg' = b
  /\ pc' = next
  /\ UNCHANGED <<cur, kj, reg, tableVars, handlerVars, kernelVars>>

\* Any command that is not tested for, and the builtins tasks, cd, help and
\* commandsList: after their own output they are forked and exec'ed as well
ReadOther(b) == ReadCommand(b, "fork") /\ UNCHANGED <<target, ki>>

\* kill with the local id of task i, or with an argument that names no task
ReadKill(b) ==
  /\ ReadCommand(b, "k_test")
  /\ ki' = 0
  /\ \/ target' = NoPid
     \/ \E i \in Slots : i < totalTasks /\ taskPid[i] \in Pids /\ target' = taskPid[i]

ReadExit(b) ==
  /\ ReadCommand(b, IF totalTasks = 0 THEN "exited" ELSE "prompt")
  /\ UNCHANGED <<target, ki>>

\* "!" alone is the only line the test matches; it uses commandsList[-1],
\* which is undefined: the shell dies, or nothing is executed and it goes on
ReadBang(b) ==
  /\ \E next \in {"crashed", "fork"} : ReadCommand(b, next)
  /\ UNCHANGED <<target, ki>>

\* "task limit exceeded!"
ReadRefused ==
  /\ MainAt("prompt")
  /\ ~Accepts(TRUE)
  /\ bg' = TRUE
  /\ UNCHANGED <<pc, cur, target, ki, kj, reg, tableVars, handlerVars, kernelVars>>

\* A line parse() rejects, or one with no command: NULL is dereferenced
ReadBad ==
  /\ MainAt("prompt")
  /\ pc' = "crashed"
  /\ UNCHANGED <<bg, cur, target, ki, kj, reg, tableVars, handlerVars, kernelVars>>

\* A pipeline takes its own branch whatever bg and totalTasks are; the shell
\* exits if the pipe cannot be created
ReadPipeline(b) ==
  /\ MainAt("prompt")
  /\ bg' = b
  /\ pc' \in {"pipe1", "failed"}
  /\ UNCHANGED <<cur, target, ki, kj, reg, tableVars, handlerVars, kernelVars>>

Read ==
  \/ \E b \in BOOLEAN : \/ ReadOther(b) \/ ReadKill(b) \/ ReadExit(b)
                        \/ ReadBang(b) \/ ReadPipeline(b)
  \/ ReadRefused
  \/ ReadBad

-----------------------------------------------------------------------------
(* Starting processes *)

\* fork(): the child runs p's program; if exec fails the child becomes a
\* nested shell, which is a running process like any other to this one
Spawn(p, r) ==
  /\ proc[p] = "unused"
  /\ proc' = [proc EXCEPT ![p] = "running"]
  /\ role' = [role EXCEPT ![p] = r]
  /\ UNCHANGED <<sigchld, installed, lost>>

\* The two children of a pipeline, for which main does not wait.  A fork that
\* fails is not noticed
ForkStage(label, next) ==
  /\ MainAt(label)
  /\ (\E p \in Pids : Spawn(p, "pipe")) \/ UNCHANGED kernelVars
  /\ pc' = next
  /\ UNCHANGED <<bg, cur, target, ki, kj, reg, tableVars, handlerVars>>

ForkFront == ForkStage("pipe1", "pipe2")
ForkExit == ForkStage("pipe2", "prompt")

\* A fork that fails is not noticed either: -1 is recorded, or waited for
ForkCommand ==
  /\ MainAt("fork")
  /\ \/ \E p \in Pids : Spawn(p, IF bg THEN "bg" ELSE "fg") /\ cur' = p
     \/ cur' = Failed /\ UNCHANGED kernelVars
  /\ pc' = IF bg THEN "rec_pid" ELSE "wait"
  /\ UNCHANGED <<bg, target, ki, kj, reg, tableVars, handlerVars>>

\* Mutants of WaitForeground: wait(NULL), which reaps any child, and a wait
\* that takes ECHILD for "not yet terminated"
WaitAnyChild ==
  /\ MainAt("wait")
  /\ \E p \in Zombies : proc' = [proc EXCEPT ![p] = "reaped"]
  /\ pc' = "prompt"
  /\ UNCHANGED <<bg, cur, target, ki, kj, reg, tableVars, handlerVars, role, sigchld, installed, lost>>

WaitIgnoringEchild ==
  /\ MainAt("wait")
  /\ cur # Failed /\ proc[cur] = "zombie"
  /\ proc' = [proc EXCEPT ![cur] = "reaped"]
  /\ pc' = "prompt"
  /\ UNCHANGED <<bg, cur, target, ki, kj, reg, tableVars, handlerVars, role, sigchld, installed, lost>>

\* waitpid(pid, NULL, 0): returns when the child is a zombie, which it reaps,
\* or with ECHILD when the handler has reaped it already
WaitForeground ==
  /\ MainAt("wait")
  /\ cur # Failed /\ ~Running(cur)
  /\ proc' = [proc EXCEPT ![cur] = "reaped"]
  /\ pc' = "prompt"
  /\ UNCHANGED <<bg, cur, target, ki, kj, reg, tableVars, handlerVars, role, sigchld, installed, lost>>

\* waitpid(-1, NULL, 0) after a fork that failed: any child will do
WaitForAny ==
  /\ MainAt("wait")
  /\ cur = Failed
  /\ \/ \E p \in Zombies : proc' = [proc EXCEPT ![p] = "reaped"]
     \/ (\A p \in Pids : proc[p] \in {"unused", "reaped"}) /\ UNCHANGED proc
  /\ pc' = "prompt"
  /\ UNCHANGED <<bg, cur, target, ki, kj, reg, tableVars, handlerVars, role, sigchld, installed, lost>>

-----------------------------------------------------------------------------
(* Recording a background task *)

\* Mutant of RecordPid: the slot after the first free one
RecordPidOneUp ==
  /\ MainAt("rec_pid")
  /\ taskPid' = Put(taskPid, totalTasks + 1, cur)
  /\ AfterStore(totalTasks + 1, "rec_id")
  /\ UNCHANGED <<bg, cur, target, ki, kj, reg, taskId, totalTasks, handlerVars, kernelVars>>

\* tasks[totalTasks].pid = pid, where the counter may be -1
RecordPid ==
  /\ MainAt("rec_pid")
  /\ taskPid' = Put(taskPid, totalTasks, cur)
  /\ AfterStore(totalTasks, "rec_id")
  /\ UNCHANGED <<bg, cur, target, ki, kj, reg, taskId, totalTasks, handlerVars, kernelVars>>

\* tasks[totalTasks].Local_ID = totalTasks
RecordId ==
  /\ MainAt("rec_id")
  /\ taskId' = Put(taskId, totalTasks, totalTasks)
  /\ AfterStore(totalTasks, "inc_load")
  /\ UNCHANGED <<bg, cur, target, ki, kj, reg, taskPid, totalTasks, handlerVars, kernelVars>>

\* totalTasks = totalTasks + 1
IncLoad ==
  /\ MainAt("inc_load")
  /\ reg' = totalTasks
  /\ pc' = "inc_store"
  /\ UNCHANGED <<bg, cur, target, ki, kj, tableVars, handlerVars, kernelVars>>

IncStore ==
  /\ MainAt("inc_store")
  /\ totalTasks' = reg + 1
  /\ pc' = "install"
  /\ UNCHANGED <<bg, cur, target, ki, kj, reg, taskPid, taskId, handlerVars, kernelVars>>

\* signal(SIGCHLD, signal_handler)
Install ==
  /\ MainAt("install")
  /\ installed' = TRUE
  /\ pc' = "prompt"
  /\ UNCHANGED <<bg, cur, target, ki, kj, reg, tableVars, handlerVars, proc, role, sigchld, lost>>

-----------------------------------------------------------------------------
(* The kill builtin: for (i = 0; i < totalTasks; i++) *)

KillTest ==
  /\ MainAt("k_test")
  /\ IF ki < totalTasks
       THEN pc' = "k_cmp" /\ UNCHANGED target
       ELSE pc' = "fork" /\ target' = NoPid
  /\ UNCHANGED <<bg, cur, ki, kj, reg, tableVars, handlerVars, kernelVars>>

\* tasks[i].pid == *VarList[0]: a pid against the first character of "kill"
KillCompare ==
  /\ MainAt("k_cmp")
  /\ pc' = IF taskPid[ki] = KillChar THEN "k_kill" ELSE "k_load"
  /\ UNCHANGED <<bg, cur, target, ki, kj, reg, tableVars, handlerVars, kernelVars>>

\* kill(tasks[i].pid, SIGKILL), which reads the slot a second time; -1 stands
\* for all processes but the shell
KillSignal ==
  /\ MainAt("k_kill")
  /\ Terminate({p \in Pids : Running(p) /\ taskPid[ki] \in {p, Failed}})
  /\ kj' = ki
  /\ pc' = "k_shift"
  /\ UNCHANGED <<bg, cur, target, ki, reg, tableVars, handlerVars, role, installed>>

\* One iteration of for (j = i; j < totalTasks - 1; j++) tasks[j] = tasks[j + 1]
KillShift ==
  /\ MainAt("k_shift")
  /\ IF kj < totalTasks - 1
       THEN /\ taskPid' = Put(taskPid, kj, taskPid[kj + 1])
            /\ taskId' = Put(taskId, kj, taskId[kj + 1])
            /\ kj' = kj + 1
            /\ UNCHANGED pc
       ELSE pc' = "k_load" /\ UNCHANGED <<taskPid, taskId, kj>>
  /\ UNCHANGED <<bg, cur, target, ki, reg, totalTasks, handlerVars, kernelVars>>

\* totalTasks = totalTasks - 1, whether or not the slot matched
KillLoad ==
  /\ MainAt("k_load")
  /\ reg' = totalTasks
  /\ pc' = "k_store"
  /\ UNCHANGED <<bg, cur, target, ki, kj, tableVars, handlerVars, kernelVars>>

KillStore ==
  /\ MainAt("k_store")
  /\ totalTasks' = reg - 1
  /\ ki' = ki + 1
  /\ pc' = "k_test"
  /\ UNCHANGED <<bg, cur, target, kj, reg, taskPid, taskId, handlerVars, kernelVars>>

-----------------------------------------------------------------------------
(* signal_handler *)

\* Mutant of HandlerEnter: only a child that is in the table is waited for
HandlerWaitsForListed ==
  /\ installed /\ sigchld
  /\ hpc = "idle"
  /\ pc \notin Stopped
  /\ sigchld' = FALSE
  /\ LET listed == {p \in Zombies : \E s \in Slots : taskPid[s] = p}
     IN \/ listed = {} /\ UNCHANGED <<proc, handlerVars>>
        \/ \E p \in listed :
             /\ proc' = [proc EXCEPT ![p] = "reaped"]
             /\ hpc' = "scan" /\ hi' = 0 /\ hpid' = p /\ h0' = totalTasks
  /\ UNCHANGED <<mainVars, tableVars, role, installed, lost>>

\* Delivery of SIGCHLD and waitpid(-1, &status, WNOHANG): at most one zombie
\* is reaped, whichever child it is and however many signals were merged
HandlerEnter ==
  /\ installed /\ sigchld
  /\ hpc = "idle"
  /\ pc \notin Stopped
  /\ sigchld' = FALSE
  /\ \/ /\ Zombies = {}
        /\ UNCHANGED <<proc, handlerVars>>
     \/ \E p \in Zombies :
          /\ proc' = [proc EXCEPT ![p] = "reaped"]
          /\ hpc' = "scan" /\ hi' = 0 /\ hpid' = p /\ h0' = totalTasks
  /\ UNCHANGED <<mainVars, tableVars, role, installed, lost>>

\* Mutant of HandlerScan: the decrement moved into the test
HandlerScanMatchOnly ==
  /\ hpc = "scan"
  /\ hi < totalTasks
  /\ IF taskPid[hi] = hpid
       THEN /\ taskPid' = ShiftDown(taskPid, hi, totalTasks)
            /\ taskId' = ShiftDown(taskId, hi, totalTasks)
            /\ totalTasks' = totalTasks - 1
       ELSE UNCHANGED tableVars
  /\ hi' = hi + 1
  /\ UNCHANGED <<mainVars, hpc, hpid, h0, kernelVars>>

\* One iteration: the shift depends on the match, the decrement does not
HandlerScan ==
  /\ hpc = "scan"
  /\ hi < totalTasks
  /\ IF taskPid[hi] = hpid
       THEN /\ taskPid' = ShiftDown(taskPid, hi, totalTasks)
            /\ taskId' = ShiftDown(taskId, hi, totalTasks)
       ELSE UNCHANGED <<taskPid, taskId>>
  /\ totalTasks' = totalTasks - 1
  /\ hi' = hi + 1
  /\ UNCHANGED <<mainVars, hpc, hpid, h0, kernelVars>>

HandlerReturn ==
  /\ hpc = "scan"
  /\ hi >= totalTasks
  /\ hpc' = "idle" /\ hi' = 0 /\ hpid' = NoPid /\ h0' = 0
  /\ UNCHANGED <<mainVars, tableVars, kernelVars>>

-----------------------------------------------------------------------------
(* A child terminates on its own, or is killed from outside *)
ChildExit(p) ==
  /\ Running(p)
  /\ Terminate({p})
  /\ UNCHANGED <<mainVars, tableVars, handlerVars, role, installed>>

Main ==
  \/ ForkFront \/ ForkExit \/ ForkCommand \/ WaitForeground \/ WaitForAny
  \/ RecordPid \/ RecordId \/ IncLoad \/ IncStore \/ Install
  \/ KillTest \/ KillCompare \/ KillSignal \/ KillShift \/ KillLoad \/ KillStore

Handler == HandlerEnter \/ HandlerScan \/ HandlerReturn

Next == Read \/ Main \/ Handler \/ \E p \in Pids : ChildExit(p)

\* The shell keeps running, and a deliverable signal is delivered.  Nothing
\* obliges the user to type or a program to terminate.
Fairness == WF_vars(Main) /\ WF_vars(Handler)

Spec == Init /\ [][Next]_vars
FairSpec == Spec /\ Fairness

-----------------------------------------------------------------------------
(* Properties *)

\* Every variable has its type.  The counter stays within the table on the
\* upper side (n.c:135 admits a background command only below the limit, and
\* nothing between that test and the increment raises it); on the lower side
\* the kill loop, interrupted after its test, takes it to -1 but never further,
\* and from -1 the next background command stores before the table (n.c:244).
TypeOK ==
  /\ pc \in Labels /\ bg \in BOOLEAN
  /\ cur \in Pids \cup {NoPid, Failed} /\ target \in Pids \cup {NoPid}
  /\ ki \in Nat /\ kj \in Nat /\ reg \in -1 .. MaxTasks
  /\ taskPid \in [Slots -> Pids \cup {NoPid, Failed}]
  /\ taskId \in [Slots -> -1 .. MaxTasks]
  /\ totalTasks \in -1 .. MaxTasks
  /\ hpc \in {"idle", "scan"}
  /\ hi \in Nat /\ hpid \in Pids \cup {NoPid} /\ h0 \in -1 .. MaxTasks
  /\ proc \in [Pids -> {"unused", "running", "zombie", "reaped"}]
  /\ role \in [Pids -> {"none", "fg", "bg", "pipe"}]
  /\ sigchld \in BOOLEAN /\ installed \in BOOLEAN /\ lost \in Nat

\* What main() records: a background child, or the -1 of a fork that failed
Background(p) == p = Failed \/ (p \in Pids /\ role[p] = "bg")

\* The first totalTasks slots hold what was recorded for background commands: no
\* foreground or pipeline child and no slot that was never written is listed,
\* although a stale load of the counter can bring discarded slots back (n.c:244).
ListedTasksAreBackground ==
  \A s \in Slots : s < totalTasks => Background(taskPid[s])

\* Whenever main is not blocked in waitpid(pid) no foreground program is alive
\* or unreaped, whoever reaped it: the handler may take the child first (n.c:251).
ForegroundFinished ==
  \A p \in Pids : role[p] = "fg" /\ proc[p] # "reaped" => pc = "wait" /\ cur = p

\* A child stays a zombie only if its SIGCHLD is pending, was merged with another
\* one or came before the handler was installed: the handler leaves as many
\* children behind as it got signals too few, and no more, although it and the
\* waits of main take each other's children (n.c:21, 191, 251).
ZombiesAccounted == Cardinality(Zombies) <= lost + (IF sigchld THEN 1 ELSE 0)

\* One run of the handler leaves exactly half of the counted tasks, rounded
\* down: the loop bound shrinks as the index grows (n.c:24-36).
HandlerHalves ==
  [][HandlerReturn => totalTasks = IF h0 < 0 THEN h0 ELSE h0 \div 2]_vars

\* Once the foreground program has terminated the prompt comes back, also when
\* the handler reaped it before waitpid(pid) did; if its fork failed, once any
\* child has terminated or none is left (n.c:249-252).
ForegroundReturns ==
  pc = "wait" /\ (IF cur = Failed THEN \A p \in Pids : ~Running(p) ELSE ~Running(cur))
    ~> pc = "prompt"

-----------------------------------------------------------------------------
(* What the builtins' help text claims; both claims fail *)

\* "exit - terminates the shell only if there are no background tasks" (n.c:199):
\* the exit builtin (n.c:214-221) leaves no background command running.
ExitOnlyWithoutTasks ==
  pc = "exited" => \A p \in Pids : role[p] = "bg" => ~Running(p)

\* "kill PID - terminates the background process identified locally with PID in
\* the tasks list" (n.c:201)
KillTerminatesTarget ==
  [][pc = "k_test" /\ pc' = "fork" /\ target # NoPid => ~Running(target)]_vars
=============================================================================
