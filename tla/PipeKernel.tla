----------------------------- MODULE PipeKernel ----------------------------
(***************************************************************************)
(* What the pipelines of the shells rely on: processes with descriptors,   *)
(* bounded pipes, fork, exit, and the programs at the ends of the pipes.   *)
(* All of it is the operating system's, modelled from how the shells use   *)
(* it.  A datum is a token: only how many there are matters.               *)
(***************************************************************************)
EXTENDS Integers, FiniteSets

CONSTANTS
  MaxProcs,   \* processes of a run
  MaxPipes,   \* pipes of a run
  Capacity,   \* data a pipe holds
  Items       \* data a source writes

ASSUME KernelAssumption ==
  /\ MaxProcs \in Nat \ {0} /\ MaxPipes \in Nat \ {0}
  /\ Capacity \in Nat \ {0} /\ Items \in Nat \ {0}

VARIABLES
  state,      \* of each process: see States
  program,    \* what it runs after exec
  stdin,      \* a pipe, or 0 for the terminal
  stdout,
  fds,        \* the other descriptors: the ends <<"r", p>> and <<"w", p>>
  left,       \* data a source is still to write, or a head still to pass on
  hold,       \* data read and not written yet
  buf,        \* data in each pipe
  made,       \* pipes created so far
  put         \* history: data written so far to each pipe, and to the terminal, 0

kernelVars == <<state, program, stdin, stdout, fds, left, hold, buf, made, put>>
progVars == <<program, left, hold>>

Procs == 1 .. MaxProcs
Pipes == 1 .. MaxPipes
Outputs == Pipes \cup {0}

\* "code" runs the shell's own code, "prog" a program; the rest have ended
Dead == {"exited", "sigpipe"}
States == {"none", "code", "prog"} \cup Dead

\* A source writes Items data; a filter copies its input until its end; a head
\* copies one datum; "reader" is a shell that takes its input for command lines
Programs == {"source", "filter", "head", "reader"}

Alive(q) == state[q] \in {"code", "prog"}

HoldsWrite(q, p) == stdout[q] = p \/ <<"w", p>> \in fds[q]
HoldsRead(q, p) == stdin[q] = p \/ <<"r", p>> \in fds[q]
HasWriter(p) == \E q \in Procs : Alive(q) /\ HoldsWrite(q, p)
HasReader(p) == \E q \in Procs : Alive(q) /\ HoldsRead(q, p)

KernelInit ==
  /\ state = [q \in Procs |-> IF q = 1 THEN "code" ELSE "none"]
  /\ program = [q \in Procs |-> "none"]
  /\ stdin = [q \in Procs |-> 0] /\ stdout = [q \in Procs |-> 0]
  /\ fds = [q \in Procs |-> {}]
  /\ left = [q \in Procs |-> 0] /\ hold = [q \in Procs |-> 0]
  /\ buf = [p \in Pipes |-> 0]
  /\ made = 0 /\ put = [x \in Outputs |-> 0]

\* exec of a program: descriptors are kept
Load(q, prog) ==
  /\ state' = [state EXCEPT ![q] = "prog"]
  /\ program' = [program EXCEPT ![q] = prog]
  /\ left' = [left EXCEPT ![q] = CASE prog = "source" -> Items [] prog = "head" -> 1
                                   [] OTHER -> 0]
  /\ hold' = [hold EXCEPT ![q] = 0]

\* fork: the child c has a copy of everything q has
Fork(q, c) ==
  /\ state[c] = "none" /\ \A d \in Procs : d < c => state[d] # "none"
  /\ state' = [state EXCEPT ![c] = "code"]
  /\ stdin' = [stdin EXCEPT ![c] = stdin[q]]
  /\ stdout' = [stdout EXCEPT ![c] = stdout[q]]
  /\ fds' = [fds EXCEPT ![c] = fds[q]]

-----------------------------------------------------------------------------
(* What programs do *)

Runs(q) == state[q] = "prog"

End(q, how) ==
  /\ state' = [state EXCEPT ![q] = how]
  /\ UNCHANGED <<program, stdin, stdout, fds, left, hold, buf, made, put>>

Wants(q) == Runs(q) /\ program[q] # "source" /\ hold[q] = 0
Finished(q) == program[q] \in {"source", "head"} /\ left[q] = 0

Read(q) ==
  /\ Wants(q) /\ ~Finished(q)
  /\ stdin[q] # 0 /\ buf[stdin[q]] > 0
  /\ buf' = [buf EXCEPT ![stdin[q]] = @ - 1]
  /\ hold' = [hold EXCEPT ![q] = IF program[q] = "reader" THEN 0 ELSE 1]
  /\ UNCHANGED <<state, program, stdin, stdout, fds, left, made, put>>

ReadEnd(q) ==
  /\ Wants(q) /\ ~Finished(q)
  /\ stdin[q] # 0 /\ buf[stdin[q]] = 0 /\ ~HasWriter(stdin[q])
  /\ End(q, "exited")

HasDatum(q) ==
  Runs(q) /\ (hold[q] = 1 \/ (program[q] = "source" /\ left[q] > 0))

Write(q) ==
  /\ HasDatum(q)
  /\ \/ /\ stdout[q] = 0
        /\ UNCHANGED buf
     \/ /\ stdout[q] # 0 /\ buf[stdout[q]] < Capacity /\ HasReader(stdout[q])
        /\ buf' = [buf EXCEPT ![stdout[q]] = @ + 1]
  /\ put' = [put EXCEPT ![stdout[q]] = @ + 1]
  /\ hold' = [hold EXCEPT ![q] = 0]
  /\ left' = [left EXCEPT ![q] = IF program[q] = "filter" THEN @ ELSE @ - 1]
  /\ UNCHANGED <<state, program, stdin, stdout, fds, made>>

WriteBroken(q) ==
  /\ HasDatum(q)
  /\ stdout[q] # 0 /\ ~HasReader(stdout[q])
  /\ End(q, "sigpipe")

Finish(q) == Runs(q) /\ Finished(q) /\ hold[q] = 0 /\ End(q, "exited")

ProgramStep(q) == Read(q) \/ ReadEnd(q) \/ Write(q) \/ WriteBroken(q) \/ Finish(q)

KernelTypeOK ==
  /\ state \in [Procs -> States]
  /\ program \in [Procs -> Programs \cup {"none"}]
  /\ stdin \in [Procs -> Outputs] /\ stdout \in [Procs -> Outputs]
  /\ fds \in [Procs -> SUBSET ({"r", "w"} \X Pipes)]
  /\ left \in [Procs -> 0 .. Items] /\ hold \in [Procs -> {0, 1}]
  /\ buf \in [Pipes -> 0 .. Capacity]
  /\ made \in 0 .. MaxPipes /\ put \in [Outputs -> 0 .. Items]
=============================================================================
