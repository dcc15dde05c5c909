--------------------------- MODULE PipelinesProofs -------------------------
(***************************************************************************)
(* Theorems about Pipelines, for every number of commands, processes,      *)
(* pipes, data and every capacity of a pipe.                               *)
(*                                                                         *)
(* Every pipe has one process that writes to it (Distinct, Unclaimed), so  *)
(* a filter's count of what it has written and holds never passes what was *)
(* written to its input (Flow), also where the second copy of fork_pipes   *)
(* closes the data flow to a ring.  And every pipe that a process reads    *)
(* has a writer of the stage before, unless that one could not be forked   *)
(* (Fed, Unforked): after a stage that cannot be executed that writer is   *)
(* the copy, or a filter that waits for it, so no process that follows can *)
(* end first (Blocked).                                                    *)
(*                                                                         *)
(* Where every command can be executed (Straight) the processes form a row *)
(* (Shape) and nobody keeps a write end that is not its own (WriteEnds):   *)
(* of the stages that could write the first one can take a step.           *)
(*                                                                         *)
(* Where all are forked and read to the end (Clean) no datum is lost on    *)
(* the row (Conserved), and a stage ends after the ones before it          *)
(* (Drained).  With the same for n.c (Children, Passed) a pipeline of      *)
(* either program implements Relay.                                        *)
(***************************************************************************)
EXTENDS Pipelines, FiniteSetTheorems, TLAPS

Labels == {"none", "pipe", "spawn", "child", "close", "front", "exit", "closeboth", "prompt",
           "frontchild", "exitchild"}

\* The kinds of values, without the bounds that depend on how data flow
Kinds ==
  /\ shell \in {"cmdline", "n"} /\ scarce \in BOOLEAN /\ n \in Nat \ {0} /\ cmd \in [1 .. n + 1 -> Commands]
  /\ state \in [Procs -> States] /\ program \in [Procs -> Programs \cup {"none"}]
  /\ stdin \in [Procs -> Outputs] /\ stdout \in [Procs -> Outputs]
  /\ in \in [Procs -> Outputs] /\ fd \in [Procs -> Outputs]
  /\ fds \in [Procs -> SUBSET ({"r", "w"} \X Pipes)]
  /\ pc \in [Procs -> Labels] /\ i \in [Procs -> 1 .. n + 1]
  /\ made \in 0 .. MaxPipes

\* Where each process can be in the code: only the children of n.c and of
\* spawn_proc are about to execute a command
Control ==
  /\ state[1] # "none" /\ (shell = "n" => state[1] \in {"code", "exited"})
  /\ shell = "n" /\ ~scarce => state[1] = "code"
  /\ \A q \in Procs :
       /\ (state[q] = "code") = (pc[q] # "none")
       /\ shell = "cmdline" =>
            /\ pc[q] \in {"none", "pipe", "spawn", "close"} \/ (q # 1 /\ pc[q] = "child")
            /\ pc[q] \in {"spawn", "child", "close"} => i[q] <= n
       /\ shell = "n" =>
            pc[q] \in IF q = 1 THEN {"none", "pipe", "front", "exit", "closeboth", "prompt"}
                               ELSE {"none", "frontchild", "exitchild"}

\* What writes to a pipe or the terminal, or will when its exec succeeds; main()
\* of n.c does not
Writers == {q \in Procs : state[q] # "none" /\ ~(shell = "n" /\ q = 1)}

\* Where q writes to, once its redirection is done
Out(q) == IF pc[q] \in {"child", "frontchild"} THEN fd[q] ELSE stdout[q]

\* No pipe is used before it is made
Made == \A q \in Procs : stdout[q] <= made /\ in[q] <= made /\ fd[q] <= made

\* The ends a process of cmdline.c has: it always keeps the read end of its output
Ends ==
  shell = "cmdline" => \A q \in Procs :
    /\ pc[q] \in {"spawn", "child", "close"} => fd[q] # 0
    /\ pc[q] \in {"spawn", "child"} =>
         in[q] # fd[q] /\ <<"r", fd[q]>> \in fds[q] /\ <<"w", fd[q]>> \in fds[q]
    /\ Alive(q) /\ stdout[q] # 0 => <<"r", stdout[q]>> \in fds[q]
    /\ state[q] # "sigpipe"

\* What a process of cmdline.c that has executed runs
Loaded ==
  shell = "cmdline" => \A q \in Procs : state[q] \notin {"none", "code"} =>
    /\ q = 1 => i[q] = n + 1
    /\ i[q] <= n => ~Unexecutable(i[q])
    /\ i[q] > 1 => stdin[q] = in[q]
    /\ program[q] = IF Unexecutable(i[q]) THEN "reader" ELSE cmd[i[q]]

\* The pipe a process of cmdline.c reads, or will read, has a writer that was
\* started for the stage before, unless it could not be forked
Fed ==
  shell = "cmdline" => \A q \in Procs :
    /\ i[q] > 1 =>
         in[q] # 0 /\ (scarce \/ \E w \in Writers : Out(w) = in[q] /\ i[w] >= i[q] - 1)
    /\ pc[q] = "close" => scarce \/ \E w \in Writers : Out(w) = fd[q] /\ i[w] >= i[q]

\* Command k cannot be executed and all after it read to the end
Blocking(k) == ~scarce /\ Unexecutable(k) /\ \A j \in k + 1 .. n + 1 : cmd[j] = "filter"

\* Then whatever is started for that stage or a later one runs for ever
Blocked ==
  shell = "cmdline" => \A k \in 1 .. n : Blocking(k) =>
    \A q \in Procs : state[q] \in Dead => i[q] < k

\* No two processes write to the same place ...
Distinct == \A a, b \in Writers : Out(a) = Out(b) => a = b

\* ... and nobody but its child will write to a pipe that was just made
Unclaimed ==
  \A q \in Procs : pc[q] = "spawn" => \A w \in Writers :
    Out(w) # fd[q] /\ (pc[w] = "spawn" /\ fd[w] = fd[q] => w = q)

\* The two children of n.c: the first one writes to the pipe
Branch ==
  shell = "n" =>
    /\ stdout[1] = 0
    /\ pc[1] = "pipe" => made = 0
    /\ pc[1] \in {"front", "exit"} => fd[1] = 1
    /\ pc[1] \in {"pipe", "front"} => Writers = {}
    /\ pc[1] = "exit" => \A w \in Writers : Out(w) = 1

\* The data: a filter has read all it has written and holds, a source and a head
\* write a number that is fixed
Carries(q) ==
  /\ program[q] = "source" => hold[q] = 0 /\ put[stdout[q]] + left[q] = Items
  /\ program[q] = "head" => put[stdout[q]] + left[q] = 1 /\ hold[q] <= left[q]
  /\ program[q] = "filter" =>
       /\ left[q] = 0
       /\ IF stdin[q] = 0 THEN put[stdout[q]] + hold[q] = 0
                          ELSE put[stdout[q]] + hold[q] + buf[stdin[q]] <= put[stdin[q]]
  /\ program[q] = "reader" => hold[q] = 0 /\ left[q] = 0

Flow ==
  /\ left \in [Procs -> 0 .. Items] /\ hold \in [Procs -> {0, 1}]
  /\ buf \in [Pipes -> 0 .. Capacity] /\ put \in [Outputs -> 0 .. Items]
  /\ \A p \in Pipes : buf[p] <= put[p]
  /\ \A x \in Outputs : (\A w \in Writers : Out(w) # x) => put[x] = 0
  /\ \A q \in Writers : state[q] = "code" => put[Out(q)] = 0
  /\ \A q \in Procs : state[q] = "prog" => program[q] \in Programs /\ Carries(q)

IInv ==
  /\ Kinds /\ Control /\ Made /\ Ends /\ Loaded /\ Fed /\ Blocked
  /\ Distinct /\ Unclaimed /\ Branch /\ Flow

-----------------------------------------------------------------------------
(* The initial states *)

\* n is the number of pipes
LEMMA PipesOf ==
  ASSUME NEW pipes \in Nat, cmd \in [1 .. pipes + 1 -> Commands]
  PROVE  n = pipes
  <1>1. Cardinality(1 .. pipes + 1) = pipes + 1
    BY FS_Interval
  <1> QED
    BY <1>1 DEF n

LEMMA FirstProcess == 1 \in Procs /\ 1 \in Pipes
  BY KernelAssumption DEF Procs, Pipes

LEMMA InitIInv == Init => IInv
  <1> SUFFICES ASSUME Init PROVE IInv
    OBVIOUS
  <1>1. n \in Nat \ {0} /\ cmd \in [1 .. n + 1 -> Commands]
    BY PipesOf, PipeNumsAssumption DEF Init
  <1>2. Kinds
    BY <1>1, ShellsAssumption, KernelAssumption
    DEF Init, KernelInit, Kinds, Labels, States, Dead, Programs, Outputs
  <1>3. Control
    BY <1>1, FirstProcess DEF Init, KernelInit, Control
  <1>4. Made /\ Ends
    BY <1>1, FirstProcess, KernelAssumption DEF Init, KernelInit, Made, Ends, Alive
  <1>5. Loaded /\ Fed /\ Blocked
    BY <1>1 DEF Init, KernelInit, Loaded, Fed, Blocked, Dead
  <1>6. Distinct /\ Unclaimed /\ Branch
    BY FirstProcess DEF Init, KernelInit, Distinct, Unclaimed, Branch, Writers
  <1>7. Flow
    <2>1. /\ left \in [Procs -> 0 .. Items] /\ hold \in [Procs -> {0, 1}]
          /\ buf \in [Pipes -> 0 .. Capacity] /\ put \in [Outputs -> 0 .. Items]
      BY KernelAssumption DEF Init, KernelInit
    <2>2. Out(1) = 0
      BY FirstProcess DEF Init, KernelInit, Out
    <2>3. \A p \in Pipes : buf[p] <= put[p]
      BY DEF Init, KernelInit, Outputs
    <2>4. \A x \in Outputs : put[x] = 0
      BY DEF Init, KernelInit
    <2>5. \A q \in Procs : Out(q) \in Outputs /\ state[q] # "prog"
      BY DEF Init, KernelInit, Out, Outputs
    <2> QED
      BY <2>1, <2>3, <2>4, <2>5 DEF Flow, Writers
  <1> QED
    BY <1>2, <1>3, <1>4, <1>5, <1>6, <1>7 DEF IInv

-----------------------------------------------------------------------------
(* The steps of fork_pipes *)

\* The commands do not change
LEMMA SameCommands ==
  ASSUME UNCHANGED <<scarce, cmd>>
  PROVE  n' = n /\ \A k : Unexecutable(k)' = Unexecutable(k) /\ Blocking(k)' = Blocking(k)
  BY DEF n, Unexecutable, Blocking

LEMMA OutType ==
  ASSUME Kinds, Made, NEW q \in Procs
  PROVE  Out(q) \in Outputs /\ Out(q) <= made /\ made \in Nat
  BY DEF Kinds, Made, Out

LEMMA CreatePipeStep ==
  ASSUME IInv, NEW q \in Procs, CreatePipe(q)
  PROVE  IInv'
  <1>t. /\ Kinds /\ Control /\ Made /\ Ends /\ Loaded /\ Fed /\ Blocked
        /\ Distinct /\ Unclaimed /\ Branch /\ Flow
    BY DEF IInv
  <1>1. /\ state[q] = "code" /\ pc[q] = "pipe" /\ shell = "cmdline" /\ i[q] <= n /\ made < MaxPipes
        /\ made' = made + 1
        /\ fds' = [fds EXCEPT ![q] = @ \cup {<<"r", made + 1>>, <<"w", made + 1>>}]
        /\ fd' = [fd EXCEPT ![q] = made + 1]
        /\ pc' = [pc EXCEPT ![q] = "spawn"]
        /\ UNCHANGED <<state, program, stdin, stdout, left, hold, buf, put, shell, scarce, cmd, i, in>>
    BY DEF CreatePipe, At, Goto, MorePipes
  <1>n. n' = n /\ \A k : Unexecutable(k)' = Unexecutable(k) /\ Blocking(k)' = Blocking(k)
    BY <1>1, SameCommands
  <1>m. made \in Nat /\ made + 1 \in Pipes /\ Pipes \subseteq Nat \ {0} /\ Outputs = Pipes \cup {0}
    BY <1>t, <1>1, KernelAssumption DEF Kinds, Pipes, Outputs
  <1>u. \A r \in Procs : stdout[r] \in Nat /\ in[r] \in Nat /\ fd[r] \in Nat
    <2>1. Outputs \subseteq Nat
      BY <1>m
    <2>2. \A r \in Procs : stdout[r] \in Outputs /\ in[r] \in Outputs /\ fd[r] \in Outputs
      BY <1>t DEF Kinds
    <2> QED
      BY <2>1, <2>2
  <1>2. Writers' = Writers /\ \A w \in Procs : Out(w)' = Out(w)
    BY <1>t, <1>1 DEF Kinds, Writers, Out
  <1>3. Kinds'
    <2>1. fds' \in [Procs -> SUBSET ({"r", "w"} \X Pipes)]
      <3>1. fds[q] \cup {<<"r", made + 1>>, <<"w", made + 1>>} \in SUBSET ({"r", "w"} \X Pipes)
        BY <1>t, <1>m DEF Kinds
      <3> QED
        BY <1>t, <1>1, <3>1 DEF Kinds
    <2>2. fd' \in [Procs -> Outputs] /\ pc' \in [Procs -> Labels] /\ made' \in 0 .. MaxPipes
      BY <1>t, <1>1, <1>m, KernelAssumption DEF Kinds, Labels
    <2> QED
      BY <1>t, <1>1, <1>n, <2>1, <2>2 DEF Kinds
  <1>4. Control'
    BY <1>t, <1>1, <1>n DEF Kinds, Control
  <1>5. Made'
    BY <1>t, <1>1, <1>m, <1>u DEF Kinds, Made
  <1>6. Ends'
    <2>1. in[q] # made + 1 /\ made + 1 # 0
      BY <1>t, <1>m, <1>u DEF Made
    <2>2. /\ <<"r", made + 1>> \in fds'[q] /\ <<"w", made + 1>> \in fds'[q]
          /\ \A r \in Procs : fds[r] \subseteq fds'[r] /\ (r # q => fd'[r] = fd[r] /\ pc'[r] = pc[r])
          /\ fd'[q] = made + 1 /\ pc'[q] = "spawn"
      BY <1>t, <1>1 DEF Kinds
    <2> QED
      BY <1>t, <1>1, <2>1, <2>2 DEF Ends, Alive
  <1>7. Loaded' /\ Blocked'
    BY <1>t, <1>1, <1>n DEF Kinds, Loaded, Blocked
  <1>8. Fed'
    BY <1>t, <1>1, <1>2 DEF Kinds, Fed, Writers
  <1>9. Distinct'
    BY <1>t, <1>2 DEF Distinct, Writers
  <1>10. Unclaimed'
    <2>1. \A w \in Writers : Out(w) # made + 1 /\ fd[w] # made + 1
      BY <1>t, <1>m, OutType DEF Writers, Made, Kinds
    <2>2. /\ \A r \in Procs : r # q => fd'[r] = fd[r] /\ pc'[r] = pc[r]
          /\ fd'[q] = made + 1 /\ pc'[q] = "spawn" /\ pc[q] = "pipe"
      BY <1>t, <1>1 DEF Kinds
    <2>3. ASSUME NEW r \in Procs, pc'[r] = "spawn", NEW w \in Writers
          PROVE  Out(w)' # fd'[r] /\ (pc'[w] = "spawn" /\ fd'[w] = fd'[r] => w = r)
      <3>1. w \in Procs /\ Out(w)' = Out(w) /\ Out(w) # made + 1 /\ fd[w] # made + 1
        BY <1>2, <2>1 DEF Writers
      <3>2. CASE r = q
        BY <2>2, <3>1, <3>2
      <3>3. CASE r # q
        <4>1. pc[r] = "spawn" /\ fd'[r] = fd[r] /\ r \in Writers
          BY <1>t, <1>1, <2>2, <2>3, <3>3 DEF Writers, Control, Kinds
        <4>2. fd[r] # made + 1
          BY <2>1, <4>1
        <4> QED
          BY <1>t, <2>2, <3>1, <4>1, <4>2 DEF Unclaimed
      <3> QED
        BY <3>2, <3>3
    <2> QED
      BY <1>2, <2>3 DEF Unclaimed
  <1>11. Branch'
    BY <1>1 DEF Branch
  <1>12. Flow'
    BY <1>t, <1>1, <1>2 DEF Flow, Carries, Writers
  <1> QED
    BY <1>3, <1>4, <1>5, <1>6, <1>7, <1>8, <1>9, <1>10, <1>11, <1>12 DEF IInv

\* A fork() that fails leaves everything as it was but the place in the code
Unforked(q, next) ==
  /\ scarce /\ state[q] = "code"
  /\ \/ shell = "cmdline" /\ pc[q] = "spawn" /\ next = "close"
     \/ shell = "n" /\ q = 1 /\ pc[q] = "front" /\ next = "exit"
     \/ shell = "n" /\ q = 1 /\ pc[q] = "exit" /\ next = "closeboth"
  /\ pc' = [pc EXCEPT ![q] = next]
  /\ UNCHANGED <<state, program, stdin, stdout, fds, left, hold, buf, made, put,
                 shell, scarce, cmd, i, in, fd>>

LEMMA UnforkedStep ==
  ASSUME IInv, NEW q \in Procs, NEW next, Unforked(q, next)
  PROVE  IInv' /\ Writers' = Writers /\ (\A w \in Procs : Out(w)' = Out(w))
  <1>t. /\ Kinds /\ Control /\ Made /\ Ends /\ Loaded /\ Fed /\ Blocked
        /\ Distinct /\ Unclaimed /\ Branch /\ Flow
    BY DEF IInv
  <1>1. /\ scarce /\ state[q] = "code" /\ pc' = [pc EXCEPT ![q] = next]
        /\ \/ shell = "cmdline" /\ pc[q] = "spawn" /\ next = "close"
           \/ shell = "n" /\ q = 1 /\ pc[q] = "front" /\ next = "exit"
           \/ shell = "n" /\ q = 1 /\ pc[q] = "exit" /\ next = "closeboth"
        /\ UNCHANGED <<state, program, stdin, stdout, fds, left, hold, buf, made, put,
                       shell, scarce, cmd, i, in, fd>>
    BY DEF Unforked
  <1>n. n' = n /\ \A k : Unexecutable(k)' = Unexecutable(k) /\ Blocking(k)' = Blocking(k)
    BY <1>1, SameCommands
  <1>2. /\ pc'[q] = next /\ \A r \in Procs : r # q => pc'[r] = pc[r]
        /\ \A r \in Procs : pc'[r] = "spawn" => pc[r] = "spawn"
    BY <1>t, <1>1 DEF Kinds
  <1>3. Writers' = Writers /\ \A w \in Procs : Out(w)' = Out(w)
    BY <1>t, <1>1, <1>2 DEF Writers, Out
  <1>4. Kinds'
    BY <1>t, <1>1, <1>n DEF Kinds, Labels
  <1>5. Control'
    BY <1>t, <1>1, <1>2, <1>n DEF Control
  <1>6. Made' /\ Loaded' /\ Blocked'
    BY <1>t, <1>1, <1>n DEF Made, Loaded, Blocked
  <1>7. Ends'
    BY <1>t, <1>1, <1>2 DEF Ends, Alive
  <1>8. Fed'
    BY <1>t, <1>1, <1>2, <1>3 DEF Fed
  <1>9. Distinct' /\ Unclaimed'
    BY <1>t, <1>1, <1>2, <1>3 DEF Distinct, Unclaimed, Writers
  <1>10. Branch'
    BY <1>t, <1>1, <1>2, <1>3, FirstProcess DEF Branch, Writers
  <1>11. Flow'
    BY <1>t, <1>1, <1>3 DEF Flow, Carries, Writers
  <1> QED
    BY <1>3, <1>4, <1>5, <1>6, <1>7, <1>8, <1>9, <1>10, <1>11 DEF IInv

LEMMA SpawnFails ==
  ASSUME IInv, NEW q \in Procs, Spawn(q), NoFork
  PROVE  Unforked(q, "close")
  <1>1. state[q] = "code" /\ pc[q] = "spawn" /\ scarce
    BY DEF Spawn, At, NoFork
  <1>2. shell = "cmdline"
    BY <1>1 DEF IInv, Kinds, Control
  <1>3. /\ pc' = [pc EXCEPT ![q] = "close"]
        /\ UNCHANGED <<state, stdin, stdout, fds, i, in, fd>>
    <2>1. \A c \in Procs : ~Fork(q, c)
      BY DEF NoFork, Fork, IInv, Kinds
    <2> QED
      BY <2>1 DEF Spawn, NoFork, Goto
  <1> QED
    BY <1>1, <1>2, <1>3 DEF Unforked, Spawn, progVars

LEMMA SpawnStep ==
  ASSUME IInv, NEW q \in Procs, Spawn(q), ~NoFork
  PROVE  IInv'
  <1>t. /\ Kinds /\ Control /\ Made /\ Ends /\ Loaded /\ Fed /\ Blocked
        /\ Distinct /\ Unclaimed /\ Branch /\ Flow
    BY DEF IInv
  <1>1. PICK c \in Procs :
          /\ state[c] = "none"
          /\ state' = [state EXCEPT ![c] = "code"]
          /\ stdin' = [stdin EXCEPT ![c] = stdin[q]] /\ stdout' = [stdout EXCEPT ![c] = stdout[q]]
          /\ fds' = [fds EXCEPT ![c] = fds[q]]
          /\ pc' = [pc EXCEPT ![q] = "close", ![c] = "child"]
          /\ i' = [i EXCEPT ![c] = i[q]] /\ in' = [in EXCEPT ![c] = in[q]]
          /\ fd' = [fd EXCEPT ![c] = fd[q]]
    BY DEF Spawn, Fork
  <1>2. /\ state[q] = "code" /\ pc[q] = "spawn" /\ shell = "cmdline" /\ c # q /\ c # 1 /\ pc[c] = "none"
        /\ UNCHANGED <<program, left, hold, buf, made, put, shell, scarce, cmd>>
    BY <1>t, <1>1, FirstProcess DEF Spawn, At, progVars, Control, Kinds
  <1>n. n' = n /\ \A k : Unexecutable(k)' = Unexecutable(k) /\ Blocking(k)' = Blocking(k)
    BY <1>2, SameCommands
  <1>3. /\ Writers' = Writers \cup {c} /\ c \notin Writers /\ Out(c)' = fd[q]
        /\ \A w \in Writers : Out(w)' = Out(w) /\ i'[w] = i[w]
    BY <1>t, <1>1, <1>2 DEF Kinds, Writers, Out
  <1>4. Kinds'
    BY <1>t, <1>1, <1>2, <1>n DEF Kinds, Labels, States
  <1>5. Control'
    BY <1>t, <1>1, <1>2, <1>n DEF Kinds, Control
  <1>6. Made'
    BY <1>t, <1>1, <1>2 DEF Kinds, Made
  <1>7. Ends'
    BY <1>t, <1>1, <1>2 DEF Kinds, Ends, Alive
  <1>8. Loaded' /\ Blocked'
    BY <1>t, <1>1, <1>2, <1>n DEF Kinds, Loaded, Blocked, Dead
  <1>9. Fed'
    <2>1. i'[q] = i[q] /\ fd'[q] = fd[q] /\ i'[c] = i[q] /\ i[q] \in Nat
      BY <1>t, <1>1, <1>2 DEF Kinds
    <2>2. ASSUME NEW r \in Procs, i'[r] > 1
          PROVE  /\ in'[r] # 0
                 /\ scarce \/ \E w \in Writers' : Out(w)' = in'[r] /\ i'[w] >= i'[r] - 1
      <3>1. \E s \in Procs : i'[r] = i[s] /\ in'[r] = in[s]
        BY <1>t, <1>1 DEF Kinds
      <3> QED
        BY <1>t, <1>2, <1>3, <2>2, <3>1 DEF Fed
    <2>3. ASSUME NEW r \in Procs, pc'[r] = "close"
          PROVE  scarce \/ \E w \in Writers' : Out(w)' = fd'[r] /\ i'[w] >= i'[r]
      <3>1. CASE r = q
        BY <1>3, <2>1, <3>1
      <3>2. CASE r # q
        <4>1. pc[r] = "close" /\ i'[r] = i[r] /\ fd'[r] = fd[r]
          BY <1>t, <1>1, <1>2, <2>3, <3>2 DEF Kinds
        <4> QED
          BY <1>t, <1>2, <1>3, <4>1 DEF Fed
      <3> QED
        BY <3>1, <3>2
    <2> QED
      BY <1>2, <2>2, <2>3 DEF Fed
  <1>10. \A w \in Writers : Out(w) # fd[q]
    BY <1>t, <1>2 DEF Unclaimed
  <1>11. Distinct'
    BY <1>t, <1>3, <1>10 DEF Distinct
  <1>12. Unclaimed'
    <2>1. ASSUME NEW r \in Procs, pc'[r] = "spawn", NEW w \in Writers'
          PROVE  Out(w)' # fd'[r] /\ (pc'[w] = "spawn" /\ fd'[w] = fd'[r] => w = r)
      <3>1. r # q /\ r # c /\ pc[r] = "spawn" /\ fd'[r] = fd[r] /\ r \in Writers
        BY <1>t, <1>1, <1>2, <2>1 DEF Kinds, Control, Writers
      <3>2. fd[r] # fd[q]
        BY <1>t, <1>2, <3>1 DEF Unclaimed
      <3>3. CASE w = c
        BY <1>t, <1>1, <1>2, <1>3, <3>1, <3>2, <3>3 DEF Kinds
      <3>4. CASE w # c
        BY <1>t, <1>1, <1>2, <1>3, <3>1, <3>4 DEF Kinds, Unclaimed, Writers
      <3> QED
        BY <3>3, <3>4
    <2> QED
      BY <2>1 DEF Unclaimed
  <1>13. Branch'
    BY <1>2 DEF Branch
  <1>14. Flow'
    <2>1. put[fd[q]] = 0
      BY <1>t, <1>10 DEF Flow, Kinds
    <2>2. \A r \in Procs : state'[r] = "prog" =>
            state[r] = "prog" /\ stdin'[r] = stdin[r] /\ stdout'[r] = stdout[r]
      BY <1>t, <1>1, <1>2 DEF Kinds
    <2>3. \A r \in Procs : state'[r] = "prog" => program'[r] \in Programs /\ Carries(r)'
      BY <1>t, <1>2, <2>2 DEF Flow, Carries
    <2>4. \A w \in Writers' : state'[w] = "code" => put[Out(w)'] = 0
      BY <1>t, <1>1, <1>3, <2>1 DEF Flow, Kinds, Writers
    <2>5. \A x \in Outputs : (\A w \in Writers' : Out(w)' # x) => put[x] = 0
      BY <1>t, <1>3 DEF Flow
    <2> QED
      BY <1>t, <1>2, <2>3, <2>4, <2>5 DEF Flow
  <1> QED
    BY <1>4, <1>5, <1>6, <1>7, <1>8, <1>9, <1>11, <1>12, <1>13, <1>14 DEF IInv

\* A process of the pipeline executes a command: it has written nothing yet
LEMMA LoadFlow ==
  ASSUME Kinds, Flow, NEW q \in Writers, state[q] = "code", NEW prog \in Programs, Load(q, prog),
         \A r \in Procs : r # q => stdin'[r] = stdin[r] /\ stdout'[r] = stdout[r],
         stdin'[q] \in Outputs, stdout'[q] = Out(q), stdout'[q] \in Outputs,
         Writers' = Writers, \A w \in Writers : Out(w)' = Out(w),
         UNCHANGED <<buf, put>>
  PROVE  Flow'
  <1>1. q \in Procs
    BY DEF Writers
  <1>2. /\ state' = [state EXCEPT ![q] = "prog"] /\ program' = [program EXCEPT ![q] = prog]
        /\ hold' = [hold EXCEPT ![q] = 0]
        /\ left' = [left EXCEPT ![q] = CASE prog = "source" -> Items [] prog = "head" -> 1
                                         [] OTHER -> 0]
    BY DEF Load
  <1>3. /\ left' \in [Procs -> 0 .. Items] /\ hold' \in [Procs -> {0, 1}]
        /\ left'[q] = (CASE prog = "source" -> Items [] prog = "head" -> 1 [] OTHER -> 0)
        /\ hold'[q] = 0 /\ program'[q] = prog
    BY <1>1, <1>2, KernelAssumption DEF Flow, Kinds
  <1>4. put[stdout'[q]] = 0 /\ Items \in Nat
    BY KernelAssumption DEF Flow
  <1>5. stdin'[q] # 0 => /\ buf[stdin'[q]] <= put[stdin'[q]] /\ buf[stdin'[q]] \in Nat
                         /\ put[stdin'[q]] \in Nat
    BY KernelAssumption DEF Flow, Outputs
  <1>6. Carries(q)'
    <2>1. CASE prog = "source"
      BY <1>3, <1>4, <2>1 DEF Carries
    <2>2. CASE prog = "head"
      BY <1>3, <1>4, <2>2 DEF Carries
    <2>3. CASE prog = "filter"
      BY <1>3, <1>4, <1>5, <2>3 DEF Carries
    <2>4. CASE prog = "reader"
      BY <1>3, <1>4, <2>4 DEF Carries
    <2> QED
      BY <2>1, <2>2, <2>3, <2>4 DEF Programs
  <1>7. ASSUME NEW r \in Procs, state'[r] = "prog"
        PROVE  program'[r] \in Programs /\ Carries(r)'
    <2>1. CASE r = q
      BY <1>3, <1>6, <2>1
    <2>2. CASE r # q
      <3>1. /\ state[r] = "prog" /\ program'[r] = program[r] /\ stdin'[r] = stdin[r]
            /\ stdout'[r] = stdout[r] /\ left'[r] = left[r] /\ hold'[r] = hold[r]
        BY <1>2, <1>7, <2>2 DEF Kinds, Flow
      <3> QED
        BY <3>1 DEF Flow, Carries
    <2> QED
      BY <2>1, <2>2
  <1>8. \A w \in Writers' : state'[w] = "code" => put[Out(w)'] = 0
    BY <1>1, <1>2 DEF Flow, Kinds, Writers
  <1>9. \A x \in Outputs : (\A w \in Writers' : Out(w)' # x) => put[x] = 0
    BY DEF Flow
  <1> QED
    BY <1>3, <1>7, <1>8, <1>9 DEF Flow

\* What a command runs as
LEMMA Executable ==
  ASSUME Kinds, NEW k \in 1 .. n + 1, ~Unexecutable(k)
  PROVE  cmd[k] \in Programs
  BY CommandsAssumption DEF Kinds, Unexecutable

LEMMA ExecStageStep ==
  ASSUME IInv, NEW q \in Procs, ExecStage(q)
  PROVE  IInv'
  <1>t. /\ Kinds /\ Control /\ Made /\ Ends /\ Loaded /\ Fed /\ Blocked
        /\ Distinct /\ Unclaimed /\ Branch /\ Flow
    BY DEF IInv
  <1>1. /\ state[q] = "code" /\ pc[q] = "child"
        /\ stdin' = [stdin EXCEPT ![q] = IF in[q] = 0 THEN @ ELSE in[q]]
        /\ stdout' = [stdout EXCEPT ![q] = fd[q]]
        /\ fds' = [fds EXCEPT ![q] = @ \ {<<"r", in[q]>>, <<"w", fd[q]>>}]
        /\ UNCHANGED <<buf, made, put, shell, scarce, cmd, i, in, fd>>
    BY DEF ExecStage, Redirected, At
  <1>2. shell = "cmdline" /\ q # 1 /\ i[q] <= n /\ fd[q] # 0 /\ in[q] # fd[q]
        /\ <<"r", fd[q]>> \in fds[q] /\ q \in Writers /\ Out(q) = fd[q]
    BY <1>t, <1>1, FirstProcess DEF Kinds, Control, Ends, Writers, Out
  <1>n. n' = n /\ \A k : Unexecutable(k)' = Unexecutable(k) /\ Blocking(k)' = Blocking(k)
    BY <1>1, SameCommands
  <1>3. /\ stdin' \in [Procs -> Outputs] /\ stdout' \in [Procs -> Outputs]
        /\ fds' \in [Procs -> SUBSET ({"r", "w"} \X Pipes)]
        /\ \A r \in Procs : r # q => stdin'[r] = stdin[r] /\ stdout'[r] = stdout[r] /\ fds'[r] = fds[r]
        /\ stdout'[q] = fd[q] /\ <<"r", fd[q]>> \in fds'[q]
        /\ in[q] # 0 => stdin'[q] = in[q]
    BY <1>t, <1>1, <1>2 DEF Kinds
  <1>4. \E w \in Writers : Out(w) = fd[q] /\ i[w] >= i[q]
    BY <1>t, <1>2 DEF Kinds
  <1>5. CASE Unexecutable(i[q])
    <2>1. state' = state /\ program' = program /\ left' = left /\ hold' = hold
          /\ pc' = [pc EXCEPT ![q] = "close"]
      BY <1>1, <1>5 DEF ExecStage, Goto, progVars
    <2>2. Writers' = Writers /\ \A w \in Procs : Out(w)' = Out(w)
      BY <1>t, <1>1, <1>2, <1>3, <2>1 DEF Kinds, Writers, Out
    <2>3. Kinds'
      BY <1>t, <1>1, <1>n, <1>3, <2>1 DEF Kinds, Labels
    <2>4. Control'
      BY <1>t, <1>1, <1>2, <1>n, <2>1 DEF Kinds, Control
    <2>5. Made'
      BY <1>t, <1>1, <1>3 DEF Made
    <2>6. Ends'
      BY <1>t, <1>1, <1>2, <1>3, <2>1 DEF Kinds, Ends, Alive
    <2>7. Loaded' /\ Blocked'
      BY <1>t, <1>1, <1>n, <1>3, <2>1 DEF Kinds, Loaded, Blocked
    <2>8. Fed'
      <3>1. \A r \in Procs : r # q => pc'[r] = pc[r]
        BY <1>t, <2>1 DEF Kinds
      <3>2. \A w \in Writers : Out(w)' = Out(w)
        BY <2>2 DEF Writers
      <3> QED
        BY <1>t, <1>1, <1>2, <1>4, <2>2, <3>1, <3>2 DEF Fed
    <2>9. Distinct' /\ Unclaimed'
      <3>1. \A r \in Procs : pc'[r] = "spawn" => pc[r] = "spawn"
        BY <1>t, <2>1 DEF Kinds
      <3> QED
        BY <1>t, <1>1, <2>2, <3>1 DEF Distinct, Unclaimed, Writers
    <2>10. Branch'
      BY <1>1, <1>2 DEF Branch
    <2>11. Flow'
      <3>1. \A r \in Procs : state[r] = "prog" => r # q
        BY <1>1
      <3> QED
        BY <1>t, <1>1, <1>3, <2>1, <2>2, <3>1 DEF Flow, Carries, Writers
    <2> QED
      BY <2>3, <2>4, <2>5, <2>6, <2>7, <2>8, <2>9, <2>10, <2>11 DEF IInv
  <1>6. CASE ~Unexecutable(i[q])
    <2>1. Load(q, cmd[i[q]]) /\ pc' = [pc EXCEPT ![q] = "none"]
          /\ state' = [state EXCEPT ![q] = "prog"]
          /\ program' = [program EXCEPT ![q] = cmd[i[q]]]
      BY <1>6 DEF ExecStage, Goto, Load
    <2>p. cmd[i[q]] \in Programs
      BY <1>t, <1>6, Executable DEF Kinds
    <2>2. Writers' = Writers /\ \A w \in Procs : Out(w)' = Out(w)
      BY <1>t, <1>1, <1>2, <1>3, <2>1 DEF Kinds, Writers, Out
    <2>3. Kinds'
      BY <1>t, <1>1, <1>n, <1>3, <2>1, <2>p DEF Kinds, Labels, States
    <2>4. Control'
      BY <1>t, <1>1, <1>2, <1>n, <2>1, FirstProcess DEF Kinds, Control
    <2>5. Made'
      BY <1>t, <1>1, <1>3 DEF Made
    <2>6. Ends'
      BY <1>t, <1>1, <1>2, <1>3, <2>1 DEF Kinds, Ends, Alive
    <2>7. Loaded'
      <3>1. i[q] > 1 => stdin'[q] = in[q]
        BY <1>t, <1>2, <1>3 DEF Fed
      <3> QED
        BY <1>t, <1>1, <1>2, <1>n, <1>3, <1>6, <2>1, <3>1 DEF Kinds, Loaded
    <2>8. Blocked'
      BY <1>t, <1>1, <1>n, <2>1 DEF Kinds, Blocked, Dead
    <2>9. Fed'
      <3>1. \A r \in Procs : pc'[r] = "close" => pc[r] = "close"
        BY <1>t, <2>1 DEF Kinds
      <3>2. \A w \in Writers : Out(w)' = Out(w)
        BY <2>2 DEF Writers
      <3> QED
        BY <1>t, <1>1, <1>2, <2>2, <3>1, <3>2 DEF Fed
    <2>10. Distinct' /\ Unclaimed'
      <3>1. \A r \in Procs : pc'[r] = "spawn" => pc[r] = "spawn"
        BY <1>t, <2>1 DEF Kinds
      <3> QED
        BY <1>t, <1>1, <2>2, <3>1 DEF Distinct, Unclaimed, Writers
    <2>11. Branch'
      BY <1>1, <1>2 DEF Branch
    <2>12. Flow'
      <3>1. \A w \in Writers : Out(w)' = Out(w)
        BY <2>2 DEF Writers
      <3>2. stdin'[q] \in Outputs /\ stdout'[q] \in Outputs /\ stdout'[q] = Out(q)
        BY <1>2, <1>3
      <3> QED
        BY <1>t, <1>1, <1>2, <1>3, <2>1, <2>p, <2>2, <3>1, <3>2, LoadFlow
    <2> QED
      BY <2>3, <2>4, <2>5, <2>6, <2>7, <2>8, <2>9, <2>10, <2>11, <2>12 DEF IInv
  <1> QED
    BY <1>5, <1>6

LEMMA CloseWriteEndStep ==
  ASSUME IInv, NEW q \in Procs, CloseWriteEnd(q)
  PROVE  IInv'
  <1>t. /\ Kinds /\ Control /\ Made /\ Ends /\ Loaded /\ Fed /\ Blocked
        /\ Distinct /\ Unclaimed /\ Branch /\ Flow
    BY DEF IInv
  <1>1. /\ state[q] = "code" /\ pc[q] = "close"
        /\ fds' = [fds EXCEPT ![q] = @ \ {<<"w", fd[q]>>}]
        /\ in' = [in EXCEPT ![q] = fd[q]]
        /\ i' = [i EXCEPT ![q] = @ + 1]
        /\ pc' = [pc EXCEPT ![q] = "pipe"]
        /\ UNCHANGED <<state, program, stdin, stdout, left, hold, buf, made, put, shell, scarce, cmd, fd>>
    BY DEF CloseWriteEnd, At, Goto
  <1>2. shell = "cmdline"
    <2>1. shell = "n" => pc[q] \in {"pipe", "front", "exit", "closeboth", "prompt",
                                    "none", "frontchild", "exitchild"}
      BY <1>t DEF Control
    <2> QED
      BY <1>t, <1>1, <2>1 DEF Kinds
  <1>3. i[q] \in Nat /\ i[q] <= n /\ n \in Nat /\ fd[q] # 0
    <2>1. i[q] \in 1 .. n + 1 /\ n \in Nat
      BY <1>t DEF Kinds
    <2>2. i[q] <= n
      BY <1>t, <1>1, <1>2 DEF Control
    <2>3. fd[q] # 0
      BY <1>t, <1>1, <1>2 DEF Ends
    <2> QED
      BY <2>1, <2>2, <2>3
  <1>n. n' = n /\ \A k : Unexecutable(k)' = Unexecutable(k) /\ Blocking(k)' = Blocking(k)
    BY <1>1, SameCommands
  <1>4. Writers' = Writers /\ \A w \in Procs : Out(w)' = Out(w)
    BY <1>t, <1>1 DEF Kinds, Writers, Out
  <1>5. /\ i'[q] = i[q] + 1 /\ in'[q] = fd[q]
        /\ \A r \in Procs : r # q => i'[r] = i[r] /\ in'[r] = in[r] /\ pc'[r] = pc[r]
        /\ pc'[q] = "pipe"
    BY <1>t, <1>1 DEF Kinds
  <1>6. Kinds'
    <2>1. fds' \in [Procs -> SUBSET ({"r", "w"} \X Pipes)]
      BY <1>t, <1>1 DEF Kinds
    <2>2. i' \in [Procs -> 1 .. n + 1] /\ in' \in [Procs -> Outputs] /\ pc' \in [Procs -> Labels]
      BY <1>t, <1>1, <1>3 DEF Kinds, Labels
    <2> QED
      BY <1>t, <1>1, <1>n, <2>1, <2>2 DEF Kinds
  <1>7. Control'
    BY <1>t, <1>1, <1>2, <1>5, <1>n DEF Control
  <1>8. Made'
    BY <1>t, <1>1, <1>5 DEF Made
  <1>9. Ends'
    <2>1. \A r \in Procs, p \in Outputs : <<"r", p>> \in fds[r] => <<"r", p>> \in fds'[r]
      BY <1>t, <1>1 DEF Kinds
    <2>2. \A r \in Procs : r # q => fds'[r] = fds[r]
      BY <1>t, <1>1 DEF Kinds
    <2>3. \A r \in Procs : stdout[r] \in Outputs
      BY <1>t DEF Kinds
    <2> QED
      BY <1>t, <1>1, <1>5, <2>1, <2>2, <2>3 DEF Ends, Alive
  <1>10. Loaded' /\ Blocked'
    BY <1>t, <1>1, <1>5, <1>n DEF Loaded, Blocked, Dead
  <1>11. Fed'
    <2>1. \A w \in Writers : w \in Procs /\ i[w] \in Nat /\ i'[w] \in Nat /\ i'[w] >= i[w]
      <3>1. \A w \in Procs : i[w] \in 1 .. n + 1
        BY <1>t DEF Kinds
      <3>2. \A w \in Procs : i[w] \in Nat /\ i'[w] \in {i[w], i[w] + 1}
        BY <1>3, <1>5, <3>1
      <3> QED
        BY <3>2 DEF Writers
    <2>2. ASSUME NEW r \in Procs, i'[r] > 1
          PROVE  /\ in'[r] # 0
                 /\ scarce \/ \E w \in Writers : Out(w) = in'[r] /\ i'[w] >= i'[r] - 1
      <3>1. CASE r = q
        <4>1. ASSUME NEW w \in Writers, Out(w) = fd[q], i[w] >= i[q]
              PROVE  Out(w) = in'[r] /\ i'[w] >= i'[r] - 1
          BY <1>3, <1>5, <2>1, <3>1, <4>1
        <4> QED
          BY <1>t, <1>1, <1>2, <1>3, <1>5, <3>1, <4>1 DEF Fed
      <3>2. CASE r # q
        <4>1. in[r] # 0 /\ i[r] \in Nat /\ in'[r] = in[r] /\ i'[r] = i[r] /\ i[r] > 1
          BY <1>t, <1>2, <1>5, <2>2, <3>2 DEF Fed, Kinds
        <4>2. ASSUME NEW w \in Writers, Out(w) = in[r], i[w] >= i[r] - 1
              PROVE  Out(w) = in'[r] /\ i'[w] >= i'[r] - 1
          BY <2>1, <4>1, <4>2
        <4> QED
          BY <1>t, <1>2, <4>1, <4>2 DEF Fed
      <3> QED
        BY <3>1, <3>2
    <2>3. ASSUME NEW r \in Procs, pc'[r] = "close"
          PROVE  scarce \/ \E w \in Writers : Out(w) = fd[r] /\ i'[w] >= i'[r]
      <3>1. r # q /\ pc[r] = "close" /\ i'[r] = i[r] /\ i[r] \in Nat
        BY <1>t, <1>5, <2>3 DEF Kinds
      <3>2. ASSUME NEW w \in Writers, Out(w) = fd[r], i[w] >= i[r]
            PROVE  i'[w] >= i'[r]
        BY <2>1, <3>1, <3>2
      <3> QED
        BY <1>t, <1>2, <3>1, <3>2 DEF Fed
    <2>4. \A w \in Writers : Out(w)' = Out(w)
      BY <1>4 DEF Writers
    <2> QED
      BY <1>1, <1>4, <2>2, <2>3, <2>4 DEF Fed
  <1>12. Distinct' /\ Unclaimed'
    BY <1>t, <1>1, <1>4, <1>5 DEF Distinct, Unclaimed, Writers
  <1>13. Branch'
    BY <1>1, <1>2 DEF Branch
  <1>14. Flow'
    BY <1>t, <1>1, <1>4 DEF Flow, Carries, Writers
  <1> QED
    BY <1>6, <1>7, <1>8, <1>9, <1>10, <1>11, <1>12, <1>13, <1>14 DEF IInv

LEMMA ExecLastStep ==
  ASSUME IInv, NEW q \in Procs, ExecLast(q)
  PROVE  IInv'
  <1>t. /\ Kinds /\ Control /\ Made /\ Ends /\ Loaded /\ Fed /\ Blocked
        /\ Distinct /\ Unclaimed /\ Branch /\ Flow
    BY DEF IInv
  <1> DEFINE what == IF Unexecutable(n + 1) THEN "reader" ELSE cmd[n + 1]
  <1>1. /\ state[q] = "code" /\ pc[q] = "pipe" /\ shell = "cmdline" /\ i[q] = n + 1 /\ n \in Nat \ {0}
        /\ stdin' = [stdin EXCEPT ![q] = in[q]]
        /\ Load(q, what) /\ pc' = [pc EXCEPT ![q] = "none"]
        /\ state' = [state EXCEPT ![q] = "prog"] /\ program' = [program EXCEPT ![q] = what]
        /\ UNCHANGED <<stdout, fds, buf, made, put, shell, scarce, cmd, i, in, fd>>
    BY <1>t DEF ExecLast, At, Goto, MorePipes, Load, Kinds
  <1>p. what \in Programs
    BY <1>t, <1>1, Executable DEF Programs
  <1> HIDE DEF what
  <1>n. n' = n /\ \A k : Unexecutable(k)' = Unexecutable(k) /\ Blocking(k)' = Blocking(k)
    BY <1>1, SameCommands
  <1>2. /\ Writers' = Writers /\ \A w \in Procs : Out(w)' = Out(w)
        /\ q \in Writers /\ Out(q) = stdout[q]
    BY <1>t, <1>1 DEF Kinds, Writers, Out
  <1>3. \A w \in Writers : Out(w)' = Out(w)
    BY <1>2 DEF Writers
  <1>4. Kinds'
    BY <1>t, <1>1, <1>n, <1>p DEF Kinds, Labels, States
  <1>5. Control'
    BY <1>t, <1>1, <1>n, FirstProcess DEF Kinds, Control
  <1>6. Made'
    BY <1>t, <1>1 DEF Made
  <1>7. Ends'
    BY <1>t, <1>1 DEF Kinds, Ends, Alive
  <1>8. Loaded'
    BY <1>t, <1>1, <1>n DEF Kinds, Loaded, what
  <1>9. Blocked'
    BY <1>t, <1>1, <1>n DEF Kinds, Blocked, Dead
  <1>10. Fed'
    <2>1. \A r \in Procs : pc'[r] = "close" => pc[r] = "close"
      BY <1>t, <1>1 DEF Kinds
    <2> QED
      BY <1>t, <1>1, <1>2, <1>3, <2>1 DEF Fed
  <1>11. Distinct' /\ Unclaimed'
    <2>1. \A r \in Procs : pc'[r] = "spawn" => pc[r] = "spawn"
      BY <1>t, <1>1 DEF Kinds
    <2> QED
      BY <1>t, <1>1, <1>2, <2>1 DEF Distinct, Unclaimed, Writers
  <1>12. Branch'
    BY <1>1 DEF Branch
  <1>13. Flow'
    <2>1. /\ stdin'[q] \in Outputs /\ stdout'[q] \in Outputs /\ stdout'[q] = Out(q)
          /\ \A r \in Procs : r # q => stdin'[r] = stdin[r] /\ stdout'[r] = stdout[r]
      BY <1>t, <1>1, <1>2 DEF Kinds
    <2> QED
      BY <1>t, <1>1, <1>p, <1>2, <1>3, <2>1, LoadFlow
  <1> QED
    BY <1>4, <1>5, <1>6, <1>7, <1>8, <1>9, <1>10, <1>11, <1>12, <1>13 DEF IInv

-----------------------------------------------------------------------------
(* The steps of the pipe branch of n.c *)

\* A pipe() that fails ends n.c, which has not started anything yet
LEMMA NoPdStep ==
  ASSUME IInv, CreatePd, ~UNCHANGED state
  PROVE  /\ IInv' /\ scarce /\ shell = "n" /\ Writers = {} /\ Writers' = {}
         /\ state' = [state EXCEPT ![1] = "exited"]
         /\ UNCHANGED <<program, stdin, stdout, fds, left, hold, buf, made, put,
                        shell, scarce, cmd, i, in, fd>>
  <1>t. /\ Kinds /\ Control /\ Made /\ Ends /\ Loaded /\ Fed /\ Blocked
        /\ Distinct /\ Unclaimed /\ Branch /\ Flow
    BY DEF IInv
  <1>1. /\ state[1] = "code" /\ pc[1] = "pipe" /\ shell = "n" /\ scarce
        /\ state' = [state EXCEPT ![1] = "exited"] /\ pc' = [pc EXCEPT ![1] = "none"]
        /\ UNCHANGED <<program, stdin, stdout, fds, left, hold, buf, made, put,
                       shell, scarce, cmd, i, in, fd>>
    BY DEF CreatePd, At, Goto
  <1>n. n' = n /\ \A k : Unexecutable(k)' = Unexecutable(k) /\ Blocking(k)' = Blocking(k)
    BY <1>1, SameCommands
  <1>2. Writers = {} /\ \A r \in Procs : state[r] # "none" => r = 1
    BY <1>t, <1>1 DEF Branch, Writers
  <1>3. Writers' = {} /\ \A r \in Procs : state'[r] # "none" => r = 1
    BY <1>t, <1>1, <1>2 DEF Writers, Kinds
  <1>4. Kinds'
    BY <1>t, <1>1, <1>n DEF Kinds, Labels, States, Dead
  <1>5. Control'
    BY <1>t, <1>1, FirstProcess DEF Kinds, Control
  <1>6. Made' /\ Ends' /\ Loaded' /\ Fed' /\ Blocked'
    BY <1>t, <1>1 DEF Made, Ends, Loaded, Fed, Blocked
  <1>7. Distinct' /\ Unclaimed' /\ Branch'
    BY <1>t, <1>1, <1>3, FirstProcess DEF Distinct, Unclaimed, Branch, Kinds
  <1>8. Flow'
    <2>1. state'[1] = "exited" /\ \A r \in Procs : state'[r] # "prog"
      BY <1>t, <1>1, <1>3, FirstProcess DEF Kinds
    <2>2. \A x \in Outputs : put[x] = 0
      BY <1>t, <1>2 DEF Flow
    <2> QED
      BY <1>t, <1>1, <1>3, <2>1, <2>2 DEF Flow
  <1> QED
    BY <1>1, <1>2, <1>3, <1>4, <1>5, <1>6, <1>7, <1>8 DEF IInv

LEMMA CreatePdStep ==
  ASSUME IInv, CreatePd, UNCHANGED state
  PROVE  IInv'
  <1>t. /\ Kinds /\ Control /\ Made /\ Ends /\ Loaded /\ Fed /\ Blocked
        /\ Distinct /\ Unclaimed /\ Branch /\ Flow
    BY DEF IInv
  <1>1. /\ state[1] = "code" /\ pc[1] = "pipe" /\ shell = "n" /\ made' = 1
        /\ fds' = [fds EXCEPT ![1] = {<<"r", 1>>, <<"w", 1>>}]
        /\ fd' = [fd EXCEPT ![1] = 1]
        /\ pc' = [pc EXCEPT ![1] = "front"]
        /\ UNCHANGED <<state, program, stdin, stdout, left, hold, buf, put, shell, scarce, cmd, i, in>>
    BY <1>t, FirstProcess DEF CreatePd, At, Goto, Kinds
  <1>n. n' = n /\ \A k : Unexecutable(k)' = Unexecutable(k) /\ Blocking(k)' = Blocking(k)
    BY <1>1, SameCommands
  <1>2. made = 0 /\ Writers = {} /\ Writers' = {}
    BY <1>t, <1>1 DEF Branch, Writers
  <1>3. Kinds'
    <2>1. fds' \in [Procs -> SUBSET ({"r", "w"} \X Pipes)]
      BY <1>t, <1>1, FirstProcess DEF Kinds
    <2>2. fd' \in [Procs -> Outputs] /\ pc' \in [Procs -> Labels] /\ made' \in 0 .. MaxPipes
      BY <1>t, <1>1, FirstProcess, KernelAssumption DEF Kinds, Labels, Outputs
    <2> QED
      BY <1>t, <1>1, <1>n, <2>1, <2>2 DEF Kinds
  <1>4. Control'
    BY <1>t, <1>1, FirstProcess DEF Kinds, Control
  <1>5. Made'
    <2>1. \A x \in Outputs : x <= 0 => x = 0
      BY DEF Outputs, Pipes
    <2>2. \A r \in Procs : stdout[r] = 0 /\ in[r] = 0 /\ fd[r] = 0
      <3>1. \A r \in Procs : stdout[r] \in Outputs /\ in[r] \in Outputs /\ fd[r] \in Outputs
        BY <1>t DEF Kinds
      <3> QED
        BY <1>t, <1>2, <2>1, <3>1 DEF Made
    <2> QED
      BY <1>t, <1>1, <2>2 DEF Made, Kinds
  <1>6. Ends' /\ Loaded' /\ Fed' /\ Blocked'
    BY <1>1 DEF Ends, Loaded, Fed, Blocked
  <1>7. Distinct' /\ Unclaimed'
    BY <1>2 DEF Distinct, Unclaimed
  <1>8. Branch'
    BY <1>t, <1>1, <1>2, FirstProcess DEF Kinds, Branch
  <1>9. Flow'
    BY <1>t, <1>1, <1>2 DEF Flow, Carries
  <1> QED
    BY <1>3, <1>4, <1>5, <1>6, <1>7, <1>8, <1>9 DEF IInv

LEMMA ForkStageFails ==
  ASSUME IInv, ForkFront \/ ForkExit, NoFork
  PROVE  \E next : Unforked(1, next)
  <1>1. PICK next \in Labels, child \in Labels :
          /\ \/ pc[1] = "front" /\ next = "exit" /\ child = "frontchild"
             \/ pc[1] = "exit" /\ next = "closeboth" /\ child = "exitchild"
          /\ ForkStage(pc[1], next, child)
    BY DEF ForkFront, ForkExit, ForkStage, At, Labels
  <1>2. state[1] = "code" /\ scarce
    BY <1>1 DEF ForkStage, At, NoFork
  <1>3. shell = "n"
    BY <1>1, FirstProcess DEF IInv, Kinds, Control
  <1>4. /\ pc' = [pc EXCEPT ![1] = next]
        /\ UNCHANGED <<state, stdin, stdout, fds, fd>>
    <2>1. \A c \in Procs : ~Fork(1, c)
      BY DEF NoFork, Fork, IInv, Kinds
    <2> QED
      BY <1>1, <2>1 DEF ForkStage, NoFork, Goto
  <1>5. Unforked(1, next)
    BY <1>1, <1>2, <1>3, <1>4 DEF Unforked, ForkStage, progVars
  <1> QED
    BY <1>5

LEMMA ForkStageStep ==
  ASSUME IInv, ForkFront \/ ForkExit, ~NoFork
  PROVE  IInv'
  <1>t. /\ Kinds /\ Control /\ Made /\ Ends /\ Loaded /\ Fed /\ Blocked
        /\ Distinct /\ Unclaimed /\ Branch /\ Flow
    BY DEF IInv
  <1>1. PICK next \in Labels, child \in Labels :
          /\ \/ pc[1] = "front" /\ next = "exit" /\ child = "frontchild"
             \/ pc[1] = "exit" /\ next = "closeboth" /\ child = "exitchild"
          /\ ForkStage(pc[1], next, child)
    BY DEF ForkFront, ForkExit, ForkStage, At, Labels
  <1>2. PICK c \in Procs :
          /\ state[1] = "code" /\ state[c] = "none"
          /\ state' = [state EXCEPT ![c] = "code"]
          /\ stdin' = [stdin EXCEPT ![c] = stdin[1]] /\ stdout' = [stdout EXCEPT ![c] = stdout[1]]
          /\ fds' = [fds EXCEPT ![c] = fds[1]]
          /\ pc' = [pc EXCEPT ![1] = next, ![c] = child]
          /\ fd' = [fd EXCEPT ![c] = fd[1]]
          /\ UNCHANGED <<program, left, hold, buf, made, put, shell, scarce, cmd, i, in>>
    BY <1>1 DEF ForkStage, Fork, At, progVars
  <1>3. shell = "n" /\ c # 1
    <2>1. shell = "cmdline" => pc[1] \in {"none", "pipe", "spawn", "close"}
      BY <1>t, FirstProcess DEF Control
    <2> QED
      BY <1>t, <1>1, <1>2, <2>1 DEF Kinds
  <1>n. n' = n /\ \A k : Unexecutable(k)' = Unexecutable(k) /\ Blocking(k)' = Blocking(k)
    BY <1>2, SameCommands
  <1>4. /\ Writers' = Writers \cup {c} /\ c \notin Writers
        /\ \A w \in Writers : Out(w)' = Out(w) /\ state'[w] = state[w]
    BY <1>t, <1>1, <1>2, <1>3 DEF Kinds, Writers, Out
  <1>5. /\ pc[1] = "front" => Writers = {} /\ Out(c)' = 1
        /\ pc[1] = "exit" => (\A w \in Writers : Out(w) = 1) /\ Out(c)' = 0
    BY <1>t, <1>1, <1>2, <1>3, FirstProcess DEF Branch, Kinds, Out
  <1>6. Kinds'
    BY <1>t, <1>1, <1>2, <1>n, FirstProcess DEF Kinds, States
  <1>7. Control'
    BY <1>t, <1>1, <1>2, <1>3, FirstProcess DEF Kinds, Control
  <1>8. Made'
    BY <1>t, <1>1, <1>2, FirstProcess DEF Kinds, Made
  <1>9. Ends' /\ Loaded' /\ Fed' /\ Blocked'
    BY <1>2, <1>3 DEF Ends, Loaded, Fed, Blocked
  <1>10. Distinct'
    BY <1>t, <1>1, <1>2, <1>4, <1>5 DEF Distinct
  <1>11. Unclaimed'
    BY <1>t, <1>1, <1>2, <1>3, <1>7 DEF Control, Unclaimed
  <1>12. Branch'
    BY <1>t, <1>1, <1>2, <1>3, <1>4, <1>5, FirstProcess DEF Branch, Kinds
  <1>13. Flow'
    <2>1. \A r \in Procs : state'[r] = "prog" =>
            state[r] = "prog" /\ stdin'[r] = stdin[r] /\ stdout'[r] = stdout[r]
      BY <1>t, <1>1, <1>2 DEF Kinds
    <2>2. \A r \in Procs : state'[r] = "prog" => program'[r] \in Programs /\ Carries(r)'
      BY <1>t, <1>1, <1>2, <2>1 DEF Flow, Carries
    <2>3. put[Out(c)'] = 0
      BY <1>t, <1>1, <1>2, <1>5, FirstProcess DEF Flow, Outputs
    <2>4. \A w \in Writers' : state'[w] = "code" => put[Out(w)'] = 0
      BY <1>t, <1>4, <2>3 DEF Flow
    <2>5. \A x \in Outputs : (\A w \in Writers' : Out(w)' # x) => put[x] = 0
      BY <1>t, <1>4 DEF Flow
    <2> QED
      BY <1>t, <1>1, <1>2, <2>2, <2>4, <2>5 DEF Flow
  <1> QED
    BY <1>6, <1>7, <1>8, <1>9, <1>10, <1>11, <1>12, <1>13 DEF IInv

LEMMA CloseBothStep ==
  ASSUME IInv, CloseBoth
  PROVE  IInv'
  <1>t. /\ Kinds /\ Control /\ Made /\ Ends /\ Loaded /\ Fed /\ Blocked
        /\ Distinct /\ Unclaimed /\ Branch /\ Flow
    BY DEF IInv
  <1>1. /\ state[1] = "code" /\ pc[1] = "closeboth"
        /\ fds' = [fds EXCEPT ![1] = {}]
        /\ pc' = [pc EXCEPT ![1] = "prompt"]
        /\ UNCHANGED <<state, program, stdin, stdout, left, hold, buf, made, put,
                       shell, scarce, cmd, i, in, fd>>
    BY DEF CloseBoth, At, Goto
  <1>2. shell = "n"
    <2>1. shell = "cmdline" => pc[1] \in {"none", "pipe", "spawn", "close"}
      BY <1>t, FirstProcess DEF Control
    <2> QED
      BY <1>t, <1>1, <2>1 DEF Kinds
  <1>n. n' = n /\ \A k : Unexecutable(k)' = Unexecutable(k) /\ Blocking(k)' = Blocking(k)
    BY <1>1, SameCommands
  <1>3. Writers' = Writers /\ \A w \in Procs : Out(w)' = Out(w)
    BY <1>t, <1>1 DEF Kinds, Writers, Out
  <1>4. Kinds'
    BY <1>t, <1>1, <1>n DEF Kinds, Labels
  <1>5. Control'
    BY <1>t, <1>1, <1>2, FirstProcess DEF Kinds, Control
  <1>6. Made'
    BY <1>t, <1>1 DEF Made
  <1>7. Ends' /\ Loaded' /\ Fed' /\ Blocked'
    BY <1>1, <1>2 DEF Ends, Loaded, Fed, Blocked
  <1>8. Distinct' /\ Unclaimed'
    <2>1. \A r \in Procs : pc'[r] = "spawn" => pc[r] = "spawn"
      BY <1>t, <1>1 DEF Kinds
    <2> QED
      BY <1>t, <1>1, <1>3, <2>1 DEF Distinct, Unclaimed, Writers
  <1>9. Branch'
    BY <1>t, <1>1, <1>3, FirstProcess DEF Branch, Kinds
  <1>10. Flow'
    BY <1>t, <1>1, <1>3 DEF Flow, Carries, Writers
  <1> QED
    BY <1>4, <1>5, <1>6, <1>7, <1>8, <1>9, <1>10 DEF IInv

\* Both children end in execvp or in exit
LEMMA TwoStagesStep ==
  ASSUME IInv, NEW q \in Procs, TwoStages(q)
  PROVE  IInv'
  <1>t. /\ Kinds /\ Control /\ Made /\ Ends /\ Loaded /\ Fed /\ Blocked
        /\ Distinct /\ Unclaimed /\ Branch /\ Flow
    BY DEF IInv
  <1>1. /\ state[q] = "code" /\ pc[q] \in {"frontchild", "exitchild"}
        /\ stdin' = [stdin EXCEPT ![q] = IF pc[q] = "exitchild" THEN fd[q] ELSE @]
        /\ stdout' = [stdout EXCEPT ![q] = IF pc[q] = "frontchild" THEN fd[q] ELSE @]
        /\ fds' = [fds EXCEPT ![q] = {}]
        /\ pc' = [pc EXCEPT ![q] = "none"]
        /\ UNCHANGED <<buf, made, put, shell, scarce, cmd, i, in, fd>>
    BY <1>t DEF TwoStages, ExecFront, ExecExit, ExecOrExit, At, Goto, Kinds
  <1>2. \E k \in 1 .. n + 1 :
          \/ state' = [state EXCEPT ![q] = "exited"] /\ UNCHANGED progVars
          \/ ~Unexecutable(k) /\ Load(q, cmd[k])
    <2>1. 1 \in 1 .. n + 1 /\ 2 \in 1 .. n + 1
      BY <1>t DEF Kinds
    <2> QED
      BY <2>1 DEF TwoStages, ExecFront, ExecExit, ExecOrExit
  <1>3. shell = "n" /\ q # 1
    <2>1. shell = "cmdline" => pc[q] \in {"none", "pipe", "spawn", "close", "child"}
      BY <1>t, FirstProcess DEF Control
    <2>2. shell = "n" /\ q = 1 => pc[q] \in {"none", "pipe", "front", "exit", "closeboth", "prompt"}
      BY <1>t DEF Control
    <2> QED
      BY <1>t, <1>1, <2>1, <2>2 DEF Kinds
  <1>n. n' = n /\ \A k : Unexecutable(k)' = Unexecutable(k) /\ Blocking(k)' = Blocking(k)
    BY <1>1, SameCommands
  <1>4. /\ stdin' \in [Procs -> Outputs] /\ stdout' \in [Procs -> Outputs]
        /\ \A r \in Procs : r # q => stdin'[r] = stdin[r] /\ stdout'[r] = stdout[r]
        /\ stdout'[q] = Out(q) /\ q \in Writers
    BY <1>t, <1>1, <1>3 DEF Kinds, Out, Writers
  <1>5. \E how \in {"exited", "prog"} : state' = [state EXCEPT ![q] = how]
    BY <1>2 DEF Load
  <1>6. Writers' = Writers /\ \A w \in Procs : Out(w)' = Out(w)
    BY <1>t, <1>1, <1>3, <1>4, <1>5 DEF Kinds, Writers, Out
  <1>7. Kinds'
    <2>1. program' \in [Procs -> Programs \cup {"none"}]
      BY <1>t, <1>2, Executable DEF Kinds, Load, progVars
    <2>2. state' \in [Procs -> States]
      BY <1>t, <1>5 DEF Kinds, States, Dead
    <2> QED
      BY <1>t, <1>1, <1>n, <1>4, <2>1, <2>2 DEF Kinds, Labels
  <1>8. Control'
    BY <1>t, <1>1, <1>3, <1>5, FirstProcess DEF Kinds, Control
  <1>9. Made'
    BY <1>t, <1>1, <1>4 DEF Made, Kinds
  <1>10. Ends' /\ Loaded' /\ Fed' /\ Blocked'
    BY <1>1, <1>3 DEF Ends, Loaded, Fed, Blocked
  <1>11. Distinct' /\ Unclaimed'
    <2>1. \A r \in Procs : pc'[r] = "spawn" => pc[r] = "spawn"
      BY <1>t, <1>1 DEF Kinds
    <2> QED
      BY <1>t, <1>1, <1>6, <2>1 DEF Distinct, Unclaimed, Writers
  <1>12. Branch'
    BY <1>t, <1>1, <1>3, <1>4, <1>6, FirstProcess DEF Branch, Kinds, Writers
  <1>13. Flow'
    <2>1. CASE state' = [state EXCEPT ![q] = "exited"] /\ UNCHANGED progVars
      <3>1. \A r \in Procs : state'[r] = "prog" =>
              state[r] = "prog" /\ stdin'[r] = stdin[r] /\ stdout'[r] = stdout[r]
        BY <1>t, <1>4, <2>1 DEF Kinds
      <3>2. \A r \in Procs : state'[r] = "prog" => program'[r] \in Programs /\ Carries(r)'
        BY <1>t, <1>1, <2>1, <3>1 DEF Flow, Carries, progVars
      <3>3. \A w \in Writers' : state'[w] = "code" => put[Out(w)'] = 0
        BY <1>t, <1>6, <2>1 DEF Flow, Kinds, Writers
      <3>4. \A x \in Outputs : (\A w \in Writers' : Out(w)' # x) => put[x] = 0
        BY <1>t, <1>6 DEF Flow, Writers
      <3> QED
        BY <1>t, <1>1, <2>1, <3>2, <3>3, <3>4 DEF Flow, progVars
    <2>2. ASSUME NEW k \in 1 .. n + 1, ~Unexecutable(k), Load(q, cmd[k])
          PROVE  Flow'
      <3>1. cmd[k] \in Programs
        BY <1>t, <2>2, Executable
      <3>2. \A w \in Writers : Out(w)' = Out(w)
        BY <1>6 DEF Writers
      <3>3. stdin'[q] \in Outputs /\ stdout'[q] \in Outputs
        BY <1>4
      <3> QED
        BY <1>t, <1>1, <1>4, <1>6, <2>2, <3>1, <3>2, <3>3, LoadFlow
    <2> QED
      BY <1>2, <2>1, <2>2
  <1> QED
    BY <1>7, <1>8, <1>9, <1>10, <1>11, <1>12, <1>13 DEF IInv

-----------------------------------------------------------------------------
(* The steps of the programs *)

\* A program runs in a process that writes to its standard output
LEMMA Running ==
  ASSUME Kinds, Control, NEW q \in Procs, state[q] = "prog"
  PROVE  q \in Writers /\ pc[q] = "none" /\ Out(q) = stdout[q]
  BY FirstProcess DEF Kinds, Control, Writers, Out

\* A program ends: nothing that waits for a stage that cannot end does
LEMMA EndStep ==
  ASSUME IInv, NEW q \in Procs, Runs(q), NEW how \in Dead, End(q, how),
         shell = "cmdline" => how # "sigpipe" /\ \A k \in 1 .. n : Blocking(k) => i[q] < k,
         UNCHANGED <<shell, scarce, cmd, codeVars>>
  PROVE  IInv'
  <1>t. /\ Kinds /\ Control /\ Made /\ Ends /\ Loaded /\ Fed /\ Blocked
        /\ Distinct /\ Unclaimed /\ Branch /\ Flow
    BY DEF IInv
  <1>1. /\ state[q] = "prog" /\ state' = [state EXCEPT ![q] = how]
        /\ how \in {"exited", "sigpipe"}
        /\ UNCHANGED <<program, stdin, stdout, fds, left, hold, buf, made, put,
                       shell, scarce, cmd, pc, i, in, fd>>
    BY DEF Runs, End, codeVars, Dead
  <1>n. n' = n /\ \A k : Unexecutable(k)' = Unexecutable(k) /\ Blocking(k)' = Blocking(k)
    BY <1>1, SameCommands
  <1>2. /\ state'[q] = how
        /\ \A r \in Procs : r # q => state'[r] = state[r]
    BY <1>t, <1>1 DEF Kinds
  <1>3. Writers' = Writers /\ \A w \in Procs : Out(w)' = Out(w)
    BY <1>t, <1>1, <1>2 DEF Writers, Out
  <1>4. Kinds'
    BY <1>t, <1>1, <1>n DEF Kinds, States, Dead
  <1>5. Control'
    BY <1>t, <1>1, <1>n, <1>2, FirstProcess DEF Control
  <1>6. Made' /\ Unclaimed' /\ Distinct' /\ Branch'
    BY <1>t, <1>1, <1>3 DEF Made, Unclaimed, Distinct, Branch, Writers
  <1>7. Ends'
    BY <1>t, <1>1, <1>2 DEF Ends, Alive
  <1>8. Loaded'
    BY <1>t, <1>1, <1>n, <1>2 DEF Loaded
  <1>9. Blocked'
    BY <1>t, <1>1, <1>n, <1>2 DEF Blocked
  <1>10. Fed'
    BY <1>t, <1>1, <1>3 DEF Fed, Writers
  <1>11. Flow'
    <2>1. \A r \in Procs : state'[r] = "prog" => state[r] = "prog"
      BY <1>1, <1>2
    <2>2. \A r \in Procs : state'[r] = "code" => state[r] = "code"
      BY <1>1, <1>2
    <2> QED
      BY <1>t, <1>1, <1>3, <2>1, <2>2 DEF Flow, Carries, Writers
  <1> QED
    BY <1>4, <1>5, <1>6, <1>7, <1>8, <1>9, <1>10, <1>11 DEF IInv

\* What a process runs that was started for the stage after a blocking one, or for
\* a later one
LEMMA AfterBlocking ==
  ASSUME IInv, shell = "cmdline", NEW k \in 1 .. n, Blocking(k),
         NEW q \in Procs, state[q] \notin {"none", "code"}, i[q] >= k
  PROVE  i[q] > k /\ (program[q] = "filter" \/ Unexecutable(i[q])) /\ Alive(q)
  <1>1. n \in Nat /\ i[q] \in 1 .. n + 1 /\ state[q] \in States
    BY DEF IInv, Kinds
  <1>2. i[q] # k
    <2>1. i[q] <= n => ~Unexecutable(i[q])
      BY DEF IInv, Loaded
    <2> QED
      BY <2>1 DEF Blocking
  <1>3. i[q] > k /\ i[q] \in k + 1 .. n + 1
    BY <1>1, <1>2
  <1>4. cmd[i[q]] = "filter"
    BY <1>3 DEF Blocking
  <1>5. program[q] = "filter" \/ Unexecutable(i[q])
    BY <1>4 DEF IInv, Loaded
  <1>6. state[q] \notin Dead
    <2>1. state[q] \in Dead => i[q] < k
      BY DEF IInv, Blocked
    <2> QED
      BY <1>1, <2>1
  <1> QED
    BY <1>1, <1>3, <1>5, <1>6 DEF Alive, States

\* Read takes a datum out of a pipe and holds it
LEMMA ReadStep ==
  ASSUME IInv, NEW q \in Procs, Read(q), UNCHANGED <<shell, scarce, cmd, codeVars>>
  PROVE  IInv'
  <1>t. /\ Kinds /\ Control /\ Made /\ Ends /\ Loaded /\ Fed /\ Blocked
        /\ Distinct /\ Unclaimed /\ Branch /\ Flow
    BY DEF IInv
  <1>1. /\ state[q] = "prog" /\ program[q] # "source" /\ hold[q] = 0 /\ ~Finished(q)
        /\ stdin[q] # 0 /\ buf[stdin[q]] > 0
        /\ buf' = [buf EXCEPT ![stdin[q]] = @ - 1]
        /\ hold' = [hold EXCEPT ![q] = IF program[q] = "reader" THEN 0 ELSE 1]
        /\ UNCHANGED <<state, program, stdin, stdout, fds, left, made, put,
                       shell, scarce, cmd, pc, i, in, fd>>
    BY DEF Read, Wants, Runs, codeVars
  <1>n. n' = n /\ \A k : Unexecutable(k)' = Unexecutable(k) /\ Blocking(k)' = Blocking(k)
    BY <1>1, SameCommands
  <1>2. Writers' = Writers /\ \A w \in Procs : Out(w)' = Out(w)
    BY <1>1 DEF Writers, Out
  <1>3. Kinds' /\ Control' /\ Made' /\ Ends' /\ Loaded' /\ Blocked'
    <2>1. Kinds'
      BY <1>t, <1>1, <1>n DEF Kinds
    <2>2. Control' /\ Made' /\ Ends'
      BY <1>t, <1>1, <1>n DEF Control, Made, Ends, Alive
    <2>3. Loaded' /\ Blocked'
      BY <1>t, <1>1, <1>n DEF Loaded, Blocked
    <2> QED
      BY <2>1, <2>2, <2>3
  <1>4. Fed' /\ Distinct' /\ Unclaimed' /\ Branch'
    BY <1>t, <1>1, <1>2 DEF Fed, Distinct, Unclaimed, Branch, Writers
  <1>5. stdin[q] \in Pipes /\ Capacity \in Nat /\ Items \in Nat
    BY <1>t, <1>1, KernelAssumption DEF Kinds, Outputs
  <1>6. /\ buf' \in [Pipes -> 0 .. Capacity] /\ hold' \in [Procs -> {0, 1}]
        /\ \A p \in Pipes : buf'[p] <= buf[p] /\ buf[p] \in Nat /\ buf'[p] \in Nat
        /\ buf'[stdin[q]] = buf[stdin[q]] - 1
    BY <1>t, <1>1, <1>5 DEF Flow
  <1>7. \A x \in Outputs : put[x] \in Nat
    BY <1>t, <1>5 DEF Flow
  <1>8. \A p \in Pipes : buf'[p] <= put[p]
    BY <1>t, <1>5, <1>6, <1>7 DEF Flow, Outputs
  <1>9. ASSUME NEW r \in Procs, state[r] = "prog"
        PROVE  Carries(r)'
    <2>1. Carries(r) /\ left[r] \in Nat /\ put[stdout[r]] \in Nat /\ program[r] \in Programs
      BY <1>t, <1>5, <1>7, <1>9 DEF Flow, Kinds
    <2>2. CASE r = q
      <3>1. hold'[q] = IF program[q] = "reader" THEN 0 ELSE 1
        BY <1>t, <1>1 DEF Flow
      <3>2. program[q] = "head" => left[q] # 0
        BY <1>1 DEF Finished
      <3>3. put[stdin[q]] \in Nat /\ buf[stdin[q]] \in Nat /\ buf'[stdin[q]] \in Nat
        BY <1>5, <1>6, <1>7 DEF Outputs
      <3> QED
        BY <1>1, <1>6, <2>1, <2>2, <3>1, <3>2, <3>3 DEF Carries
    <2>3. CASE r # q
      <3>1. hold'[r] = hold[r] /\ hold[r] \in {0, 1}
        BY <1>t, <1>1, <2>3 DEF Flow
      <3>2. stdin[r] # 0 => /\ put[stdin[r]] \in Nat /\ buf[stdin[r]] \in Nat
                            /\ buf'[stdin[r]] \in Nat /\ buf'[stdin[r]] <= buf[stdin[r]]
        BY <1>t, <1>6, <1>7 DEF Kinds, Outputs
      <3> QED
        BY <1>1, <2>1, <3>1, <3>2 DEF Carries
    <2> QED
      BY <2>2, <2>3
  <1>10. Flow'
    BY <1>t, <1>1, <1>2, <1>6, <1>8, <1>9 DEF Flow, Writers
  <1> QED
    BY <1>3, <1>4, <1>10 DEF IInv

\* Write puts a datum where no other process writes
LEMMA WriteStep ==
  ASSUME IInv, NEW q \in Procs, Write(q), UNCHANGED <<shell, scarce, cmd, codeVars>>
  PROVE  IInv'
  <1>t. /\ Kinds /\ Control /\ Made /\ Ends /\ Loaded /\ Fed /\ Blocked
        /\ Distinct /\ Unclaimed /\ Branch /\ Flow
    BY DEF IInv
  <1> DEFINE out == stdout[q]
  <1>1. /\ state[q] = "prog" /\ (hold[q] = 1 \/ (program[q] = "source" /\ left[q] > 0))
        /\ \/ out = 0 /\ buf' = buf
           \/ out # 0 /\ buf[out] < Capacity /\ buf' = [buf EXCEPT ![out] = @ + 1]
        /\ put' = [put EXCEPT ![out] = @ + 1]
        /\ hold' = [hold EXCEPT ![q] = 0]
        /\ left' = [left EXCEPT ![q] = IF program[q] = "filter" THEN @ ELSE @ - 1]
        /\ UNCHANGED <<state, program, stdin, stdout, fds, made, shell, scarce, cmd, pc, i, in, fd>>
    BY DEF Write, HasDatum, Runs, codeVars
  <1>n. n' = n /\ \A k : Unexecutable(k)' = Unexecutable(k) /\ Blocking(k)' = Blocking(k)
    BY <1>1, SameCommands
  <1>2. Writers' = Writers /\ \A w \in Procs : Out(w)' = Out(w)
    BY <1>1 DEF Writers, Out
  <1>3. Kinds' /\ Control' /\ Made' /\ Ends' /\ Loaded' /\ Blocked'
    <2>1. Kinds'
      BY <1>t, <1>1, <1>n DEF Kinds
    <2>2. Control' /\ Made' /\ Ends'
      BY <1>t, <1>1, <1>n DEF Control, Made, Ends, Alive
    <2>3. Loaded' /\ Blocked'
      BY <1>t, <1>1, <1>n DEF Loaded, Blocked
    <2> QED
      BY <2>1, <2>2, <2>3
  <1>4. Fed' /\ Distinct' /\ Unclaimed' /\ Branch'
    BY <1>t, <1>1, <1>2 DEF Fed, Distinct, Unclaimed, Branch, Writers
  <1>5. /\ out \in Outputs /\ Capacity \in Nat /\ Items \in Nat /\ q \in Writers /\ Out(q) = out
        /\ stdin[q] \in Outputs
    BY <1>t, <1>1, Running, KernelAssumption DEF Kinds
  <1>6. /\ \A x \in Outputs : put[x] \in 0 .. Items
        /\ \A p \in Pipes : buf[p] \in 0 .. Capacity /\ buf[p] <= put[p] /\ p \in Outputs /\ p # 0
        /\ left[q] \in 0 .. Items /\ hold[q] \in {0, 1}
        /\ out # 0 => out \in Pipes
    BY <1>t, <1>5 DEF Flow, Outputs, Pipes
  <1>7. Carries(q) /\ program[q] \in Programs
    BY <1>t, <1>1 DEF Flow
  <1>8. stdin[q] # 0 => stdin[q] \in Pipes
    BY <1>5 DEF Outputs
  \* The room that is left
  <1>9. /\ put[out] + 1 <= Items
        /\ program[q] # "filter" => left[q] >= 1
        /\ program[q] = "filter" => stdin[q] # 0 /\ stdin[q] # out
    <2>1. CASE program[q] = "source"
      BY <1>1, <1>5, <1>6, <1>7, <2>1 DEF Carries
    <2>2. CASE program[q] = "head"
      BY <1>1, <1>5, <1>6, <1>7, <2>2, KernelAssumption DEF Carries
    <2>3. CASE program[q] = "filter"
      <3>1. hold[q] = 1
        BY <1>1, <2>3
      <3>2. stdin[q] # 0
        <4>1. stdin[q] = 0 => put[out] + hold[q] = 0
          BY <1>7, <2>3 DEF Carries
        <4> QED
          BY <1>5, <1>6, <3>1, <4>1
      <3>3. put[out] + 1 + buf[stdin[q]] <= put[stdin[q]]
        BY <1>7, <2>3, <3>1, <3>2 DEF Carries
      <3>4. buf[stdin[q]] \in Nat /\ put[stdin[q]] \in 0 .. Items /\ put[out] \in Nat
        BY <1>5, <1>6, <1>8, <3>2
      <3>5. stdin[q] # out
        BY <3>3, <3>4
      <3> QED
        BY <1>5, <2>3, <3>2, <3>3, <3>4, <3>5
    <2>4. CASE program[q] = "reader"
      BY <1>1, <1>7, <2>4 DEF Carries
    <2> QED
      BY <1>7, <2>1, <2>2, <2>3, <2>4 DEF Programs
  <1> HIDE DEF out
  <1>10. /\ put' \in [Outputs -> 0 .. Items] /\ put'[out] = put[out] + 1
         /\ \A x \in Outputs : x # out => put'[x] = put[x]
    BY <1>t, <1>1, <1>5, <1>6, <1>9 DEF Flow
  <1>11. /\ buf' \in [Pipes -> 0 .. Capacity]
         /\ \A p \in Pipes : buf'[p] = IF p = out THEN buf[p] + 1 ELSE buf[p]
    <2>1. CASE out = 0 /\ buf' = buf
      BY <1>t, <1>6, <2>1 DEF Flow
    <2>2. CASE out # 0 /\ buf[out] < Capacity /\ buf' = [buf EXCEPT ![out] = @ + 1]
      BY <1>t, <1>5, <1>6, <2>2 DEF Flow
    <2> QED
      BY <1>1, <2>1, <2>2
  <1>12. /\ hold' \in [Procs -> {0, 1}] /\ left' \in [Procs -> 0 .. Items]
         /\ hold'[q] = 0 /\ left'[q] = IF program[q] = "filter" THEN left[q] ELSE left[q] - 1
         /\ \A r \in Procs : r # q => hold'[r] = hold[r] /\ left'[r] = left[r]
    BY <1>t, <1>1, <1>5, <1>6, <1>9 DEF Flow
  <1>13. \A p \in Pipes : buf'[p] <= put'[p]
    BY <1>5, <1>6, <1>10, <1>11
  <1>14. ASSUME NEW x \in Outputs, \A w \in Writers : Out(w) # x
         PROVE  put'[x] = 0
    BY <1>t, <1>5, <1>10, <1>14 DEF Flow
  <1>15. ASSUME NEW w \in Writers, state[w] = "code"
         PROVE  put'[Out(w)] = 0
    <2>1. Out(w) # out
      BY <1>t, <1>1, <1>5, <1>15 DEF Distinct
    <2>2. Out(w) \in Outputs
      BY <1>t, OutType DEF Writers
    <2> QED
      BY <1>t, <1>10, <1>15, <2>1, <2>2 DEF Flow
  <1>16. ASSUME NEW r \in Procs, state[r] = "prog"
         PROVE  Carries(r)'
    <2>1. Carries(r) /\ program[r] \in Programs /\ stdin[r] \in Outputs
      BY <1>t, <1>16 DEF Flow, Kinds
    <2>2. CASE r = q
      <3>1. stdin[q] # 0 => put'[stdin[q]] >= put[stdin[q]] /\ put'[stdin[q]] \in Nat
                            /\ put[stdin[q]] \in Nat /\ buf[stdin[q]] \in Nat
        BY <1>5, <1>6, <1>8, <1>10
      <3>2. program[q] = "filter" => buf'[stdin[q]] = buf[stdin[q]] /\ put'[stdin[q]] = put[stdin[q]]
        BY <1>8, <1>9, <1>10, <1>11, <1>5
      <3>3. stdout[q] = out /\ put[out] \in Nat /\ left[q] \in Nat
        BY <1>5, <1>6 DEF out
      <3>4. CASE program[q] = "filter"
        <4>1. hold[q] = 1
          BY <1>1, <3>4
        <4> QED
          BY <1>1, <1>7, <1>9, <1>10, <1>12, <2>2, <3>1, <3>2, <3>3, <3>4, <4>1 DEF Carries
      <3>5. CASE program[q] # "filter"
        BY <1>1, <1>5, <1>6, <1>7, <1>9, <1>10, <1>12, <2>2, <3>3, <3>5, KernelAssumption DEF Carries
      <3> QED
        BY <3>4, <3>5
    <2>3. CASE r # q
      <3>1. stdout[r] # out /\ stdout[r] \in Outputs
        BY <1>t, <1>5, <1>16, <2>3, Running DEF Distinct, Kinds
      <3>2. put'[stdout[r]] = put[stdout[r]] /\ hold'[r] = hold[r] /\ left'[r] = left[r]
        BY <1>10, <1>12, <2>3, <3>1
      <3>3. CASE stdin[r] = 0
        BY <1>1, <2>1, <3>2, <3>3 DEF Carries
      <3>4. CASE stdin[r] # 0
        <4>1. stdin[r] \in Pipes
          BY <2>1, <3>4 DEF Outputs
        <4>2. \/ buf'[stdin[r]] = buf[stdin[r]] /\ put'[stdin[r]] = put[stdin[r]]
              \/ buf'[stdin[r]] = buf[stdin[r]] + 1 /\ put'[stdin[r]] = put[stdin[r]] + 1
          BY <1>10, <1>11, <2>1, <4>1
        <4>3. /\ put[stdout[r]] \in Nat /\ put[stdin[r]] \in Nat /\ buf[stdin[r]] \in Nat
              /\ hold[r] \in {0, 1}
          BY <1>t, <1>5, <1>6, <2>1, <3>1, <4>1 DEF Flow
        <4> QED
          BY <1>1, <2>1, <3>2, <3>4, <4>2, <4>3 DEF Carries
      <3> QED
        BY <3>3, <3>4
    <2> QED
      BY <2>2, <2>3
  <1>17. Flow'
    BY <1>t, <1>1, <1>2, <1>10, <1>11, <1>12, <1>13, <1>14, <1>15, <1>16 DEF Flow, Writers
  <1> QED
    BY <1>3, <1>4, <1>17 DEF IInv

\* ReadEnd: a process after a blocking stage never sees the end of its input, for
\* the writer it is fed by runs
LEMMA ReadEndStep ==
  ASSUME IInv, NEW q \in Procs, ReadEnd(q), UNCHANGED <<shell, scarce, cmd, codeVars>>
  PROVE  IInv'
  <1>1. Runs(q) /\ End(q, "exited") /\ stdin[q] # 0 /\ ~HasWriter(stdin[q])
    BY DEF ReadEnd, Wants
  <1>2. ASSUME shell = "cmdline", NEW k \in 1 .. n, Blocking(k), ~(i[q] < k)
        PROVE  FALSE
    <2>1. i[q] \in Nat /\ k \in Nat /\ n \in Nat
      BY DEF IInv, Kinds
    <2>2. i[q] > k /\ i[q] > 1
      BY <1>1, <1>2, <2>1, AfterBlocking DEF Runs
    <2>3. stdin[q] = in[q]
      BY <1>1, <1>2, <2>2 DEF IInv, Loaded, Runs
    <2>4. PICK w \in Writers : Out(w) = in[q] /\ i[w] >= i[q] - 1
      BY <1>2, <2>2 DEF IInv, Fed, Blocking
    <2>5. w \in Procs /\ state[w] # "none" /\ i[w] >= k
      BY <2>1, <2>2, <2>4 DEF Writers, IInv, Kinds
    <2>6. Alive(w)
      BY <1>2, <2>5, AfterBlocking DEF Alive
    <2>7. HoldsWrite(w, in[q])
      <3>1. pc[w] # "frontchild"
        BY <1>2, <2>5 DEF IInv, Control
      <3>2. pc[w] = "child" => <<"w", fd[w]>> \in fds[w]
        BY <1>2, <2>5 DEF IInv, Ends
      <3> QED
        BY <2>4, <3>1, <3>2 DEF Out, HoldsWrite
    <2> QED
      BY <1>1, <2>3, <2>5, <2>6, <2>7 DEF HasWriter
  <1> QED
    BY <1>1, <1>2, EndStep DEF Dead

\* WriteBroken happens in n.c only: in cmdline.c a process reads its own output
LEMMA WriteBrokenStep ==
  ASSUME IInv, NEW q \in Procs, WriteBroken(q), UNCHANGED <<shell, scarce, cmd, codeVars>>
  PROVE  IInv'
  <1>1. Runs(q) /\ End(q, "sigpipe") /\ stdout[q] # 0 /\ ~HasReader(stdout[q])
    BY DEF WriteBroken, HasDatum
  <1>2. shell # "cmdline"
    BY <1>1 DEF IInv, Ends, Alive, Runs, HasReader, HoldsRead
  <1> QED
    BY <1>1, <1>2, EndStep DEF Dead

\* Finish: a source or a head, which no blocking stage is followed by
LEMMA FinishStep ==
  ASSUME IInv, NEW q \in Procs, Finish(q), UNCHANGED <<shell, scarce, cmd, codeVars>>
  PROVE  IInv'
  <1>1. Runs(q) /\ End(q, "exited") /\ program[q] \in {"source", "head"}
    BY DEF Finish, Finished
  <1>2. ASSUME shell = "cmdline", NEW k \in 1 .. n, Blocking(k), ~(i[q] < k)
        PROVE  FALSE
    <2>1. i[q] \in Nat /\ k \in Nat /\ state[q] = "prog"
      BY <1>1 DEF IInv, Kinds, Runs
    <2>2. program[q] = IF Unexecutable(i[q]) THEN "reader" ELSE cmd[i[q]]
      BY <1>2, <2>1 DEF IInv, Loaded
    <2>3. program[q] = "filter" \/ Unexecutable(i[q])
      BY <1>2, <2>1, AfterBlocking
    <2> QED
      BY <1>1, <2>2, <2>3
  <1> QED
    BY <1>1, <1>2, EndStep DEF Dead

LEMMA NextIInv == IInv /\ [Next]_vars => IInv'
  <1> SUFFICES ASSUME IInv, [Next]_vars PROVE IInv'
    OBVIOUS
  <1>1. CASE UNCHANGED vars
    <2>1. /\ UNCHANGED <<state, program, stdin, stdout, fds, left, hold, buf, made, put,
                         shell, scarce, cmd, pc, i, in, fd>>
          /\ n' = n /\ \A k : Unexecutable(k)' = Unexecutable(k) /\ Blocking(k)' = Blocking(k)
      BY <1>1, SameCommands DEF vars, kernelVars, codeVars
    <2>2. Writers' = Writers /\ \A q : Out(q)' = Out(q) /\ Carries(q)' = Carries(q)
      BY <2>1 DEF Writers, Out, Carries
    <2>3. Kinds' /\ Control' /\ Made' /\ Ends' /\ Loaded'
      BY <2>1 DEF IInv, Kinds, Control, Made, Ends, Alive, Loaded
    <2>4. Fed' /\ Blocked'
      BY <2>1, <2>2 DEF IInv, Fed, Blocked
    <2>5. Distinct' /\ Unclaimed' /\ Branch' /\ Flow'
      BY <2>1, <2>2 DEF IInv, Distinct, Unclaimed, Branch, Flow
    <2> QED
      BY <2>3, <2>4, <2>5 DEF IInv
  <1>2. CASE CreatePd
    BY <1>2, CreatePdStep, NoPdStep
  <1>3. CASE ForkFront \/ ForkExit
    BY <1>3, ForkStageStep, ForkStageFails, UnforkedStep, FirstProcess
  <1>4. CASE CloseBoth
    BY <1>4, CloseBothStep
  <1>5. ASSUME NEW q \in Procs, ForkPipes(q)
        PROVE  IInv'
    <2>1. CASE Spawn(q)
      BY <2>1, SpawnStep, SpawnFails, UnforkedStep
    <2> QED
      BY <1>5, <2>1, CreatePipeStep, ExecStageStep, CloseWriteEndStep, ExecLastStep DEF ForkPipes
  <1>6. ASSUME NEW q \in Procs, TwoStages(q)
        PROVE  IInv'
    BY <1>6, TwoStagesStep
  <1>7. ASSUME NEW q \in Procs, ProgramStep(q), UNCHANGED <<shell, scarce, cmd, codeVars>>
        PROVE  IInv'
    BY <1>7, ReadStep, ReadEndStep, WriteStep, WriteBrokenStep, FinishStep DEF ProgramStep
  <1> QED
    BY <1>1, <1>2, <1>3, <1>4, <1>5, <1>6, <1>7 DEF Next, Step

-----------------------------------------------------------------------------
(* What holds of every behaviour *)

\* The inductive invariant holds in every reachable state.
THEOREM Inductive == Spec => []IInv
  <1> QED
    BY InitIInv, NextIInv, PTL DEF Spec

\* Every variable keeps its type, for every instance: fork_pipes leaves its loop
\* after n iterations in every copy of it (cmdline.c:122), and no pipe and not the
\* terminal ever receives more data than the source writes, also when the copy of
\* fork_pipes has made the pipes a ring.
THEOREM TypeCorrect == Spec => []TypeOK
  <1>1. IInv => TypeOK
    BY DEF IInv, Kinds, Flow, TypeOK, KernelTypeOK
  <1> QED
    BY <1>1, Inductive, PTL

\* No stage that cmdline.c starts is told that nobody reads its output, however many
\* stages there are and whatever they are: each keeps the read end of its own pipe
\* (cmdline.c:91-103).
THEOREM NobodyIsTold == Spec => []NoBrokenPipe
  <1>1. IInv => NoBrokenPipe
    BY DEF IInv, Ends, NoBrokenPipe
  <1> QED
    BY <1>1, Inductive, PTL

\* The shell of cmdline.c waits for ever after a stage that cannot be executed, if
\* every later one reads to the end of its input, for any number of stages
\* that are all forked (cmdline.c:103, 122-132).
THEOREM BlocksShell == Spec => []FailedStageBlocksShell
  <1>1. IInv => FailedStageBlocksShell
    <2> SUFFICES ASSUME IInv, shell = "cmdline", NEW k \in 1 .. n, Blocking(k)
                 PROVE  Alive(1)
      BY DEF FailedStageBlocksShell, Blocking
    <2>1. CASE state[1] = "code"
      BY <2>1 DEF Alive
    <2>2. CASE state[1] # "code"
      <3>1. state[1] \notin {"none", "code"}
        BY <2>2 DEF IInv, Control
      <3>2. i[1] = n + 1
        BY <3>1, FirstProcess DEF IInv, Loaded
      <3>3. i[1] >= k
        BY <3>2 DEF IInv, Kinds
      <3> QED
        BY <3>1, <3>3, FirstProcess, AfterBlocking
    <2> QED
      BY <2>1, <2>2
  <1> QED
    BY <1>1, Inductive, PTL

-----------------------------------------------------------------------------
(* Pipelines whose commands all run and read to the end *)

Straight == shell = "cmdline" /\ ~FailedStage
Clean == Straight /\ ~scarce /\ AllFilters

Executed(q) == state[q] \notin {"none", "code"}

\* Only the process the shell waits for goes on in fork_pipes: a child for stage k
\* reads pipe k - 1 and writes to pipe k
Shape ==
  Straight =>
    /\ cmd[1] = "source" /\ stdout[1] = 0 /\ in[1] = i[1] - 1
    /\ pc[1] \in {"spawn", "close"} => fd[1] = i[1] /\ made = i[1]
    /\ pc[1] = "pipe" => made = i[1] - 1
    /\ \A q \in Writers \ {1} :
         /\ pc[q] \in {"none", "child"}
         /\ Out(q) = i[q] /\ in[q] = i[q] - 1
         /\ i[q] < i[1] \/ (i[q] = i[1] /\ pc[1] = "close")

\* What was written to a pipe is in it, or its only reader has it or passed it on
Conserved ==
  Clean =>
    /\ \A q \in Procs : Executed(q) /\ i[q] > 1 =>
         put[stdout[q]] + hold[q] + buf[in[q]] = put[in[q]]
    /\ \A p \in Pipes : (\A q \in Procs : Executed(q) => i[q] # p + 1) => buf[p] = put[p]

\* A stage ends after the ones before it, and has written all there is
Drained ==
  Clean => \A q \in Procs :
    /\ state[q] # "prog" => left[q] = 0 /\ hold[q] = 0
    /\ state[q] \in Dead =>
         put[stdout[q]] = Items /\ \A w \in Writers : i[w] < i[q] => state[w] \in Dead

CleanInv == IInv /\ Shape /\ Conserved /\ Drained

LEMMA InitClean == Init => Shape /\ Conserved /\ Drained
  <1> SUFFICES ASSUME Init PROVE Shape /\ Conserved /\ Drained
    OBVIOUS
  <1>1. IInv
    BY InitIInv
  <1>2. Shape
    <2>1. ~FailedStage => cmd[1] = "source"
      BY <1>1 DEF Init, FailedStage, Unexecutable, IInv, Kinds
    <2>2. \A q \in Writers : q = 1
      BY DEF Init, KernelInit, Writers
    <2> QED
      BY <2>1, <2>2, FirstProcess DEF Init, KernelInit, Shape, Straight
  <1>3. Conserved
    BY DEF Init, KernelInit, Conserved, Executed, Outputs
  <1>4. Drained
    BY DEF Init, KernelInit, Drained, Dead
  <1> QED
    BY <1>2, <1>3, <1>4

LEMMA StraightFacts ==
  ASSUME IInv, Straight
  PROVE  /\ shell = "cmdline" /\ n \in Nat \ {0} /\ Items \in Nat \ {0} /\ Pipes \subseteq Nat
         /\ \A k \in 1 .. n : ~Unexecutable(k)
         /\ Writers = {q \in Procs : state[q] # "none"} /\ 1 \in Writers
         /\ \A q \in Procs : /\ i[q] \in 1 .. n + 1 /\ in[q] \in Outputs /\ stdin[q] \in Outputs
                             /\ stdout[q] \in Outputs /\ Out(q) \in Outputs
         /\ \A x \in Outputs : x \in Nat /\ put[x] \in Nat /\ (x # 0 => x \in Pipes)
         /\ \A p \in Pipes : p \in Outputs /\ p # 0 /\ buf[p] \in Nat
  <1>1. shell = "cmdline" /\ n \in Nat \ {0} /\ Items \in Nat \ {0} /\ Pipes \subseteq Nat
    BY KernelAssumption DEF IInv, Kinds, Straight, Pipes
  <1>2. \A k \in 1 .. n : ~Unexecutable(k)
    BY DEF Straight, FailedStage
  <1>3. Writers = {q \in Procs : state[q] # "none"} /\ 1 \in Writers
    BY <1>1, FirstProcess DEF IInv, Control, Writers
  <1>4. \A q \in Procs : /\ i[q] \in 1 .. n + 1 /\ in[q] \in Outputs /\ stdin[q] \in Outputs
                         /\ stdout[q] \in Outputs /\ Out(q) \in Outputs
    BY OutType DEF IInv, Kinds
  <1>5. \A x \in Outputs : x \in Nat /\ put[x] \in Nat /\ (x # 0 => x \in Pipes)
    <2>1. put \in [Outputs -> 0 .. Items] /\ 0 .. Items \subseteq Nat
      BY <1>1 DEF IInv, Flow
    <2>2. \A x \in Outputs : x \in Nat /\ (x # 0 => x \in Pipes)
      BY <1>1 DEF Outputs
    <2> QED
      BY <2>1, <2>2
  <1>6. \A p \in Pipes : p \in Outputs /\ p # 0 /\ buf[p] \in Nat
    BY KernelAssumption DEF IInv, Flow, Outputs, Pipes
  <1> QED
    BY <1>1, <1>2, <1>3, <1>4, <1>5, <1>6

LEMMA CleanFacts ==
  ASSUME IInv, Shape, Clean
  PROVE  /\ shell = "cmdline" /\ n \in Nat \ {0} /\ Items \in Nat \ {0} /\ Pipes \subseteq Nat
         /\ \A k \in 1 .. n + 1 : ~Unexecutable(k) /\ cmd[k] = IF k = 1 THEN "source" ELSE "filter"
         /\ Writers = {q \in Procs : state[q] # "none"} /\ 1 \in Writers
         /\ \A q \in Procs : /\ i[q] \in 1 .. n + 1 /\ in[q] \in Outputs /\ stdin[q] \in Outputs
                             /\ stdout[q] \in Outputs /\ Out(q) \in Outputs
         /\ \A x \in Outputs : x \in Nat /\ put[x] \in Nat /\ (x # 0 => x \in Pipes)
         /\ \A p \in Pipes : p \in Outputs /\ p # 0 /\ buf[p] \in Nat
  <1>1. Straight
    BY DEF Clean
  <1>2. \A k \in 1 .. n + 1 : ~Unexecutable(k) /\ cmd[k] = IF k = 1 THEN "source" ELSE "filter"
    <2>1. cmd[1] = "source"
      BY <1>1 DEF Shape
    <2>2. \A k \in 2 .. n + 1 : cmd[k] = "filter"
      BY DEF Clean, AllFilters
    <2>3. n \in Nat \ {0}
      BY DEF IInv, Kinds
    <2> QED
      BY <2>1, <2>2, <2>3 DEF Unexecutable
  <1> QED
    BY <1>1, <1>2, StraightFacts

\* The stage of a process, and that it is alone in it
LEMMA Stage ==
  ASSUME IInv, Shape, Straight, NEW q \in Procs, Executed(q)
  PROVE  /\ q \in Writers /\ pc[q] = "none" /\ Out(q) = stdout[q] /\ in[q] = i[q] - 1
         /\ program[q] = IF Unexecutable(i[q]) THEN "reader" ELSE cmd[i[q]]
         /\ i[q] > 1 => stdin[q] = in[q] /\ in[q] \in Pipes /\ in[q] # stdout[q]
         /\ IF q = 1 THEN i[q] = n + 1 ELSE i[q] <= n
         /\ \A r \in Writers \ {1} : i[r] = i[q] => r = q
  <1>1. q \in Writers /\ pc[q] = "none" /\ Out(q) = stdout[q]
    BY StraightFacts DEF Executed, IInv, Control, Out
  <1>2. in[q] = i[q] - 1
    BY <1>1 DEF Shape
  <1>3. program[q] = (IF Unexecutable(i[q]) THEN "reader" ELSE cmd[i[q]])
        /\ (i[q] > 1 => stdin[q] = in[q]) /\ (q = 1 => i[q] = n + 1)
    BY StraightFacts DEF Executed, IInv, Loaded
  <1>4. q # 1 => i[q] <= n
    <2>1. ASSUME q # 1 PROVE i[q] < i[1] \/ (i[q] = i[1] /\ pc[1] = "close")
      BY <1>1, <2>1 DEF Shape
    <2>2. pc[1] = "close" => i[1] <= n
      BY StraightFacts, FirstProcess DEF IInv, Control
    <2> QED
      BY <2>1, <2>2, StraightFacts, FirstProcess
  <1>5. i[q] > 1 => in[q] \in Pipes
    BY <1>2, StraightFacts
  <1>6. i[q] > 1 => in[q] # stdout[q]
    BY <1>1, <1>2, <1>3, <1>4, StraightFacts DEF Shape
  <1>7. ASSUME NEW r \in Writers \ {1}, i[r] = i[q] PROVE r = q
    <2>1. r \in Procs /\ Out(r) = i[r] /\ i[r] \in Nat
      BY StraightFacts DEF Shape, Writers
    <2>2. q # 1 => Out(q) = i[q]
      BY <1>1 DEF Shape
    <2>3. CASE q # 1
      BY <1>1, <1>7, <2>1, <2>2, <2>3 DEF IInv, Distinct
    <2>4. CASE q = 1
      <3>1. i[r] < i[1]
        BY <1>1, <2>4 DEF Shape
      <3> QED
        BY <1>7, <2>1, <2>4, <3>1
    <2> QED
      BY <2>3, <2>4
  <1> QED
    BY <1>1, <1>2, <1>3, <1>4, <1>5, <1>6, <1>7, StraightFacts

LEMMA CleanStage ==
  ASSUME IInv, Shape, Clean, NEW q \in Procs, Executed(q)
  PROVE  program[q] = IF i[q] = 1 THEN "source" ELSE "filter"
  BY Stage, CleanFacts DEF Clean

LEMMA OneStage ==
  ASSUME IInv, Shape, Straight, NEW q \in Procs, Executed(q), NEW r \in Procs, Executed(r), i[r] = i[q]
  PROVE  r = q
  <1>1. i[q] \in Nat /\ n \in Nat
    BY StraightFacts
  <1>2. CASE r # 1
    BY <1>2, Stage
  <1>3. CASE r = 1
    BY <1>1, <1>3, Stage
  <1> QED
    BY <1>2, <1>3

\* Whether the pipeline is straight and clean does not change
LEMMA SameClean ==
  ASSUME UNCHANGED <<shell, scarce, cmd>>
  PROVE  n' = n /\ Straight' = Straight /\ Clean' = Clean
  BY DEF n, Straight, Clean, FailedStage, AllFilters, Unexecutable

\* The process that waits for a pipeline is the only one in fork_pipes
LEMMA InForkPipes ==
  ASSUME IInv, Shape, Straight, NEW q \in Procs, pc[q] \in {"pipe", "spawn", "close"}
  PROVE  q = 1
  BY StraightFacts DEF IInv, Control, Shape

\* Steps of fork_pipes that execute nothing
LEMMA CleanCreatePipe ==
  ASSUME IInv, Shape, Conserved, Drained, Straight, NEW q \in Procs, CreatePipe(q)
  PROVE  Shape' /\ Conserved' /\ Drained'
  <1>1. /\ q = 1 /\ state[1] = "code" /\ pc[1] = "pipe" /\ made' = made + 1
        /\ fd' = [fd EXCEPT ![1] = made + 1]
        /\ pc' = [pc EXCEPT ![1] = "spawn"]
        /\ UNCHANGED <<state, program, stdin, stdout, left, hold, buf, put, shell, scarce, cmd, i, in>>
    BY InForkPipes DEF CreatePipe, At, Goto
  <1>2. Writers' = Writers /\ \A w \in Procs : Out(w)' = Out(w)
    BY <1>1 DEF IInv, Kinds, Writers, Out
  <1>3. /\ fd'[1] = made + 1 /\ pc'[1] = "spawn" /\ made = i[1] - 1 /\ i[1] \in Nat
        /\ \A r \in Procs : r # 1 => pc'[r] = pc[r]
    BY <1>1, StraightFacts, FirstProcess DEF IInv, Kinds, Shape
  <1>4. Shape'
    <2>1. \A w \in Writers \ {1} : /\ w \in Procs /\ w # 1 /\ i[w] < i[1] /\ Out(w)' = Out(w)
                                   /\ pc[w] \in {"none", "child"} /\ Out(w) = i[w] /\ in[w] = i[w] - 1
      BY <1>1, <1>2 DEF Shape, Writers
    <2>2. \A w \in Writers' \ {1} :
            /\ pc'[w] \in {"none", "child"} /\ Out(w)' = i'[w] /\ in'[w] = i'[w] - 1
            /\ i'[w] < i'[1]
      BY <1>1, <1>2, <1>3, <2>1
    <2>3. cmd[1] = "source" /\ stdout[1] = 0 /\ in[1] = i[1] - 1
      BY DEF Shape
    <2> QED
      BY <1>1, <1>3, <2>2, <2>3 DEF Shape
  <1> QED
    BY <1>1, <1>2, <1>4, SameClean DEF Conserved, Drained, Executed

LEMMA CleanUnforked ==
  ASSUME IInv, Shape, Conserved, Drained, Straight, NEW q \in Procs, NEW next, Unforked(q, next)
  PROVE  Shape' /\ Conserved' /\ Drained'
  <1>1. /\ scarce /\ q = 1 /\ pc[1] = "spawn" /\ pc' = [pc EXCEPT ![1] = "close"]
        /\ UNCHANGED <<state, program, stdin, stdout, fds, left, hold, buf, made, put,
                       shell, scarce, cmd, i, in, fd>>
    BY InForkPipes DEF Unforked, Straight
  <1>2. Writers' = Writers /\ \A w \in Procs : Out(w)' = Out(w)
    BY UnforkedStep
  <1>3. pc'[1] = "close" /\ \A r \in Procs : r # 1 => pc'[r] = pc[r]
    BY <1>1, FirstProcess DEF IInv, Kinds
  <1>4. Shape'
    BY <1>1, <1>2, <1>3 DEF Shape, Writers
  <1>5. ~Clean'
    BY <1>1 DEF Clean
  <1> QED
    BY <1>4, <1>5 DEF Conserved, Drained

LEMMA CleanSpawn ==
  ASSUME IInv, Shape, Conserved, Drained, Straight, NEW q \in Procs, Spawn(q), ~NoFork
  PROVE  Shape' /\ Conserved' /\ Drained'
  <1>1. PICK c \in Procs :
          /\ state[c] = "none"
          /\ state' = [state EXCEPT ![c] = "code"]
          /\ stdin' = [stdin EXCEPT ![c] = stdin[q]] /\ stdout' = [stdout EXCEPT ![c] = stdout[q]]
          /\ pc' = [pc EXCEPT ![q] = "close", ![c] = "child"]
          /\ i' = [i EXCEPT ![c] = i[q]] /\ in' = [in EXCEPT ![c] = in[q]]
          /\ fd' = [fd EXCEPT ![c] = fd[q]]
    BY DEF Spawn, Fork
  <1>2. /\ q = 1 /\ state[1] = "code" /\ pc[1] = "spawn" /\ c # 1
        /\ UNCHANGED <<program, left, hold, buf, made, put, shell, scarce, cmd>>
    BY <1>1, InForkPipes DEF Spawn, At, progVars
  <1>3. /\ state'[c] = "code" /\ i'[c] = i[1] /\ in'[c] = in[1] /\ fd'[c] = fd[1] /\ pc'[c] = "child"
        /\ stdout'[1] = stdout[1] /\ pc'[1] = "close"
        /\ \A r \in Procs : r # c => /\ state'[r] = state[r] /\ stdout'[r] = stdout[r] /\ i'[r] = i[r]
                                     /\ in'[r] = in[r] /\ fd'[r] = fd[r] /\ (r # 1 => pc'[r] = pc[r])
    BY <1>1, <1>2, FirstProcess DEF IInv, Kinds
  <1>4. /\ Writers' = Writers \cup {c} /\ c \notin Writers /\ Out(c)' = fd[1]
        /\ \A w \in Writers \ {1} : Out(w)' = Out(w)
    <2>1. shell = "cmdline" /\ shell' = "cmdline"
      BY <1>2 DEF Straight
    <2>2. \A r \in Procs : state'[r] # "none" <=> (state[r] # "none" \/ r = c)
      BY <1>1, <1>3
    <2>3. \A r \in Procs \ {1, c} : pc'[r] = pc[r] /\ fd'[r] = fd[r] /\ stdout'[r] = stdout[r]
      BY <1>3
    <2>4. c \notin Writers /\ Writers' = Writers \cup {c}
      BY <1>1, <2>1, <2>2 DEF Writers
    <2>5. \A w \in Writers \ {1} : w \in Procs \ {1, c}
      BY <2>4 DEF Writers
    <2> QED
      BY <1>3, <2>3, <2>4, <2>5 DEF Out
  <1>5. fd[1] = i[1] /\ made = i[1] /\ in[1] = i[1] - 1 /\ \A w \in Writers \ {1} : i[w] < i[1]
    BY <1>2 DEF Shape
  <1>6. Shape'
    <2>1. \A w \in Writers \ {1} : /\ w \in Procs \ {1, c} /\ i[w] < i[1] /\ Out(w)' = Out(w)
                                   /\ pc[w] \in {"none", "child"} /\ Out(w) = i[w] /\ in[w] = i[w] - 1
      BY <1>2, <1>4 DEF Shape, Writers
    <2>2. ASSUME NEW w \in Writers' \ {1}
          PROVE  /\ pc'[w] \in {"none", "child"} /\ Out(w)' = i'[w] /\ in'[w] = i'[w] - 1
                 /\ i'[w] < i'[1] \/ i'[w] = i'[1]
      <3>1. CASE w = c
        BY <1>2, <1>3, <1>4, <1>5, <3>1, FirstProcess
      <3>2. CASE w # c
        BY <1>2, <1>3, <1>4, <2>1, <2>2, <3>2, FirstProcess
      <3> QED
        BY <3>1, <3>2
    <2>3. cmd[1] = "source" /\ stdout[1] = 0
      BY DEF Shape
    <2> QED
      BY <1>2, <1>3, <1>5, <2>2, <2>3, FirstProcess DEF Shape
  <1>7. \A r \in Procs : (Executed(r)' => r # c) /\ Executed(r)' = Executed(r)
    BY <1>1, <1>3 DEF Executed
  <1>8. Conserved'
    <2>1. \A r \in Procs : Executed(r)' => stdout'[r] = stdout[r] /\ in'[r] = in[r] /\ i'[r] = i[r]
      BY <1>3, <1>7
    <2>2. UNCHANGED <<buf, put, hold>> /\ Clean' = Clean
      BY <1>2, SameClean
    <2> QED
      BY <1>7, <2>1, <2>2 DEF Conserved
  <1>9. Drained'
    <2> SUFFICES ASSUME Clean PROVE Drained'
      BY <1>2, SameClean DEF Drained
    <2>1. ASSUME NEW r \in Procs, state'[r] \in Dead
          PROVE  put[stdout'[r]] = Items /\ \A w \in Writers' : i'[w] < i'[r] => state'[w] \in Dead
      <3>1. r # c /\ state[r] \in Dead /\ r \in Writers \ {1} /\ r \in Procs
        BY <1>2, <1>3, <2>1 DEF Dead, Writers, Straight
      <3>2. i[r] < i[1] /\ i'[r] = i[r] /\ stdout'[r] = stdout[r] /\ i[r] \in Nat /\ i[1] \in Nat
        BY <1>3, <1>5, <3>1, StraightFacts, FirstProcess
      <3>3. ~(i'[c] < i'[r])
        BY <1>3, <3>2
      <3>4. \A w \in Writers : w # c /\ w \in Procs
        BY <1>4 DEF Writers
      <3> QED
        BY <1>3, <1>4, <3>1, <3>2, <3>3, <3>4 DEF Drained
    <2>2. \A r \in Procs : state'[r] # "prog" => left[r] = 0 /\ hold[r] = 0
      BY <1>1, <1>3 DEF Drained
    <2> QED
      BY <1>2, <2>1, <2>2 DEF Drained
  <1> QED
    BY <1>6, <1>8, <1>9

LEMMA CleanCloseWriteEnd ==
  ASSUME IInv, Shape, Conserved, Drained, Straight, NEW q \in Procs, CloseWriteEnd(q)
  PROVE  Shape' /\ Conserved' /\ Drained'
  <1>1. /\ q = 1 /\ state[1] = "code" /\ pc[1] = "close"
        /\ in' = [in EXCEPT ![1] = fd[1]]
        /\ i' = [i EXCEPT ![1] = @ + 1]
        /\ pc' = [pc EXCEPT ![1] = "pipe"]
        /\ UNCHANGED <<state, program, stdin, stdout, left, hold, buf, made, put, shell, scarce, cmd, fd>>
    BY InForkPipes DEF CloseWriteEnd, At, Goto
  <1>2. Writers' = Writers /\ \A w \in Procs : Out(w)' = Out(w)
    BY <1>1 DEF IInv, Kinds, Writers, Out
  <1>3. /\ in'[1] = fd[1] /\ i'[1] = i[1] + 1 /\ pc'[1] = "pipe"
        /\ \A r \in Procs : r # 1 => pc'[r] = pc[r] /\ in'[r] = in[r] /\ i'[r] = i[r]
    BY <1>1, FirstProcess DEF IInv, Kinds
  <1>4. /\ fd[1] = i[1] /\ made = i[1] /\ i[1] \in Nat
        /\ \A w \in Writers \ {1} : w \in Procs /\ i[w] \in Nat /\ i[w] <= i[1]
    BY <1>1, StraightFacts, FirstProcess DEF Shape, Writers
  <1>5. Shape'
    <2>1. \A w \in Writers \ {1} : /\ w \in Procs /\ w # 1 /\ Out(w)' = Out(w)
                                   /\ pc[w] \in {"none", "child"} /\ Out(w) = i[w] /\ in[w] = i[w] - 1
      BY <1>2 DEF Shape, Writers
    <2>2. \A w \in Writers' \ {1} :
            /\ pc'[w] \in {"none", "child"} /\ Out(w)' = i'[w] /\ in'[w] = i'[w] - 1
            /\ i'[w] < i'[1]
      BY <1>2, <1>3, <1>4, <2>1
    <2>3. cmd[1] = "source" /\ stdout[1] = 0
      BY DEF Shape
    <2> QED
      BY <1>1, <1>3, <1>4, <2>2, <2>3 DEF Shape
  <1>6. \A r \in Procs : Executed(r)' = Executed(r) /\ (Executed(r) => r # 1)
    BY <1>1 DEF Executed
  <1>7. Conserved'
    <2> SUFFICES ASSUME Clean PROVE Conserved'
      BY <1>1, SameClean DEF Conserved
    <2> QED
      BY <1>1, <1>3, <1>6, SameClean DEF Conserved
  <1>8. Drained'
    <2> SUFFICES ASSUME Clean PROVE Drained'
      BY <1>1, SameClean DEF Drained
    <2>1. ASSUME NEW r \in Procs, state[r] \in Dead, NEW w \in Writers, i'[w] < i'[r]
          PROVE  state[w] \in Dead
      <3>1. r # 1 /\ i'[r] = i[r] /\ i[r] \in Nat
        BY <1>1, <1>3, <2>1, StraightFacts DEF Dead
      <3>2. i[w] < i[r]
        BY <1>3, <1>4, <2>1, <3>1 DEF Writers
      <3> QED
        BY <2>1, <3>2 DEF Drained
    <2> QED
      BY <1>1, <1>2, <2>1 DEF Drained
  <1> QED
    BY <1>5, <1>7, <1>8

\* A stage executes its command: nothing was taken out of the pipe it will read
LEMMA CleanLoad ==
  ASSUME IInv, Shape, Conserved, Drained, Clean, NEW q \in Writers, state[q] = "code",
         NEW prog \in Programs, Load(q, prog),
         IF i[q] = 1 THEN prog = "source" ELSE prog = "filter",
         in[q] = i[q] - 1, \A r \in Procs : Executed(r) => i[r] # i[q],
         stdout'[q] = Out(q), Out(q) = IF q = 1 THEN 0 ELSE i[q],
         \A r \in Procs : r # q => stdout'[r] = stdout[r],
         UNCHANGED <<buf, put, shell, scarce, cmd, i, in>>
  PROVE  Conserved' /\ Drained'
  <1>1. q \in Procs /\ prog \in {"source", "filter"}
    BY DEF Writers
  <1>2. /\ state'[q] = "prog" /\ hold'[q] = 0
        /\ \A r \in Procs : r # q => /\ state'[r] = state[r] /\ left'[r] = left[r]
                                     /\ hold'[r] = hold[r] /\ stdout'[r] = stdout[r]
    BY <1>1 DEF Load, IInv, Kinds, Flow
  <1>3. \A r \in Procs : Executed(r)' <=> (Executed(r) \/ r = q)
    BY <1>2 DEF Executed
  <1>4. put[stdout'[q]] = 0
    BY DEF IInv, Flow
  <1>5. i[q] > 1 => in[q] \in Pipes /\ in[q] + 1 = i[q]
    BY <1>1, CleanFacts
  <1>6. i[q] > 1 => buf[in[q]] = put[in[q]] /\ buf[in[q]] \in Nat
    BY <1>1, <1>5, CleanFacts DEF Conserved
  <1>7. Conserved'
    <2>1. ASSUME NEW r \in Procs, Executed(r)', i[r] > 1
          PROVE  put[stdout'[r]] + hold'[r] + buf[in[r]] = put[in[r]]
      <3>1. CASE r = q
        BY <1>2, <1>4, <1>6, <2>1, <3>1
      <3>2. CASE r # q
        BY <1>2, <1>3, <2>1, <3>2 DEF Conserved
      <3> QED
        BY <3>1, <3>2
    <2> QED
      BY <1>3, <2>1, SameClean DEF Conserved
  <1>8. Drained'
    <2>1. \A r \in Procs : state'[r] # "prog" => r # q /\ state[r] # "prog"
      BY <1>2
    <2>2. \A r \in Procs : state'[r] \in Dead <=> (state[r] \in Dead)
      BY <1>2 DEF Dead
    <2>3. \A r \in Procs : state'[r] \in Dead => r # q
      BY <1>2 DEF Dead
    <2>4. \A w : w \in Writers' => w \in Writers
      BY <1>2 DEF Writers
    <2>5. \A w \in Writers : w \in Procs
      BY DEF Writers
    <2> QED
      BY <1>2, <2>1, <2>2, <2>3, <2>4, <2>5 DEF Drained
  <1> QED
    BY <1>7, <1>8

LEMMA CleanExecStage ==
  ASSUME IInv, Shape, Conserved, Drained, Straight, NEW q \in Procs, ExecStage(q)
  PROVE  Shape' /\ Conserved' /\ Drained'
  <1>1. state[q] = "code" /\ pc[q] = "child" /\ q \in Writers /\ ~Executed(q)
    BY StraightFacts DEF ExecStage, At, Executed
  <1>2. q # 1 /\ i[q] <= n /\ Out(q) = fd[q] /\ i[q] \in 1 .. n + 1
    BY <1>1, StraightFacts DEF IInv, Control, Out
  <1>3. Out(q) = i[q] /\ in[q] = i[q] - 1 /\ (i[q] < i[1] \/ (i[q] = i[1] /\ pc[1] = "close"))
    BY <1>1, <1>2 DEF Shape
  <1>4. ~Unexecutable(i[q])
    BY <1>2, StraightFacts
  <1>5. /\ Load(q, cmd[i[q]]) /\ pc' = [pc EXCEPT ![q] = "none"]
        /\ state' = [state EXCEPT ![q] = "prog"]
        /\ stdout' = [stdout EXCEPT ![q] = fd[q]]
        /\ UNCHANGED <<buf, made, put, shell, scarce, cmd, i, in, fd>>
    BY <1>4 DEF ExecStage, Redirected, Goto, Load
  <1>6. \A r \in Procs : Executed(r) => i[r] # i[q]
    BY <1>1, <1>2, Stage DEF Writers
  <1>7. Clean => cmd[i[q]] \in Programs /\ cmd[i[q]] = IF i[q] = 1 THEN "source" ELSE "filter"
    BY <1>2, CleanFacts DEF Programs
  <1>8. /\ stdout'[q] = fd[q] /\ state'[q] = "prog" /\ pc'[q] = "none"
        /\ \A r \in Procs : r # q => stdout'[r] = stdout[r] /\ state'[r] = state[r] /\ pc'[r] = pc[r]
    BY <1>5 DEF IInv, Kinds
  <1>9. Conserved' /\ Drained'
    <2>1. CASE Clean
      BY <1>1, <1>2, <1>3, <1>5, <1>6, <1>7, <1>8, <2>1, CleanLoad
    <2>2. CASE ~Clean
      BY <1>5, <2>2, SameClean DEF Conserved, Drained
    <2> QED
      BY <2>1, <2>2
  <1>10. Writers' = Writers /\ \A w \in Procs : Out(w)' = Out(w)
    BY <1>1, <1>2, <1>5, <1>8 DEF Writers, Out
  <1>11. Shape'
    <2>1. \A w \in Writers \ {1} : /\ w \in Procs /\ Out(w)' = Out(w)
                                   /\ pc'[w] \in {"none", "child"} /\ Out(w) = i[w] /\ in[w] = i[w] - 1
                                   /\ i[w] < i[1] \/ (i[w] = i[1] /\ pc[1] = "close")
      BY <1>8, <1>10 DEF Shape, Writers
    <2>2. pc'[1] = pc[1] /\ stdout'[1] = stdout[1]
      BY <1>2, <1>8, FirstProcess
    <2> QED
      BY <1>5, <1>10, <2>1, <2>2 DEF Shape
  <1> QED
    BY <1>9, <1>11

LEMMA CleanExecLast ==
  ASSUME IInv, Shape, Conserved, Drained, Straight, NEW q \in Procs, ExecLast(q)
  PROVE  Shape' /\ Conserved' /\ Drained'
  <1>1. q = 1 /\ state[1] = "code" /\ pc[1] = "pipe" /\ i[1] = n + 1 /\ n \in Nat \ {0}
    BY InForkPipes, StraightFacts DEF ExecLast, At, MorePipes
  <1>2. 1 \in Writers /\ Out(1) = 0 /\ in[1] = i[1] - 1 /\ \A w \in Writers \ {1} : i[w] < i[1]
    BY <1>1, StraightFacts DEF Shape, Out
  <1>3. Clean => ~Unexecutable(n + 1) /\ cmd[n + 1] = "filter"
    BY <1>1, CleanFacts
  <1>4. /\ Load(1, IF Unexecutable(n + 1) THEN "reader" ELSE cmd[n + 1])
        /\ pc' = [pc EXCEPT ![1] = "none"]
        /\ state' = [state EXCEPT ![1] = "prog"]
        /\ UNCHANGED <<stdout, buf, made, put, shell, scarce, cmd, i, in, fd>>
    BY <1>1 DEF ExecLast, Goto, Load
  <1>5. stdout'[1] = Out(1)
    BY <1>1, <1>4 DEF Out
  <1>6. \A r \in Procs : Executed(r) => i[r] # i[1]
    <2>1. \A r \in Procs : Executed(r) => r # 1 /\ r \in Writers /\ i[r] \in Nat /\ i[1] \in Nat
      BY <1>1, StraightFacts, FirstProcess DEF Executed
    <2> QED
      BY <1>2, <2>1
  <1>7. Conserved' /\ Drained'
    <2>1. CASE Clean
      <3>1. Load(1, "filter") /\ \A r \in Procs : stdout'[r] = stdout[r]
        BY <1>3, <1>4, <2>1
      <3> QED
        BY <1>1, <1>2, <1>4, <1>5, <1>6, <2>1, <3>1, CleanLoad DEF Programs
    <2>2. CASE ~Clean
      BY <1>4, <2>2, SameClean DEF Conserved, Drained
    <2> QED
      BY <2>1, <2>2
  <1>8. /\ state'[1] = "prog" /\ pc'[1] = "none"
        /\ \A r \in Procs : r # 1 => state'[r] = state[r] /\ pc'[r] = pc[r]
    BY <1>4, FirstProcess DEF IInv, Kinds
  <1>9. Writers' = Writers /\ \A w \in Procs : Out(w)' = Out(w)
    BY <1>1, <1>4, <1>8 DEF Writers, Out
  <1>10. Shape'
    <2>1. \A w \in Writers \ {1} : /\ w \in Procs /\ Out(w)' = Out(w)
                                   /\ pc'[w] \in {"none", "child"} /\ Out(w) = i[w] /\ in[w] = i[w] - 1
      BY <1>8, <1>9 DEF Shape, Writers
    <2>2. cmd[1] = "source" /\ stdout[1] = 0
      BY DEF Shape
    <2> QED
      BY <1>2, <1>4, <1>8, <1>9, <2>1, <2>2 DEF Shape
  <1> QED
    BY <1>7, <1>10

\* A program step leaves the shape alone
LEMMA SameShape ==
  ASSUME Shape, UNCHANGED <<stdin, stdout, fds, made, shell, scarce, cmd, codeVars>>, Writers' = Writers
  PROVE  Shape' /\ \A q : Out(q)' = Out(q)
  <1>1. UNCHANGED <<stdout, made, shell, scarce, cmd, pc, i, in, fd>>
    BY DEF codeVars
  <1>2. \A q : Out(q)' = Out(q)
    BY <1>1 DEF Out
  <1> QED
    BY <1>1, <1>2, SameClean DEF Shape

LEMMA CleanRead ==
  ASSUME IInv, Shape, Conserved, Drained, Clean, NEW q \in Procs, Read(q),
         UNCHANGED <<shell, scarce, cmd, codeVars>>
  PROVE  Shape' /\ Conserved' /\ Drained'
  <1>0. Straight
    BY DEF Clean
  <1>1. /\ state[q] = "prog" /\ program[q] # "source" /\ hold[q] = 0
        /\ stdin[q] # 0 /\ buf[stdin[q]] > 0
        /\ buf' = [buf EXCEPT ![stdin[q]] = @ - 1]
        /\ hold' = [hold EXCEPT ![q] = IF program[q] = "reader" THEN 0 ELSE 1]
        /\ UNCHANGED <<state, program, stdin, stdout, fds, left, made, put,
                       shell, scarce, cmd, pc, i, in, fd>>
    BY DEF Read, Wants, Runs, codeVars
  <1>2. Executed(q)
    BY <1>1 DEF Executed
  <1>3. program[q] = "filter" /\ i[q] > 1 /\ i[q] \in Nat
    BY <1>1, <1>2, CleanStage, CleanFacts
  <1>4. stdin[q] = in[q] /\ in[q] \in Pipes /\ in[q] = i[q] - 1
    BY <1>0, <1>2, <1>3, Stage
  <1>5. /\ hold'[q] = 1 /\ buf'[in[q]] = buf[in[q]] - 1
        /\ \A r \in Procs : r # q => hold'[r] = hold[r]
        /\ \A p \in Pipes : p # in[q] => buf'[p] = buf[p]
    BY <1>1, <1>3, <1>4 DEF IInv, Flow
  <1>6. Shape'
    BY <1>1, SameShape DEF Writers
  <1>7. \A r \in Procs : Executed(r)' = Executed(r)
    BY <1>1 DEF Executed
  <1>8. ASSUME NEW r \in Procs, Executed(r), i[r] > 1
        PROVE  put[stdout[r]] + hold'[r] + buf'[in[r]] = put[in[r]]
    <2>1. /\ put[stdout[r]] + hold[r] + buf[in[r]] = put[in[r]]
          /\ put[stdout[r]] \in Nat /\ put[in[r]] \in Nat
      BY <1>8, CleanFacts DEF Conserved
    <2>2. in[r] \in Pipes /\ in[r] = i[r] - 1 /\ i[r] \in Nat /\ buf[in[r]] \in Nat
      BY <1>0, <1>8, Stage, CleanFacts
    <2>3. CASE r = q
      BY <1>1, <1>5, <2>1, <2>2, <2>3
    <2>4. CASE r # q
      <3>1. i[r] # i[q]
        BY <1>0, <1>2, <1>8, <2>4, OneStage
      <3>2. in[r] # in[q]
        BY <1>3, <1>4, <2>2, <3>1
      <3> QED
        BY <1>5, <2>1, <2>2, <2>4, <3>2
    <2> QED
      BY <2>3, <2>4
  <1>9. ASSUME NEW p \in Pipes, \A r \in Procs : Executed(r) => i[r] # p + 1
        PROVE  buf'[p] = put[p]
    <2>1. p # in[q]
      BY <1>2, <1>3, <1>4, <1>9
    <2> QED
      BY <1>5, <1>9, <2>1 DEF Conserved
  <1>10. Conserved'
    BY <1>1, <1>7, <1>8, <1>9 DEF Conserved
  <1>11. Drained'
    <2>1. \A r \in Procs : state[r] # "prog" => hold'[r] = hold[r]
      BY <1>1, <1>5
    <2>2. Writers' = Writers
      BY <1>1 DEF Writers
    <2> QED
      BY <1>1, <2>1, <2>2 DEF Drained
  <1> QED
    BY <1>6, <1>10, <1>11

LEMMA CleanWrite ==
  ASSUME IInv, Shape, Conserved, Drained, Clean, NEW q \in Procs, Write(q),
         UNCHANGED <<shell, scarce, cmd, codeVars>>
  PROVE  Shape' /\ Conserved' /\ Drained'
  <1>0. Straight
    BY DEF Clean
  <1> DEFINE out == stdout[q]
  <1>1. /\ state[q] = "prog" /\ (hold[q] = 1 \/ (program[q] = "source" /\ left[q] > 0))
        /\ \/ out = 0 /\ buf' = buf
           \/ out # 0 /\ buf' = [buf EXCEPT ![out] = @ + 1]
        /\ put' = [put EXCEPT ![out] = @ + 1]
        /\ hold' = [hold EXCEPT ![q] = 0]
        /\ left' = [left EXCEPT ![q] = IF program[q] = "filter" THEN @ ELSE @ - 1]
        /\ UNCHANGED <<state, program, stdin, stdout, fds, made, shell, scarce, cmd, pc, i, in, fd>>
    BY DEF Write, HasDatum, Runs, codeVars
  <1>2. Executed(q) /\ out \in Outputs
    BY <1>1, CleanFacts DEF Executed
  <1>3. Out(q) = out /\ q \in Writers /\ (i[q] > 1 => in[q] # out)
    BY <1>0, <1>2, Stage
  <1> HIDE DEF out
  <1>4. /\ hold'[q] = 0 /\ put'[out] = put[out] + 1
        /\ \A r \in Procs : r # q => hold'[r] = hold[r] /\ left'[r] = left[r]
        /\ \A x \in Outputs : x # out => put'[x] = put[x]
    BY <1>1, <1>2 DEF IInv, Flow
  <1>5. \A p \in Pipes : buf'[p] = IF p = out THEN buf[p] + 1 ELSE buf[p]
    <2>1. CASE out = 0 /\ buf' = buf
      BY <2>1, CleanFacts
    <2>2. CASE out # 0 /\ buf' = [buf EXCEPT ![out] = @ + 1]
      BY <2>2 DEF IInv, Flow
    <2> QED
      BY <1>1, <2>1, <2>2
  <1>6. Shape'
    BY <1>1, SameShape DEF Writers
  <1>7. \A r \in Procs : Executed(r)' = Executed(r)
    BY <1>1 DEF Executed
  <1>8. \A r \in Procs : Executed(r) /\ r # q => stdout[r] # out /\ stdout[r] \in Outputs
    BY <1>0, <1>3, Stage, CleanFacts DEF IInv, Distinct
  <1>9. ASSUME NEW r \in Procs, Executed(r), i[r] > 1
        PROVE  put'[stdout[r]] + hold'[r] + buf'[in[r]] = put'[in[r]]
    <2>1. /\ put[stdout[r]] + hold[r] + buf[in[r]] = put[in[r]]
          /\ put[stdout[r]] \in Nat /\ put[in[r]] \in Nat
      BY <1>9, CleanFacts DEF Conserved
    <2>2. in[r] \in Pipes /\ in[r] \in Outputs /\ buf[in[r]] \in Nat /\ hold[r] \in {0, 1}
      BY <1>0, <1>9, Stage, CleanFacts DEF IInv, Flow
    <2>3. CASE r = q
      <3>1. stdout[r] = out /\ buf'[in[r]] = buf[in[r]] /\ put'[in[r]] = put[in[r]]
        BY <1>3, <1>4, <1>5, <1>9, <2>2, <2>3 DEF out
      <3>2. hold[q] = 1
        BY <1>1, <1>2, <1>9, <2>3, CleanStage, CleanFacts
      <3> QED
        BY <1>4, <2>1, <2>2, <2>3, <3>1, <3>2
    <2>4. CASE r # q
      <3>1. put'[stdout[r]] = put[stdout[r]] /\ hold'[r] = hold[r]
        BY <1>4, <1>8, <1>9, <2>4
      <3>2. CASE in[r] = out
        BY <1>4, <1>5, <2>1, <2>2, <3>1, <3>2
      <3>3. CASE in[r] # out
        BY <1>4, <1>5, <2>1, <2>2, <3>1, <3>3
      <3> QED
        BY <3>2, <3>3
    <2> QED
      BY <2>3, <2>4
  <1>10. ASSUME NEW p \in Pipes, \A r \in Procs : Executed(r) => i[r] # p + 1
         PROVE  buf'[p] = put'[p]
    <2>1. buf[p] = put[p] /\ p \in Outputs
      BY <1>10, CleanFacts DEF Conserved
    <2> QED
      BY <1>4, <1>5, <2>1
  <1>11. Conserved'
    BY <1>1, <1>7, <1>9, <1>10 DEF Conserved
  <1>12. Drained'
    <2>1. \A r \in Procs : state[r] # "prog" => r # q /\ hold'[r] = hold[r] /\ left'[r] = left[r]
      BY <1>1, <1>4
    <2>2. \A r \in Procs : state[r] \in Dead => put'[stdout[r]] = put[stdout[r]]
      <3>1. \A r \in Procs : state[r] \in Dead => r # q /\ Executed(r)
        BY <1>1 DEF Dead, Executed
      <3> QED
        BY <1>4, <1>8, <3>1
    <2>3. Writers' = Writers
      BY <1>1 DEF Writers
    <2> QED
      BY <1>1, <2>1, <2>2, <2>3 DEF Drained
  <1> QED
    BY <1>6, <1>11, <1>12

\* A stage ends: everything was written and the stages before it have ended
LEMMA CleanEnd ==
  ASSUME IInv, Shape, Conserved, Drained, Clean, NEW q \in Procs, Runs(q), End(q, "exited"),
         left[q] = 0, hold[q] = 0, put[stdout[q]] = Items,
         \A w \in Writers : i[w] < i[q] => state[w] \in Dead,
         UNCHANGED <<shell, scarce, cmd, codeVars>>
  PROVE  Shape' /\ Conserved' /\ Drained'
  <1>1. /\ state[q] = "prog" /\ state' = [state EXCEPT ![q] = "exited"]
        /\ UNCHANGED <<program, stdin, stdout, fds, left, hold, buf, made, put,
                       shell, scarce, cmd, pc, i, in, fd>>
    BY DEF Runs, End, codeVars
  <1>2. state'[q] = "exited" /\ \A r \in Procs : r # q => state'[r] = state[r]
    BY <1>1 DEF IInv, Kinds
  <1>3. Writers' = Writers
    BY <1>1, <1>2 DEF Writers
  <1>4. Shape'
    BY <1>1, <1>3, SameShape
  <1>5. \A r \in Procs : Executed(r)' = Executed(r)
    BY <1>1, <1>2 DEF Executed
  <1>6. Conserved'
    BY <1>1, <1>5, SameClean DEF Conserved
  <1>7. \A w \in Writers : state[w] \in Dead => state'[w] \in Dead
    BY <1>2 DEF Writers, Dead
  <1>8. Drained'
    BY <1>1, <1>2, <1>3, <1>7, SameClean DEF Drained
  <1> QED
    BY <1>4, <1>6, <1>8

\* A stage that sees the end of its input has passed on all there is, and the stages
\* before it have ended
LEMMA EndOfInput ==
  ASSUME IInv, Shape, Conserved, Drained, Clean, NEW q \in Procs, ReadEnd(q)
  PROVE  /\ Runs(q) /\ End(q, "exited") /\ left[q] = 0 /\ hold[q] = 0 /\ i[q] > 1
         /\ put[stdout[q]] = Items /\ \A w \in Writers : i[w] < i[q] => state[w] \in Dead
         /\ \E w \in Writers \ {1} : i[w] = i[q] - 1 /\ state[w] \in Dead
  <1>0. Straight
    BY DEF Clean
  <1>1. /\ Runs(q) /\ End(q, "exited") /\ state[q] = "prog" /\ program[q] # "source" /\ hold[q] = 0
        /\ stdin[q] # 0 /\ buf[stdin[q]] = 0 /\ ~HasWriter(stdin[q]) /\ Executed(q)
    BY DEF ReadEnd, Wants, Runs, Executed
  <1>2. program[q] = "filter" /\ i[q] > 1 /\ i[q] \in Nat
    BY <1>1, CleanStage, CleanFacts
  <1>3. stdin[q] = in[q] /\ in[q] \in Pipes /\ in[q] = i[q] - 1
    BY <1>0, <1>1, <1>2, Stage
  <1>4. left[q] = 0
    BY <1>1, <1>2 DEF IInv, Flow, Carries
  \* the stage before has ended
  <1>5. PICK w \in Writers : Out(w) = in[q] /\ i[w] >= i[q] - 1
    BY <1>2, CleanFacts DEF IInv, Fed, Clean
  <1>6. w \in Procs /\ w # 1 /\ i[w] = in[q] /\ state[w] # "none"
    <2>1. w \in Procs /\ state[w] # "none"
      BY DEF Writers
    <2>2. w = 1 => Out(w) = 0
      BY <1>5, CleanFacts, FirstProcess, <1>0 DEF IInv, Control, Shape, Out
    <2>3. in[q] # 0
      BY <1>3, CleanFacts
    <2>4. w # 1
      BY <1>5, <2>2, <2>3
    <2> QED
      BY <1>0, <1>5, <2>1, <2>4 DEF Shape
  <1>7. state[w] \in Dead
    <2>1. HoldsWrite(w, in[q])
      <3>1. pc[w] # "frontchild"
        BY <1>6, CleanFacts DEF IInv, Control
      <3>2. pc[w] = "child" => <<"w", fd[w]>> \in fds[w]
        BY <1>6, CleanFacts DEF IInv, Ends
      <3> QED
        BY <1>5, <3>1, <3>2 DEF Out, HoldsWrite
    <2>2. ~Alive(w)
      BY <1>1, <1>3, <1>6, <2>1 DEF HasWriter
    <2> QED
      BY <1>6, <2>2 DEF Alive, IInv, Kinds, States
  <1>8. put[stdout[w]] = Items /\ Out(w) = stdout[w]
    <2>1. Executed(w)
      BY <1>7 DEF Dead, Executed
    <2> QED
      BY <1>0, <1>6, <1>7, <2>1, Stage DEF Drained
  <1>9. put[stdout[q]] = Items
    <2>1. put[stdout[q]] + hold[q] + buf[in[q]] = put[in[q]]
      BY <1>1, <1>2 DEF Conserved
    <2>2. put[in[q]] = Items /\ put[stdout[q]] \in Nat
      BY <1>5, <1>8, CleanFacts
    <2> QED
      BY <1>1, <1>3, <2>1, <2>2, CleanFacts
  <1>10. ASSUME NEW x \in Writers, i[x] < i[q]
         PROVE  state[x] \in Dead
    <2>1. x \in Procs /\ i[x] \in Nat
      BY CleanFacts DEF Writers
    <2>2. CASE i[x] < i[w]
      BY <1>6, <1>7, <2>1, <2>2 DEF Drained
    <2>3. CASE i[x] = i[w]
      <3>1. Executed(w)
        BY <1>7 DEF Dead, Executed
      <3>2. x # 1
        <4>1. q # 1 => i[q] <= i[1]
          BY <1>0, <1>1, Stage, CleanFacts, FirstProcess DEF Shape
        <4> QED
          BY <1>2, <1>10, <2>1, <4>1
      <3> QED
        BY <1>0, <1>6, <1>7, <2>3, <3>1, <3>2, Stage
    <2>4. i[x] <= i[w]
      BY <1>2, <1>3, <1>6, <1>10, <2>1
    <2> QED
      BY <1>6, <2>1, <2>2, <2>3, <2>4, CleanFacts
  <1> QED
    BY <1>1, <1>2, <1>3, <1>4, <1>6, <1>7, <1>9, <1>10

LEMMA CleanReadEnd ==
  ASSUME IInv, Shape, Conserved, Drained, Clean, NEW q \in Procs, ReadEnd(q),
         UNCHANGED <<shell, scarce, cmd, codeVars>>
  PROVE  Shape' /\ Conserved' /\ Drained'
  BY EndOfInput, CleanEnd

LEMMA CleanFinish ==
  ASSUME IInv, Shape, Conserved, Drained, Clean, NEW q \in Procs, Finish(q),
         UNCHANGED <<shell, scarce, cmd, codeVars>>
  PROVE  Shape' /\ Conserved' /\ Drained'
  <1>1. /\ Runs(q) /\ End(q, "exited") /\ state[q] = "prog" /\ program[q] \in {"source", "head"}
        /\ left[q] = 0 /\ hold[q] = 0 /\ Executed(q)
    BY DEF Finish, Finished, Runs, Executed
  <1>2. program[q] = "source" /\ i[q] = 1
    BY <1>1, CleanStage
  <1>3. put[stdout[q]] = Items
    <2>1. put[stdout[q]] + left[q] = Items
      BY <1>1, <1>2 DEF IInv, Flow, Carries
    <2> QED
      BY <1>1, <2>1, CleanFacts
  <1>4. \A w \in Writers : ~(i[w] < i[q])
    BY <1>2, CleanFacts DEF Writers
  <1> QED
    BY <1>1, <1>3, <1>4, CleanEnd

LEMMA NextClean == CleanInv /\ [Next]_vars => CleanInv'
  <1> SUFFICES ASSUME CleanInv, [Next]_vars PROVE Shape' /\ Conserved' /\ Drained'
    BY NextIInv DEF CleanInv
  <1>1. UNCHANGED <<shell, scarce, cmd>>
    BY DEF Next, vars, CreatePd, ForkFront, ForkExit, ForkStage, CloseBoth, Step, ForkPipes, CreatePipe,
      Spawn, ExecStage, CloseWriteEnd, ExecLast, TwoStages, ExecFront, ExecExit, ExecOrExit
  <1>2. CASE ~Straight
    BY <1>1, <1>2, SameClean DEF Clean, Shape, Conserved, Drained
  <1>3. CASE Straight
    <2>1. IInv /\ Shape /\ Conserved /\ Drained /\ Straight
      BY <1>3 DEF CleanInv
    <2>2. CASE UNCHANGED vars
      <3>1. /\ UNCHANGED <<state, program, stdin, stdout, fds, left, hold, buf, made, put,
                           shell, scarce, cmd, codeVars, in, i>>
            /\ Writers' = Writers
        BY <2>2 DEF vars, kernelVars, codeVars, Writers
      <3> QED
        BY <2>1, <3>1, SameShape, SameClean DEF Conserved, Drained, Executed
    \* the branch of n.c
    <2>3. CASE CreatePd \/ ForkFront \/ ForkExit \/ CloseBoth
      <3>1. pc[1] \in {"pipe", "front", "exit", "closeboth"} /\ shell = "cmdline" /\ ~CreatePd
        BY <2>1, <2>3 DEF CreatePd, ForkFront, ForkExit, ForkStage, CloseBoth, At, Straight
      <3>2. pc[1] \in {"front", "exit", "closeboth"}
        BY <2>3, <3>1 DEF ForkFront, ForkExit, ForkStage, CloseBoth, At
      <3> QED
        BY <2>1, <3>1, <3>2, FirstProcess DEF IInv, Control
    <2>4. ASSUME NEW q \in Procs, ForkPipes(q)
          PROVE  Shape' /\ Conserved' /\ Drained'
      BY <2>1, <2>4, CleanCreatePipe, CleanSpawn, SpawnFails, CleanUnforked, CleanExecStage,
         CleanCloseWriteEnd, CleanExecLast
      DEF ForkPipes
    <2>5. ASSUME NEW q \in Procs, TwoStages(q)
          PROVE  FALSE
      <3>1. pc[q] \in {"frontchild", "exitchild"}
        BY <2>5 DEF TwoStages, ExecFront, ExecExit, At
      <3> QED
        BY <2>1, <3>1 DEF IInv, Control, Straight
    <2>6. ASSUME NEW q \in Procs, ProgramStep(q), UNCHANGED <<shell, scarce, cmd, codeVars>>
          PROVE  Shape' /\ Conserved' /\ Drained'
      <3>1. ~WriteBroken(q)
        BY <2>1 DEF WriteBroken, HasDatum, Runs, IInv, Ends, Alive, HasReader, HoldsRead, Straight
      <3>2. CASE Clean
        BY <2>1, <2>6, <3>1, <3>2, CleanRead, CleanReadEnd, CleanWrite, CleanFinish DEF ProgramStep
      <3>3. CASE ~Clean
        <4>1. UNCHANGED <<stdin, stdout, fds, made, shell, scarce, cmd, codeVars>>
          BY <2>6 DEF ProgramStep, Read, ReadEnd, Write, WriteBroken, Finish, End
        <4>2. Writers' = Writers
          <5>1. state' = state \/ \E how \in Dead : state' = [state EXCEPT ![q] = how] /\ Runs(q)
            BY <2>6 DEF ProgramStep, Read, ReadEnd, Write, WriteBroken, HasDatum, Finish, Wants, End, Dead
          <5> QED
            BY <2>1, <4>1, <5>1 DEF Writers, codeVars, Runs, Dead, IInv, Kinds
        <4> QED
          BY <2>1, <3>3, <4>1, <4>2, SameShape, SameClean DEF Conserved, Drained
      <3> QED
        BY <3>2, <3>3
    <2> QED
      BY <2>2, <2>3, <2>4, <2>5, <2>6 DEF Next, Step
  <1> QED
    BY <1>2, <1>3

\* The shell of cmdline.c gets its prompt back only when every stage of a pipeline
\* that is forked whole and runs to its end has written all it has, for any number of stages and any
\* order in which they run, although it waits for one process only: a stage ends
\* after the one before it, and what goes into a pipe comes out (cmdline.c:116-133).
THEOREM PromptLast == Spec => []PromptAfterLastDatum
  <1>1. Init => CleanInv
    BY InitIInv, InitClean DEF CleanInv
  <1>2. CleanInv => PromptAfterLastDatum
    <2> SUFFICES ASSUME CleanInv, Clean, ~Alive(1)
                 PROVE  put[0] = Items /\ \A q \in Procs : left[q] = 0 /\ hold[q] = 0
      BY DEF PromptAfterLastDatum, Clean, Straight
    <2>1. IInv /\ Shape /\ Drained /\ Straight
      BY DEF CleanInv, Clean
    <2>2. state[1] \in Dead /\ Executed(1)
      BY <2>1, FirstProcess DEF IInv, Control, Kinds, States, Alive, Dead, Executed
    <2>3. i[1] = n + 1 /\ stdout[1] = 0
      BY <2>1, <2>2, FirstProcess, Stage DEF Shape
    <2>4. \A q \in Procs : state[q] # "prog"
      <3> SUFFICES ASSUME NEW q \in Procs, state[q] = "prog" PROVE FALSE
        OBVIOUS
      <3>1. Executed(q) /\ q # 1
        BY <2>2 DEF Executed, Dead
      <3>2. q \in Writers /\ i[q] < i[1]
        BY <2>1, <2>3, <3>1, Stage, CleanFacts
      <3> QED
        BY <2>1, <2>2, <3>2, FirstProcess DEF Drained, Dead
    <2> QED
      BY <2>1, <2>2, <2>3, <2>4, FirstProcess DEF Drained
  <1> QED
    BY <1>1, <1>2, NextClean, PTL DEF Spec

-----------------------------------------------------------------------------
(* Who holds the ends of a pipe *)

\* The process of cmdline.c that made a pipe has its write end until it has forked,
\* and so has the child until it executes
WriteEnds ==
  shell = "cmdline" => \A q \in Procs : \A p \in Pipes :
    <<"w", p>> \in fds[q] => pc[q] \in {"spawn", "child", "close"} /\ fd[q] = p

\* main() of n.c has both ends until it has forked twice, and each child until it
\* executes: the first one writes to the pipe, the second one reads it
PdEnds == {<<"r", 1>>, <<"w", 1>>}

Children ==
  shell = "n" =>
    /\ cmd[1] \in {"source", "nosuch"}
    /\ stdin[1] = 0 /\ fds[1] = IF pc[1] \in {"none", "pipe", "prompt"} THEN {} ELSE PdEnds
    /\ pc[1] \in {"exit", "closeboth", "prompt"} => scarce \/ \E q \in Writers : Out(q) = 1
    /\ pc[1] \in {"closeboth", "prompt"} => scarce \/ \E q \in Writers : Out(q) = 0
    /\ \A q \in Writers :
         /\ Out(q) \in {0, 1}
         /\ IF pc[q] = "none" THEN fds[q] = {} ELSE fds[q] = PdEnds /\ fd[q] = 1
         /\ Out(q) = 1 => pc[q] \in {"none", "frontchild"} /\ stdin[q] = 0
         /\ Out(q) = 0 => pc[q] \in {"none", "exitchild"}
         /\ Out(q) = 0 /\ pc[q] = "none" => stdin[q] = 1
         /\ state[q] = "prog" => program[q] = cmd[IF Out(q) = 1 THEN 1 ELSE 2]

\* What the first stage of n.c has written is in the pipe, or the second one has it
\* or passed it on; the second one ends after the first
Passed ==
  shell = "n" /\ RunsThrough =>
    /\ (\A q \in Writers : Out(q) = 0 => pc[q] # "none") => buf[1] = put[1]
    /\ \A q \in Writers : Out(q) = 0 /\ pc[q] = "none" => put[0] + hold[q] + buf[1] = put[1]
    /\ \A q \in Writers : state[q] \in Dead =>
         /\ put[Out(q)] = Items
         /\ Out(q) = 0 => \A w \in Writers : Out(w) = 1 => state[w] \in Dead

\* A program of a pipeline changes data, and its own state when it ends
LEMMA ProgramFrame ==
  ASSUME IInv, NEW q \in Procs, ProgramStep(q), UNCHANGED <<shell, scarce, cmd, codeVars>>
  PROVE  /\ state[q] = "prog" /\ pc[q] = "none"
         /\ UNCHANGED <<program, stdin, stdout, fds, made, shell, scarce, cmd, pc, i, in, fd>>
         /\ \A r \in Procs : state'[r] # state[r] => r = q /\ state'[r] \in Dead
         /\ Writers' = Writers /\ \A r : Out(r)' = Out(r)
  <1>1. /\ state[q] = "prog"
        /\ UNCHANGED <<program, stdin, stdout, fds, made, shell, scarce, cmd, pc, i, in, fd>>
        /\ \/ state' = state
           \/ \E how \in Dead : state' = [state EXCEPT ![q] = how]
    BY DEF ProgramStep, Read, ReadEnd, Write, WriteBroken, HasDatum, Finish, Wants, Runs, End, Dead,
      codeVars
  <1>2. \A r \in Procs : state'[r] # state[r] => r = q /\ state'[r] \in Dead
    BY <1>1 DEF IInv, Kinds
  <1>3. Writers' = Writers
    BY <1>1, <1>2 DEF Writers, Dead
  <1>4. \A r : Out(r)' = Out(r)
    BY <1>1 DEF Out
  <1>5. pc[q] = "none"
    BY <1>1 DEF IInv, Control
  <1> QED
    BY <1>1, <1>2, <1>3, <1>4, <1>5

\* Each shell runs its own code only
LEMMA OwnCode ==
  ASSUME IInv
  PROVE  /\ shell = "n" => \A q \in Procs : ~ForkPipes(q)
         /\ shell # "n" => ~(CreatePd \/ ForkFront \/ ForkExit \/ CloseBoth) /\ \A q \in Procs : ~TwoStages(q)
  <1>1. ASSUME shell = "n", NEW q \in Procs, ForkPipes(q)
        PROVE  FALSE
    <2>1. pc[q] \in {"spawn", "child", "close"}
      BY <1>1 DEF ForkPipes, CreatePipe, Spawn, ExecStage, CloseWriteEnd, ExecLast, At
    <2> QED
      BY <1>1, <2>1 DEF IInv, Control
  <1>2. ASSUME shell # "n", CreatePd \/ ForkFront \/ ForkExit \/ CloseBoth
        PROVE  FALSE
    <2>1. pc[1] \in {"front", "exit", "closeboth"}
      BY <1>2 DEF CreatePd, ForkFront, ForkExit, ForkStage, CloseBoth, At
    <2> QED
      BY <1>2, <2>1, FirstProcess DEF IInv, Kinds, Control
  <1>3. ASSUME shell # "n", NEW q \in Procs, TwoStages(q)
        PROVE  FALSE
    <2>1. pc[q] \in {"frontchild", "exitchild"}
      BY <1>3 DEF TwoStages, ExecFront, ExecExit, At
    <2> QED
      BY <1>3, <2>1 DEF IInv, Kinds, Control
  <1> QED
    BY <1>1, <1>2, <1>3

LEMMA NextWriteEnds ==
  ASSUME IInv, WriteEnds, [Next]_vars
  PROVE  WriteEnds'
  <1>s. UNCHANGED shell
    BY DEF Next, vars, CreatePd, ForkFront, ForkExit, ForkStage, CloseBoth, Step, ForkPipes, CreatePipe,
      Spawn, ExecStage, CloseWriteEnd, ExecLast, TwoStages, ExecFront, ExecExit, ExecOrExit
  <1> SUFFICES ASSUME shell = "cmdline" PROVE WriteEnds'
    BY <1>s DEF WriteEnds
  <1>t. /\ fds \in [Procs -> SUBSET ({"r", "w"} \X Pipes)]
        /\ pc \in [Procs -> Labels] /\ fd \in [Procs -> Outputs]
        /\ \A q \in Procs : \A p \in Pipes :
             <<"w", p>> \in fds[q] => pc[q] \in {"spawn", "child", "close"} /\ fd[q] = p
    BY DEF IInv, Kinds, WriteEnds
  <1>1. CASE UNCHANGED <<fds, pc, fd>>
    BY <1>t, <1>1 DEF WriteEnds
  <1>2. ASSUME NEW q \in Procs, CreatePipe(q)
        PROVE  WriteEnds'
    <2>1. /\ pc[q] = "pipe" /\ made' = made + 1
          /\ fds' = [fds EXCEPT ![q] = @ \cup {<<"r", made + 1>>, <<"w", made + 1>>}]
          /\ fd' = [fd EXCEPT ![q] = made + 1] /\ pc' = [pc EXCEPT ![q] = "spawn"]
      BY <1>2 DEF CreatePipe, At, Goto
    <2>2. \A p \in Pipes : <<"w", p>> \in fds'[q] => p = made + 1
      BY <1>t, <2>1
    <2>3. fd'[q] = made + 1 /\ pc'[q] = "spawn"
          /\ \A r \in Procs : r # q => fds'[r] = fds[r] /\ fd'[r] = fd[r] /\ pc'[r] = pc[r]
      BY <1>t, <2>1
    <2> QED
      BY <1>t, <2>2, <2>3 DEF WriteEnds
  <1>3. ASSUME NEW q \in Procs, Spawn(q), ~NoFork
        PROVE  WriteEnds'
    <2>1. PICK c \in Procs :
            /\ state[c] = "none" /\ state[q] = "code" /\ pc[q] = "spawn"
            /\ fds' = [fds EXCEPT ![c] = fds[q]] /\ fd' = [fd EXCEPT ![c] = fd[q]]
            /\ pc' = [pc EXCEPT ![q] = "close", ![c] = "child"]
      BY <1>3 DEF Spawn, Fork, At
    <2>2. /\ c # q /\ pc'[c] = "child" /\ pc'[q] = "close" /\ fds'[c] = fds[q] /\ fd'[c] = fd[q]
          /\ fds'[q] = fds[q] /\ fd'[q] = fd[q]
          /\ \A r \in Procs \ {c, q} : fds'[r] = fds[r] /\ fd'[r] = fd[r] /\ pc'[r] = pc[r]
      BY <1>t, <2>1
    <2> QED
      BY <1>t, <2>2 DEF WriteEnds
  <1>4. ASSUME NEW q \in Procs, ExecStage(q) \/ CloseWriteEnd(q)
        PROVE  WriteEnds'
    <2>1. /\ \E label \in {"none", "close", "pipe"} : pc' = [pc EXCEPT ![q] = label]
          /\ UNCHANGED fd
          /\ \/ fds' = [fds EXCEPT ![q] = @ \ {<<"w", fd[q]>>}]
             \/ fds' = [fds EXCEPT ![q] = @ \ {<<"r", in[q]>>, <<"w", fd[q]>>}]
      BY <1>4 DEF ExecStage, CloseWriteEnd, Redirected, Goto
    <2>2. \A p \in Pipes : <<"w", p>> \notin fds'[q]
      BY <1>t, <2>1
    <2>3. \A r \in Procs : r # q => fds'[r] = fds[r] /\ fd'[r] = fd[r] /\ pc'[r] = pc[r]
      BY <1>t, <2>1
    <2> QED
      BY <1>t, <2>2, <2>3 DEF WriteEnds
  <1>5. ASSUME NEW q \in Procs, ExecLast(q)
        PROVE  WriteEnds'
    <2>1. /\ pc[q] = "pipe" /\ pc' = [pc EXCEPT ![q] = "none"]
          /\ UNCHANGED <<fds, fd>>
      BY <1>5 DEF ExecLast, At, Goto
    <2>2. \A r \in Procs : r # q => pc'[r] = pc[r]
      BY <1>t, <2>1
    <2> QED
      BY <1>t, <2>1, <2>2 DEF WriteEnds
  <1>6. ASSUME NEW q \in Procs, ProgramStep(q), UNCHANGED <<shell, scarce, cmd, codeVars>>
        PROVE  WriteEnds'
    BY <1>1, <1>6, ProgramFrame
  <1>7. CASE UNCHANGED vars
    BY <1>1, <1>7 DEF vars, kernelVars, codeVars
  <1>8. ASSUME NEW q \in Procs, NEW next, Unforked(q, next)
        PROVE  WriteEnds'
    <2>1. /\ next = "close" /\ pc' = [pc EXCEPT ![q] = "close"] /\ UNCHANGED <<fds, fd>>
      BY <1>8 DEF Unforked
    <2> QED
      BY <1>t, <2>1 DEF WriteEnds
  <1> QED
    BY <1>2, <1>3, <1>4, <1>5, <1>6, <1>7, <1>8, SpawnFails, OwnCode DEF Next, Step, ForkPipes

\* The children of n.c
LEMMA NextChildren ==
  ASSUME IInv, Children, [Next]_vars
  PROVE  Children'
  <1>s. UNCHANGED <<shell, scarce, cmd>>
    BY DEF Next, vars, CreatePd, ForkFront, ForkExit, ForkStage, CloseBoth, Step, ForkPipes, CreatePipe,
      Spawn, ExecStage, CloseWriteEnd, ExecLast, TwoStages, ExecFront, ExecExit, ExecOrExit
  <1> SUFFICES ASSUME shell = "n" PROVE Children'
    BY <1>s DEF Children
  <1>t. /\ Kinds /\ Control /\ Branch /\ 1 \notin Writers /\ 1 \in Procs /\ shell' = "n"
        /\ stdin[1] = 0 /\ stdout[1] = 0 /\ Writers \subseteq Procs \ {1}
        /\ cmd[1] \in {"source", "nosuch"} /\ cmd' = cmd
    BY <1>s, FirstProcess DEF IInv, Branch, Writers, Children
  <1>c. /\ fds[1] = IF pc[1] \in {"none", "pipe", "prompt"} THEN {} ELSE PdEnds
        /\ pc[1] \in {"exit", "closeboth", "prompt"} => scarce \/ \E q \in Writers : Out(q) = 1
        /\ pc[1] \in {"closeboth", "prompt"} => scarce \/ \E q \in Writers : Out(q) = 0
        /\ \A q \in Writers :
             /\ Out(q) \in {0, 1}
             /\ IF pc[q] = "none" THEN fds[q] = {} ELSE fds[q] = PdEnds /\ fd[q] = 1
             /\ Out(q) = 1 => pc[q] \in {"none", "frontchild"} /\ stdin[q] = 0
             /\ Out(q) = 0 => pc[q] \in {"none", "exitchild"}
             /\ Out(q) = 0 /\ pc[q] = "none" => stdin[q] = 1
             /\ state[q] = "prog" => program[q] = cmd[IF Out(q) = 1 THEN 1 ELSE 2]
    BY DEF Children
  <1>1. CASE CreatePd /\ UNCHANGED state
    <2>1. /\ pc[1] = "pipe" /\ fds' = [fds EXCEPT ![1] = {<<"r", 1>>, <<"w", 1>>}]
          /\ pc' = [pc EXCEPT ![1] = "front"]
          /\ UNCHANGED <<state, stdin, shell>>
      BY <1>1, <1>t DEF CreatePd, At, Goto, Kinds
    <2>2. fds'[1] = PdEnds /\ pc'[1] = "front" /\ Writers' = {} /\ stdin'[1] = 0
      BY <1>t, <2>1 DEF Kinds, Branch, Writers, PdEnds
    <2> QED
      BY <1>t, <2>2 DEF Children
  <1>2. CASE (ForkFront \/ ForkExit) /\ ~NoFork
    <2>1. PICK next, child :
            /\ \/ pc[1] = "front" /\ next = "exit" /\ child = "frontchild"
               \/ pc[1] = "exit" /\ next = "closeboth" /\ child = "exitchild"
            /\ ForkStage(pc[1], next, child)
      BY <1>2 DEF ForkFront, ForkExit, ForkStage, At
    <2>2. PICK c \in Procs :
            /\ state[1] = "code" /\ state[c] = "none"
            /\ state' = [state EXCEPT ![c] = "code"]
            /\ stdin' = [stdin EXCEPT ![c] = stdin[1]] /\ stdout' = [stdout EXCEPT ![c] = stdout[1]]
            /\ fds' = [fds EXCEPT ![c] = fds[1]]
            /\ pc' = [pc EXCEPT ![1] = next, ![c] = child]
            /\ fd' = [fd EXCEPT ![c] = fd[1]]
            /\ UNCHANGED program
      BY <1>2, <2>1 DEF ForkStage, Fork, At, progVars
    <2>3. /\ c # 1 /\ fds[1] = PdEnds /\ fd[1] = 1
          /\ state'[c] = "code" /\ stdin'[c] = 0 /\ stdout'[c] = 0 /\ fds'[c] = PdEnds /\ pc'[c] = child
          /\ fd'[c] = 1 /\ pc'[1] = next /\ fds'[1] = PdEnds /\ stdin'[1] = 0
          /\ \A r \in Procs \ {1, c} : /\ state'[r] = state[r] /\ stdin'[r] = stdin[r]
                                       /\ stdout'[r] = stdout[r] /\ fds'[r] = fds[r]
                                       /\ pc'[r] = pc[r] /\ fd'[r] = fd[r]
      BY <1>t, <1>c, <2>1, <2>2 DEF Kinds, Branch
    <2>4. Writers' = Writers \cup {c} /\ c \notin Writers
      BY <1>t, <2>2, <2>3 DEF Writers
    <2>5. \A w \in Writers : /\ Out(w)' = Out(w) /\ state'[w] = state[w] /\ stdin'[w] = stdin[w]
                             /\ fds'[w] = fds[w] /\ pc'[w] = pc[w] /\ fd'[w] = fd[w]
      BY <1>t, <2>3, <2>4 DEF Out
    <2>6. IF child = "frontchild" THEN Out(c)' = 1 ELSE Out(c)' = 0
      BY <2>1, <2>3 DEF Out
    <2>7. ASSUME NEW w \in Writers'
          PROVE  /\ Out(w)' \in {0, 1}
                 /\ IF pc'[w] = "none" THEN fds'[w] = {} ELSE fds'[w] = PdEnds /\ fd'[w] = 1
                 /\ Out(w)' = 1 => pc'[w] \in {"none", "frontchild"} /\ stdin'[w] = 0
                 /\ Out(w)' = 0 => pc'[w] \in {"none", "exitchild"}
                 /\ Out(w)' = 0 /\ pc'[w] = "none" => stdin'[w] = 1
                 /\ state'[w] = "prog" => program'[w] = cmd'[IF Out(w)' = 1 THEN 1 ELSE 2]
      <3>1. CASE w = c
        BY <2>1, <2>3, <2>6, <3>1
      <3>2. CASE w # c
        <4>1. /\ w \in Writers /\ Out(w)' = Out(w) /\ state'[w] = state[w] /\ stdin'[w] = stdin[w]
              /\ fds'[w] = fds[w] /\ pc'[w] = pc[w] /\ fd'[w] = fd[w]
          BY <2>4, <2>5, <2>7, <3>2
        <4>2. cmd' = cmd /\ program' = program
          BY <1>s, <2>2
        <4> QED
          BY <1>c, <4>1, <4>2
      <3> QED
        BY <3>1, <3>2
    <2>8. /\ next \in {"exit", "closeboth", "prompt"} => scarce \/ \E w \in Writers' : Out(w)' = 1
          /\ next \in {"closeboth", "prompt"} => scarce \/ \E w \in Writers' : Out(w)' = 0
      BY <1>c, <2>1, <2>4, <2>5, <2>6
    <2>9. next \notin {"none", "pipe", "prompt"}
      BY <2>1
    <2> QED
      BY <1>s, <1>t, <2>3, <2>7, <2>8, <2>9 DEF Children
  <1>3. CASE CloseBoth
    <2>1. /\ pc[1] = "closeboth" /\ fds' = [fds EXCEPT ![1] = {}]
          /\ pc' = [pc EXCEPT ![1] = "prompt"]
          /\ UNCHANGED <<state, program, stdin, stdout, fd>>
      BY <1>3 DEF CloseBoth, At, Goto
    <2>2. /\ pc'[1] = "prompt" /\ fds'[1] = {} /\ Writers' = Writers
          /\ \A w \in Writers : fds'[w] = fds[w] /\ pc'[w] = pc[w]
      BY <1>s, <1>t, <2>1 DEF Kinds, Writers
    <2>3. \A w \in Writers : Out(w)' = Out(w)
      BY <2>1, <2>2 DEF Out
    <2> QED
      BY <1>s, <1>c, <1>t, <2>1, <2>2, <2>3 DEF Children
  <1>4. ASSUME NEW q \in Procs, TwoStages(q)
        PROVE  Children'
    <2>1. /\ state[q] = "code" /\ pc[q] \in {"frontchild", "exitchild"}
          /\ stdin' = [stdin EXCEPT ![q] = IF pc[q] = "exitchild" THEN fd[q] ELSE @]
          /\ stdout' = [stdout EXCEPT ![q] = IF pc[q] = "frontchild" THEN fd[q] ELSE @]
          /\ fds' = [fds EXCEPT ![q] = {}]
          /\ pc' = [pc EXCEPT ![q] = "none"]
          /\ UNCHANGED <<cmd, fd>>
      BY <1>t, <1>4 DEF TwoStages, ExecFront, ExecExit, ExecOrExit, At, Goto, Kinds
    <2>2. \/ state' = [state EXCEPT ![q] = "exited"] /\ UNCHANGED program
          \/ /\ state' = [state EXCEPT ![q] = "prog"]
             /\ program' = [program EXCEPT ![q] = cmd[IF pc[q] = "frontchild" THEN 1 ELSE 2]]
      BY <1>4, <2>1 DEF TwoStages, ExecFront, ExecExit, ExecOrExit, Load, At, progVars
    <2>3. q # 1 /\ q \in Writers /\ fd[q] = 1
      BY <1>t, <1>c, <2>1 DEF Control, Writers
    <2>4. /\ stdin'[q] = (IF pc[q] = "exitchild" THEN 1 ELSE stdin[q]) /\ fds'[q] = {} /\ pc'[q] = "none"
          /\ Out(q) = IF pc[q] = "frontchild" THEN 1 ELSE 0
          /\ stdout'[q] = Out(q) /\ state'[q] \in {"exited", "prog"}
          /\ state'[q] = "prog" => program'[q] = cmd[IF pc[q] = "frontchild" THEN 1 ELSE 2]
          /\ \A r \in Procs : r # q => /\ state'[r] = state[r] /\ stdin'[r] = stdin[r]
                                       /\ stdout'[r] = stdout[r] /\ fds'[r] = fds[r]
                                       /\ pc'[r] = pc[r] /\ program'[r] = program[r]
      BY <1>t, <1>c, <2>1, <2>2, <2>3 DEF Kinds, Out
    <2>5. Writers' = Writers /\ \A w \in Writers : Out(w)' = Out(w)
      BY <1>s, <1>t, <2>1, <2>3, <2>4 DEF Writers, Out
    <2>6. ASSUME NEW w \in Writers
          PROVE  /\ IF pc'[w] = "none" THEN fds'[w] = {} ELSE fds'[w] = PdEnds /\ fd'[w] = 1
                 /\ Out(w) = 1 => pc'[w] \in {"none", "frontchild"} /\ stdin'[w] = 0
                 /\ Out(w) = 0 => pc'[w] \in {"none", "exitchild"}
                 /\ Out(w) = 0 /\ pc'[w] = "none" => stdin'[w] = 1
                 /\ state'[w] = "prog" => program'[w] = cmd'[IF Out(w) = 1 THEN 1 ELSE 2]
      <3>1. CASE w = q
        BY <1>s, <1>c, <2>1, <2>3, <2>4, <3>1
      <3>2. CASE w # q
        BY <1>s, <1>c, <1>t, <2>1, <2>4, <3>2
      <3> QED
        BY <3>1, <3>2
    <2>7. fds'[1] = fds[1] /\ pc'[1] = pc[1] /\ stdin'[1] = stdin[1]
      BY <1>t, <2>3, <2>4
    <2> QED
      BY <1>s, <1>c, <1>t, <2>5, <2>6, <2>7 DEF Children
  <1>5. ASSUME NEW q \in Procs, ProgramStep(q), UNCHANGED <<shell, scarce, cmd, codeVars>>
        PROVE  Children'
    <2>1. \A w \in Writers : state'[w] = "prog" => state[w] = "prog"
      BY <1>5, <1>t, ProgramFrame DEF Dead
    <2> QED
      BY <1>5, <1>s, <1>c, <1>t, <2>1, ProgramFrame DEF Children
  <1>6. CASE UNCHANGED vars
    <2>1. Writers' = Writers /\ \A w : Out(w)' = Out(w)
      BY <1>6 DEF vars, kernelVars, codeVars, Writers, Out
    <2> QED
      BY <1>6, <1>c, <1>t, <2>1 DEF vars, kernelVars, codeVars, Children
  <1>7. CASE CreatePd /\ ~UNCHANGED state
    <2>1. pc[1] = "pipe" /\ pc' = [pc EXCEPT ![1] = "none"] /\ UNCHANGED <<stdin, fds>> /\ Writers' = {}
      BY <1>7, NoPdStep DEF CreatePd, At, Goto
    <2>2. pc'[1] = "none" /\ fds'[1] = {} /\ stdin'[1] = 0
      BY <1>c, <1>t, <2>1 DEF Kinds
    <2> QED
      BY <1>t, <2>1, <2>2 DEF Children
  <1>8. ASSUME ForkFront \/ ForkExit, NoFork
        PROVE  Children'
    <2>1. PICK next : Unforked(1, next)
      BY <1>8, ForkStageFails
    <2>2. /\ scarce /\ pc[1] \in {"front", "exit"} /\ next \in {"exit", "closeboth"}
          /\ pc' = [pc EXCEPT ![1] = next]
          /\ UNCHANGED <<state, program, stdin, stdout, fds, fd, scarce>>
      BY <1>t, <2>1 DEF Unforked
    <2>3. Writers' = Writers /\ \A w \in Procs : Out(w)' = Out(w)
      BY <1>t, <2>1, UnforkedStep
    <2>4. pc'[1] = next /\ \A w \in Writers : pc'[w] = pc[w]
      BY <1>t, <2>2 DEF Kinds
    <2> QED
      BY <1>s, <1>c, <1>t, <2>2, <2>3, <2>4 DEF Children
  <1> QED
    BY <1>1, <1>2, <1>3, <1>4, <1>5, <1>6, <1>7, <1>8, OwnCode DEF Next, Step

\* What the two stages of n.c are, when the second one reads what the first one has
LEMMA TwoFacts ==
  ASSUME IInv, Children, shell = "n", RunsThrough
  PROVE  /\ cmd[1] = "source" /\ cmd[2] = "filter" /\ ~Unexecutable(1) /\ ~Unexecutable(2)
         /\ Writers \subseteq Procs \ {1} /\ 1 \in Pipes /\ Items \in Nat
         /\ \A w \in Writers :
              /\ Out(w) \in {0, 1} /\ state[w] # "none" /\ (state[w] = "code" <=> pc[w] # "none")
              /\ pc[w] = "none" => Out(w) = stdout[w]
              /\ state[w] = "prog" => program[w] = IF Out(w) = 1 THEN "source" ELSE "filter"
         /\ \A q \in Procs : state[q] = "prog" => q \in Writers /\ pc[q] = "none"
         /\ put[0] \in Nat /\ put[1] \in Nat /\ buf[1] \in Nat
  <1>1. cmd[1] = "source" /\ cmd[2] = "filter"
    BY DEF RunsThrough, Stages
  <1>2. ~Unexecutable(1) /\ ~Unexecutable(2)
    BY <1>1 DEF Unexecutable
  <1>3. Writers \subseteq Procs \ {1} /\ 1 \in Pipes /\ Items \in Nat
    BY FirstProcess, KernelAssumption DEF Writers
  <1>4. \A w \in Writers :
          /\ Out(w) \in {0, 1} /\ state[w] # "none" /\ (state[w] = "code" <=> pc[w] # "none")
          /\ pc[w] = "none" => Out(w) = stdout[w]
          /\ state[w] = "prog" => program[w] = IF Out(w) = 1 THEN "source" ELSE "filter"
    BY <1>1 DEF IInv, Control, Children, Writers, Out
  <1>5. \A q \in Procs : state[q] = "prog" => q \in Writers /\ pc[q] = "none"
    BY Running DEF IInv
  <1>6. put[0] \in Nat /\ put[1] \in Nat /\ buf[1] \in Nat
    BY <1>3, KernelAssumption DEF IInv, Flow, Outputs
  <1> QED
    BY <1>1, <1>2, <1>3, <1>4, <1>5, <1>6

\* The second stage sees the end of its input when the first one has ended ...
LEMMA SecondEnd ==
  ASSUME IInv, Children, Passed, shell = "n", RunsThrough, NEW q \in Procs, ReadEnd(q)
  PROVE  /\ Runs(q) /\ End(q, "exited") /\ q \in Writers /\ Out(q) = 0 /\ stdout[q] = 0
         /\ put[0] = Items
         /\ \A w \in Writers : Out(w) = 1 => state[w] \in Dead
         /\ \E w \in Writers : Out(w) = 1
  <1>1. /\ state[q] = "prog" /\ program[q] # "source" /\ hold[q] = 0 /\ End(q, "exited")
        /\ stdin[q] # 0 /\ buf[stdin[q]] = 0 /\ ~HasWriter(stdin[q])
    BY DEF ReadEnd, Wants, Runs
  <1>2. q \in Writers /\ pc[q] = "none" /\ Out(q) = 0 /\ stdout[q] = 0 /\ stdin[q] = 1
    BY <1>1, TwoFacts DEF Children
  <1>3. ASSUME NEW w \in Writers, Out(w) = 1
        PROVE  state[w] \in Dead
    <2>1. HoldsWrite(w, 1)
      <3>1. pc[w] # "none" => <<"w", 1>> \in fds[w]
        BY <1>3 DEF Children, PdEnds
      <3>2. pc[w] = "none" => stdout[w] = 1
        BY <1>3, TwoFacts
      <3> QED
        BY <3>1, <3>2 DEF HoldsWrite
    <2>2. w \in Procs /\ ~Alive(w)
      BY <1>1, <1>2, <2>1, TwoFacts DEF HasWriter
    <2> QED
      BY <2>2, TwoFacts DEF Alive, IInv, Kinds, States
  <1>4. PICK w \in Writers : Out(w) = 1
    <2>1. pc[1] \notin {"pipe", "front"}
      BY <1>2 DEF IInv, Branch
    <2>2. pc[1] \in {"exit", "closeboth", "prompt"} /\ ~scarce
      BY <2>1, FirstProcess DEF IInv, Control, RunsThrough
    <2> QED
      BY <2>2 DEF Children
  <1>5. put[1] = Items
    BY <1>3, <1>4 DEF Passed
  <1>6. put[0] + hold[q] + buf[1] = put[1]
    BY <1>2 DEF Passed
  <1> QED
    BY <1>1, <1>2, <1>3, <1>4, <1>5, <1>6, TwoFacts DEF Runs

\* ... so the first one is never told that nobody reads its output
LEMMA FirstUnbroken ==
  ASSUME IInv, Children, Passed, shell = "n", RunsThrough, NEW q \in Procs
  PROVE  ~WriteBroken(q)
  <1> SUFFICES ASSUME WriteBroken(q) PROVE FALSE
    OBVIOUS
  <1>1. state[q] = "prog" /\ stdout[q] # 0 /\ ~HasReader(stdout[q])
    BY DEF WriteBroken, HasDatum, Runs
  <1>2. q \in Writers /\ Out(q) = 1 /\ stdout[q] = 1
    BY <1>1, TwoFacts
  <1>3. pc[1] = "prompt"
    <2>1. pc[1] \notin {"pipe", "front"}
      BY <1>2 DEF IInv, Branch
    <2>2. pc[1] \in {"exit", "closeboth"} => <<"r", 1>> \in fds[1]
      BY DEF Children, PdEnds
    <2>3. Alive(1) /\ pc[1] # "none"
      BY FirstProcess DEF IInv, Control, Alive, RunsThrough
    <2> QED
      BY <1>1, <1>2, <2>1, <2>2, <2>3, FirstProcess DEF IInv, Control, HasReader, HoldsRead
  <1>4. PICK x \in Writers : Out(x) = 0
    BY <1>3 DEF Children, RunsThrough
  <1>5. HoldsRead(x, 1)
    BY <1>4 DEF Children, PdEnds, HoldsRead
  <1>6. state[x] \in Dead
    <2>1. x \in Procs /\ ~Alive(x)
      BY <1>1, <1>2, <1>5, TwoFacts DEF HasReader
    <2> QED
      BY <2>1, TwoFacts DEF Alive, IInv, Kinds, States
  <1>7. state[q] \in Dead
    BY <1>2, <1>4, <1>6 DEF Passed
  <1> QED
    BY <1>1, <1>7 DEF Dead

LEMMA SameThrough ==
  ASSUME UNCHANGED <<shell, scarce, cmd>>
  PROVE  n' = n /\ Stages' = Stages /\ RunsThrough' = RunsThrough /\ \A k : OutputOf(k)' = OutputOf(k)
  BY DEF n, Stages, RunsThrough, OutputOf

\* The data of the two stages: steps of the code of n.c
LEMMA PassedCode ==
  ASSUME IInv, Children, Passed, shell = "n", RunsThrough,
         \/ CreatePd \/ ForkFront \/ ForkExit \/ CloseBoth
         \/ \E q \in Procs : TwoStages(q)
  PROVE  Passed'
  <1>t. /\ Kinds /\ Control /\ Branch /\ Flow /\ Distinct
        /\ (\A w \in Writers : Out(w) = 0 => pc[w] # "none") => buf[1] = put[1]
        /\ \A w \in Writers : Out(w) = 0 /\ pc[w] = "none" => put[0] + hold[w] + buf[1] = put[1]
        /\ \A w \in Writers : state[w] \in Dead =>
             /\ put[Out(w)] = Items
             /\ Out(w) = 0 => \A v \in Writers : Out(v) = 1 => state[v] \in Dead
    BY DEF IInv, Passed
  <1>1. CASE CreatePd \/ CloseBoth
    <2>1. /\ UNCHANGED <<state, stdout, hold, buf, put, shell, scarce, cmd>>
          /\ \E label \in {"front", "prompt"} : pc' = [pc EXCEPT ![1] = label]
          /\ fd' = fd \/ fd' = [fd EXCEPT ![1] = 1]
      BY <1>1, <1>t DEF CreatePd, CloseBoth, Goto, Kinds, RunsThrough
    <2>2. Writers' = Writers /\ \A w \in Writers : w # 1 /\ w \in Procs
      BY <2>1, TwoFacts DEF Writers
    <2>3. \A w \in Writers : pc'[w] = pc[w] /\ fd'[w] = fd[w]
      BY <1>t, <2>1, <2>2 DEF Kinds
    <2>4. \A w \in Writers : Out(w)' = Out(w)
      BY <2>1, <2>3 DEF Out
    <2> QED
      BY <1>t, <2>1, <2>2, <2>3, <2>4 DEF Passed
  <1>2. CASE ForkFront \/ ForkExit
    <2>1. PICK next, child :
            /\ \/ pc[1] = "front" /\ next = "exit" /\ child = "frontchild"
               \/ pc[1] = "exit" /\ next = "closeboth" /\ child = "exitchild"
            /\ ForkStage(pc[1], next, child)
      BY <1>2 DEF ForkFront, ForkExit, ForkStage, At
    <2>2. PICK c \in Procs :
            /\ state[1] = "code" /\ state[c] = "none"
            /\ state' = [state EXCEPT ![c] = "code"]
            /\ stdout' = [stdout EXCEPT ![c] = stdout[1]]
            /\ pc' = [pc EXCEPT ![1] = next, ![c] = child]
            /\ fd' = [fd EXCEPT ![c] = fd[1]]
            /\ UNCHANGED <<hold, buf, put, shell, scarce, cmd>>
      BY <2>1 DEF ForkStage, Fork, NoFork, At, progVars, RunsThrough
    <2>3. /\ c # 1 /\ state'[c] = "code" /\ pc'[c] = child
          /\ \A r \in Procs \ {1, c} : /\ state'[r] = state[r] /\ stdout'[r] = stdout[r]
                                       /\ pc'[r] = pc[r] /\ fd'[r] = fd[r]
      BY <1>t, <2>2 DEF Kinds
    <2>4. Writers' = Writers \cup {c} /\ c \notin Writers
      BY <2>2, <2>3, FirstProcess DEF Writers
    <2>5. \A w \in Writers : Out(w)' = Out(w) /\ pc'[w] = pc[w] /\ state'[w] = state[w]
      BY <2>3, <2>4, TwoFacts DEF Out
    <2>6. child # "none" /\ state'[c] \notin Dead
      BY <2>1, <2>3 DEF Dead
    <2>7. \A w \in Writers : state[w] \in Dead => Out(w) = 1
      <3>1. pc[1] \in {"front", "exit"}
        BY <2>1
      <3> QED
        BY <1>t, <3>1 DEF Branch
    <2>8. (\A w \in Writers' : Out(w)' = 0 => pc'[w] # "none") => buf[1] = put[1]
      BY <1>t, <2>4, <2>5
    <2>9. \A w \in Writers' : Out(w)' = 0 /\ pc'[w] = "none" => put[0] + hold[w] + buf[1] = put[1]
      BY <1>t, <2>3, <2>4, <2>5, <2>6
    <2>10. \A w \in Writers' : state'[w] \in Dead => w \in Writers /\ put[Out(w)'] = Items /\ Out(w)' = 1
      BY <1>t, <2>4, <2>5, <2>6, <2>7
    <2>11. UNCHANGED <<hold, buf, put>>
      BY <2>2
    <2> QED
      BY <2>8, <2>9, <2>10, <2>11 DEF Passed
  <1>3. ASSUME NEW q \in Procs, TwoStages(q)
        PROVE  Passed'
    <2>1. /\ state[q] = "code" /\ pc[q] \in {"frontchild", "exitchild"}
          /\ stdout' = [stdout EXCEPT ![q] = IF pc[q] = "frontchild" THEN fd[q] ELSE @]
          /\ pc' = [pc EXCEPT ![q] = "none"]
          /\ state' = [state EXCEPT ![q] = "prog"] /\ hold' = [hold EXCEPT ![q] = 0]
          /\ UNCHANGED <<buf, put, shell, scarce, cmd, fd>>
      BY <1>t, <1>3, TwoFacts DEF TwoStages, ExecFront, ExecExit, ExecOrExit, At, Goto, Kinds, Load
    <2>2. q # 1 /\ q \in Writers
      BY <1>t, <2>1 DEF Control, Writers
    <2>3. /\ Out(q) = IF pc[q] = "frontchild" THEN 1 ELSE 0
          /\ stdout'[q] = Out(q) /\ state'[q] = "prog" /\ pc'[q] = "none" /\ hold'[q] = 0
          /\ \A r \in Procs : r # q => /\ state'[r] = state[r] /\ stdout'[r] = stdout[r]
                                       /\ pc'[r] = pc[r] /\ hold'[r] = hold[r]
      <3>1. fd[q] = 1 /\ (pc[q] = "exitchild" => stdout[q] = 0)
        BY <2>1, <2>2 DEF Children, Out
      <3>2. hold \in [Procs -> {0, 1}]
        BY <1>t DEF Flow
      <3> QED
        BY <1>t, <2>1, <2>2, <3>1, <3>2 DEF Out, Kinds
    <2>4. Writers' = Writers /\ \A w \in Writers : Out(w)' = Out(w)
      BY <2>1, <2>2, <2>3 DEF Writers, Out
    <2>5. put[Out(q)] = 0 /\ \A w \in Writers : Out(w) = Out(q) => w = q
      BY <1>t, <2>1, <2>2 DEF Flow, Distinct
    <2>6. ASSUME \A w \in Writers : Out(w) = 0 => pc'[w] # "none"
          PROVE  buf[1] = put[1]
      BY <1>t, <2>2, <2>3, <2>6, TwoFacts
    <2>7. ASSUME NEW w \in Writers, Out(w) = 0, pc'[w] = "none"
          PROVE  put[0] + hold'[w] + buf[1] = put[1]
      <3>1. CASE w = q
        <4>1. buf[1] = put[1]
          BY <1>t, <2>1, <2>5, <2>7, <3>1
        <4> QED
          BY <2>3, <2>5, <2>7, <3>1, <4>1, TwoFacts
      <3>2. CASE w # q
        BY <1>t, <2>3, <2>7, <3>2, TwoFacts
      <3> QED
        BY <3>1, <3>2
    <2>8. \A w \in Writers : state'[w] \in Dead => state[w] \in Dead /\ w # q
      BY <2>3, TwoFacts DEF Dead
    <2>9. \A w \in Writers : state[w] \in Dead => state'[w] \in Dead
      BY <2>1, <2>3, TwoFacts DEF Dead
    <2> QED
      BY <1>t, <2>1, <2>4, <2>6, <2>7, <2>8, <2>9 DEF Passed
  <1> QED
    BY <1>1, <1>2, <1>3

\* ... and steps of the two programs
LEMMA PassedProgram ==
  ASSUME IInv, Children, Passed, shell = "n", RunsThrough, NEW q \in Procs, ProgramStep(q),
         UNCHANGED <<shell, scarce, cmd, codeVars>>
  PROVE  Passed'
  <1>t. /\ Kinds /\ Flow /\ Distinct
        /\ (\A w \in Writers : Out(w) = 0 => pc[w] # "none") => buf[1] = put[1]
        /\ \A w \in Writers : Out(w) = 0 /\ pc[w] = "none" => put[0] + hold[w] + buf[1] = put[1]
        /\ \A w \in Writers : state[w] \in Dead =>
             /\ put[Out(w)] = Items
             /\ Out(w) = 0 => \A v \in Writers : Out(v) = 1 => state[v] \in Dead
    BY DEF IInv, Passed
  <1>1. /\ state[q] = "prog" /\ pc[q] = "none" /\ UNCHANGED <<program, stdin, stdout, pc>>
        /\ Writers' = Writers /\ \A w : Out(w)' = Out(w)
        /\ \A r \in Procs : state'[r] # state[r] => r = q /\ state'[r] \in Dead
    BY ProgramFrame
  <1>2. /\ q \in Writers /\ Out(q) = stdout[q] /\ Out(q) \in {0, 1}
        /\ program[q] = IF Out(q) = 1 THEN "source" ELSE "filter"
        /\ Out(q) = 0 => stdin[q] = 1
        /\ \A w \in Writers : Out(w) = Out(q) => w = q
    BY <1>t, <1>1, TwoFacts DEF Children, Distinct
  <1>3. CASE Read(q)
    <2>1. /\ program[q] # "source" /\ hold[q] = 0 /\ buf[stdin[q]] > 0
          /\ buf' = [buf EXCEPT ![stdin[q]] = @ - 1]
          /\ hold' = [hold EXCEPT ![q] = IF program[q] = "reader" THEN 0 ELSE 1]
          /\ UNCHANGED <<state, put>>
      BY <1>3 DEF Read, Wants
    <2>2. Out(q) = 0 /\ stdin[q] = 1 /\ hold'[q] = 1 /\ buf'[1] = buf[1] - 1
      BY <1>t, <1>2, <2>1, TwoFacts DEF Flow
    <2>3. \A w \in Writers : Out(w) = 0 => w = q
      BY <1>2, <2>2
    <2>4. put[0] + hold'[q] + buf'[1] = put[1]
      BY <1>t, <1>1, <1>2, <2>1, <2>2, TwoFacts
    <2> QED
      BY <1>t, <1>1, <1>2, <2>1, <2>2, <2>3, <2>4 DEF Passed
  <1>4. CASE Write(q)
    <2>1. /\ hold[q] = 1 \/ program[q] = "source"
          /\ IF Out(q) = 0 THEN buf' = buf ELSE buf' = [buf EXCEPT ![1] = @ + 1]
          /\ put' = [put EXCEPT ![Out(q)] = @ + 1]
          /\ hold' = [hold EXCEPT ![q] = 0]
          /\ UNCHANGED state
      BY <1>2, <1>4 DEF Write, HasDatum
    <2>2. /\ put'[Out(q)] = put[Out(q)] + 1 /\ \A x \in Outputs : x # Out(q) => put'[x] = put[x]
          /\ buf'[1] = IF Out(q) = 0 THEN buf[1] ELSE buf[1] + 1
          /\ hold'[q] = 0 /\ \A w \in Writers : w # q => hold'[w] = hold[w]
      BY <1>t, <1>2, <2>1, TwoFacts DEF Flow, Outputs
    <2>3. 0 \in Outputs /\ 1 \in Outputs
      BY TwoFacts DEF Outputs
    <2>4. (\A w \in Writers : Out(w) = 0 => pc[w] # "none") => buf'[1] = put'[1]
      BY <1>t, <1>1, <1>2, <2>2, TwoFacts
    <2>5. ASSUME NEW w \in Writers, Out(w) = 0, pc[w] = "none"
          PROVE  put'[0] + hold'[w] + buf'[1] = put'[1]
      <3>1. put[0] + hold[w] + buf[1] = put[1] /\ hold[w] \in {0, 1}
        BY <1>t, <2>5, TwoFacts DEF Flow
      <3>2. CASE Out(q) = 0
        <4>1. w = q /\ hold[q] = 1
          BY <1>2, <2>1, <2>5, <3>2
        <4>2. put'[0] = put[0] + 1 /\ put'[1] = put[1] /\ buf'[1] = buf[1] /\ hold'[w] = 0
          BY <2>2, <2>3, <3>2, <4>1
        <4> QED
          BY <3>1, <4>1, <4>2, TwoFacts
      <3>3. CASE Out(q) = 1
        <4>1. w # q
          BY <2>5, <3>3
        <4>2. put'[1] = put[1] + 1 /\ put'[0] = put[0] /\ buf'[1] = buf[1] + 1 /\ hold'[w] = hold[w]
          BY <2>2, <2>3, <2>5, <3>3, <4>1
        <4> QED
          BY <3>1, <4>2, TwoFacts
      <3> QED
        BY <1>2, <3>2, <3>3
    <2>6. \A w \in Writers : state[w] \in Dead => put'[Out(w)] = put[Out(w)]
      <3>1. \A w \in Writers : state[w] \in Dead => w # q /\ Out(w) # Out(q) /\ Out(w) \in Outputs
        BY <1>1, <1>2, <2>3, TwoFacts DEF Dead
      <3> QED
        BY <2>2, <3>1
    <2> QED
      BY <1>t, <1>1, <2>1, <2>4, <2>5, <2>6 DEF Passed
  <1>5. ASSUME End(q, "exited"), put[Out(q)] = Items,
               Out(q) = 0 => \A v \in Writers : Out(v) = 1 => state[v] \in Dead
        PROVE  Passed'
    <2>1. UNCHANGED <<hold, buf, put>>
      BY <1>5 DEF End
    <2>2. \A w \in Writers : state'[w] \in Dead => w = q \/ state[w] \in Dead
      BY <1>1, TwoFacts
    <2>3. \A w \in Writers : state[w] \in Dead => state'[w] \in Dead
      BY <1>1, TwoFacts
    <2> QED
      BY <1>t, <1>1, <1>5, <2>1, <2>2, <2>3 DEF Passed
  <1>6. CASE ReadEnd(q)
    BY <1>5, <1>6, SecondEnd
  <1>7. CASE Finish(q)
    <2>1. End(q, "exited") /\ program[q] \in {"source", "head"} /\ left[q] = 0
      BY <1>7 DEF Finish, Finished
    <2>2. Out(q) = 1 /\ put[1] + left[q] = Items
      BY <1>t, <1>1, <1>2, <2>1 DEF Flow, Carries
    <2> QED
      BY <1>5, <2>1, <2>2, TwoFacts
  <1> QED
    BY <1>3, <1>4, <1>6, <1>7, FirstUnbroken DEF ProgramStep

LEMMA NextPassed ==
  ASSUME IInv, Children, Passed, [Next]_vars
  PROVE  Passed'
  <1>s. UNCHANGED <<shell, scarce, cmd>>
    BY DEF Next, vars, CreatePd, ForkFront, ForkExit, ForkStage, CloseBoth, Step, ForkPipes, CreatePipe,
      Spawn, ExecStage, CloseWriteEnd, ExecLast, TwoStages, ExecFront, ExecExit, ExecOrExit
  <1> SUFFICES ASSUME shell = "n", RunsThrough PROVE Passed'
    BY <1>s, SameThrough DEF Passed
  <1>1. CASE UNCHANGED vars
    <2>1. Writers' = Writers /\ \A w : Out(w)' = Out(w)
      BY <1>1 DEF vars, kernelVars, codeVars, Writers, Out
    <2> QED
      BY <1>1, <2>1 DEF vars, kernelVars, codeVars, Passed
  <1> QED
    BY <1>1, PassedCode, PassedProgram, OwnCode DEF Next, Step

RowInv == CleanInv /\ WriteEnds /\ Children /\ Passed

LEMMA InitRow == Init => RowInv
  <1> SUFFICES ASSUME Init PROVE RowInv
    OBVIOUS
  <1>1. CleanInv
    BY InitIInv, InitClean DEF CleanInv
  <1>2. Writers = {} \/ shell = "cmdline"
    BY ShellsAssumption DEF Init, KernelInit, Writers
  <1>3. fds[1] = {} /\ pc[1] = "pipe" /\ stdin[1] = 0 /\ 1 \in Pipes
    BY FirstProcess DEF Init, KernelInit
  <1>4. WriteEnds
    BY DEF Init, KernelInit, WriteEnds
  <1>5. Children
    BY <1>2, <1>3 DEF Init, Children
  <1>6. Passed
    BY <1>2, <1>3 DEF Init, KernelInit, Outputs, Passed
  <1> QED
    BY <1>1, <1>4, <1>5, <1>6 DEF RowInv

LEMMA NextRow == RowInv /\ [Next]_vars => RowInv'
  BY NextClean, NextWriteEnds, NextChildren, NextPassed DEF RowInv, CleanInv

-----------------------------------------------------------------------------
(* A pipeline that runs through is a relay *)

\* Two stages write to two places
LEMMA Outlets ==
  ASSUME IInv
  PROVE  /\ Stages \in Nat \ {0, 1} /\ (shell = "cmdline" => Stages = n + 1)
         /\ \A j, k \in 1 .. Stages : OutputOf(j) = OutputOf(k) => j = k
         /\ \A k \in 1 .. Stages : k # Stages => OutputOf(k) = k
  BY DEF IInv, Kinds, Stages, OutputOf

\* A process that has ended, or runs its program, is the only one with its output
LEMMA OneOutlet ==
  ASSUME IInv, RunsThrough, NEW q \in Procs, Executed(q), NEW r \in Procs, Executed(r),
         stdout[r] = stdout[q]
  PROVE  r = q
  <1>1. \A p \in Procs : Executed(p) => p \in Writers /\ Out(p) = stdout[p]
    BY DEF RunsThrough, IInv, Kinds, Control, Executed, Writers, Out
  <1> QED
    BY <1>1 DEF IInv, Distinct

\* What neither passes on a datum nor ends a stage is no step of the relay
LEMMA RowStutter ==
  ASSUME UNCHANGED <<shell, scarce, cmd>>,
         RunsThrough => /\ put' = put
                        /\ \A q \in Procs : state'[q] \in Dead <=> state[q] \in Dead
                        /\ \A q \in Procs : state[q] \in Dead => stdout'[q] = stdout[q]
  PROVE  UNCHANGED Row!vars
  BY SameThrough DEF Row!vars

\* A stage that writes passes on a datum ...
LEMMA RowPass ==
  ASSUME IInv, RunsThrough, NEW q \in Procs, Write(q), UNCHANGED <<shell, scarce, cmd>>,
         NEW k \in 1 .. Stages, OutputOf(k) = stdout[q],
         put[stdout[q]] < IF k = 1 THEN Items ELSE put[k - 1],
         k > 1 => k - 1 \in Outputs,
         k < Stages /\ OutputOf(k + 1) \in Outputs => put[stdout[q]] - put[OutputOf(k + 1)] <= Capacity,
         k < Stages => put[stdout[q]] <= Capacity \/ OutputOf(k + 1) \in Outputs
  PROVE  Row!Pass(k)
  <1> DEFINE passed == [j \in 1 .. Stages |->
                          IF RunsThrough /\ OutputOf(j) \in Outputs THEN put[OutputOf(j)] ELSE 0]
             ended == {j \in 1 .. Stages : RunsThrough /\ \E r \in Procs :
                         state[r] \in Dead /\ stdout[r] = OutputOf(j)}
  <1>1. /\ state[q] = "prog" /\ UNCHANGED <<state, stdout>>
        /\ put' = [put EXCEPT ![stdout[q]] = @ + 1]
    BY DEF Write, HasDatum, Runs
  <1>2. stdout[q] \in Outputs /\ put \in [Outputs -> 0 .. Items] /\ \A x \in Outputs : put[x] \in Nat
    BY KernelAssumption DEF IInv, Kinds, Flow
  <1>3. /\ Stages \in Nat \ {0, 1} /\ \A j \in 1 .. Stages : OutputOf(j) = OutputOf(k) => j = k
        /\ k > 1 => OutputOf(k - 1) = k - 1
    BY Outlets
  <1>4. k \notin ended
    <2> SUFFICES ASSUME NEW r \in Procs, state[r] \in Dead, stdout[r] = stdout[q] PROVE FALSE
      OBVIOUS
    <2>1. r = q
      BY <1>1, OneOutlet DEF Executed, Dead
    <2> QED
      BY <1>1, <2>1 DEF Dead
  <1>5. passed[k] < IF k = 1 THEN Items ELSE passed[k - 1]
    <2>1. passed[k] = put[stdout[q]]
      BY <1>2
    <2>2. k > 1 => k - 1 \in 1 .. Stages /\ passed[k - 1] = put[k - 1]
      BY <1>3
    <2> QED
      BY <2>1, <2>2, <1>3
  <1>6. k < Stages => passed[k] - passed[k + 1] <= Capacity
    <2> SUFFICES ASSUME k < Stages PROVE passed[k] - passed[k + 1] <= Capacity
      OBVIOUS
    <2>1. passed[k] = put[stdout[q]] /\ k + 1 \in 1 .. Stages
      BY <1>2, <1>3
    <2>2. passed[k + 1] = IF OutputOf(k + 1) \in Outputs THEN put[OutputOf(k + 1)] ELSE 0
      BY <2>1
    <2> QED
      BY <1>2, <2>1, <2>2
  <1>7. passed' = [passed EXCEPT ![k] = @ + 1]
    <2>1. Stages' = Stages /\ RunsThrough' = RunsThrough /\ \A j : OutputOf(j)' = OutputOf(j)
      BY SameThrough
    <2>2. \A j \in 1 .. Stages : j # k /\ OutputOf(j) \in Outputs => put'[OutputOf(j)] = put[OutputOf(j)]
      BY <1>1, <1>2, <1>3
    <2>3. put'[stdout[q]] = put[stdout[q]] + 1
      BY <1>1, <1>2
    <2> QED
      BY <1>2, <2>1, <2>2, <2>3
  <1>8. UNCHANGED <<Stages, ended>>
    BY <1>1, SameThrough
  <1> QED
    BY <1>4, <1>5, <1>6, <1>7, <1>8 DEF Row!Pass, Row!Offered

\* ... and a stage that ends has passed on everything
LEMMA RowEnd ==
  ASSUME IInv, RunsThrough, NEW q \in Procs, Runs(q), End(q, "exited"), UNCHANGED <<shell, scarce, cmd>>,
         NEW k \in 1 .. Stages, OutputOf(k) = stdout[q], put[stdout[q]] = Items,
         k > 1 => \E r \in Procs : state[r] \in Dead /\ stdout[r] = k - 1
  PROVE  Row!End(k)
  <1> DEFINE passed == [j \in 1 .. Stages |->
                          IF RunsThrough /\ OutputOf(j) \in Outputs THEN put[OutputOf(j)] ELSE 0]
             ended == {j \in 1 .. Stages : RunsThrough /\ \E r \in Procs :
                         state[r] \in Dead /\ stdout[r] = OutputOf(j)}
  <1>1. /\ state[q] = "prog" /\ state' = [state EXCEPT ![q] = "exited"] /\ UNCHANGED <<stdout, put>>
    BY DEF End, Runs
  <1>2. stdout[q] \in Outputs /\ \A r \in Procs : state'[r] = IF r = q THEN "exited" ELSE state[r]
    BY <1>1 DEF IInv, Kinds
  <1>3. /\ Stages \in Nat \ {0, 1} /\ \A j \in 1 .. Stages : OutputOf(j) = OutputOf(k) => j = k
        /\ k > 1 => OutputOf(k - 1) = k - 1
    BY Outlets
  <1>4. k \notin ended
    <2> SUFFICES ASSUME NEW r \in Procs, state[r] \in Dead, stdout[r] = stdout[q] PROVE FALSE
      OBVIOUS
    <2>1. r = q
      BY <1>1, OneOutlet DEF Executed, Dead
    <2> QED
      BY <1>1, <2>1 DEF Dead
  <1>5. passed[k] = Items
    BY <1>2
  <1>6. k > 1 => k - 1 \in ended
    BY <1>3
  <1>7. Stages' = Stages /\ RunsThrough' = RunsThrough /\ \A j : OutputOf(j)' = OutputOf(j)
    BY SameThrough
  <1>8. ended' = ended \cup {k}
    <2>1. ASSUME NEW j \in 1 .. Stages
          PROVE  (\E r \in Procs : state'[r] \in Dead /\ stdout[r] = OutputOf(j))
                   <=> (j = k \/ \E r \in Procs : state[r] \in Dead /\ stdout[r] = OutputOf(j))
      BY <1>1, <1>2, <1>3 DEF Dead
    <2> QED
      BY <1>1, <1>7, <2>1
  <1>9. UNCHANGED <<Stages, passed>>
    BY <1>1, <1>7
  <1> QED
    BY <1>4, <1>5, <1>6, <1>8, <1>9 DEF Row!End

\* In cmdline.c the stage of a process is its iteration of fork_pipes
LEMMA Place ==
  ASSUME IInv, Shape, Clean, NEW q \in Procs, Executed(q)
  PROVE  i[q] \in 1 .. Stages /\ OutputOf(i[q]) = stdout[q]
  <1>1. Straight
    BY DEF Clean
  <1>2. i[q] \in 1 .. n + 1 /\ n \in Nat \ {0} /\ Stages = n + 1
    BY CleanFacts, Outlets
  <1>3. q # 1 => stdout[q] = i[q] /\ i[q] <= n
    BY <1>1, Stage DEF Shape
  <1>4. q = 1 => i[q] = n + 1 /\ stdout[q] = 0
    BY <1>1, Stage DEF Shape
  <1> QED
    BY <1>2, <1>3, <1>4 DEF OutputOf

LEMMA CleanThrough ==
  ASSUME IInv, Shape, shell = "cmdline"
  PROVE  Clean <=> RunsThrough
  <1>1. n \in Nat \ {0} /\ Stages = n + 1
    BY Outlets DEF IInv, Kinds
  <1>2. ASSUME Clean PROVE RunsThrough
    BY <1>1, <1>2, CleanFacts DEF RunsThrough, Clean
  <1>3. ASSUME RunsThrough PROVE Clean
    BY <1>1, <1>3 DEF RunsThrough, Clean, Straight, FailedStage, AllFilters, Unexecutable
  <1> QED
    BY <1>2, <1>3

LEMMA CleanPass ==
  ASSUME CleanInv, Clean, NEW q \in Procs, Write(q), UNCHANGED <<shell, scarce, cmd>>
  PROVE  Row!Next
  <1>1. /\ IInv /\ Shape /\ Conserved /\ Straight /\ RunsThrough /\ Executed(q) /\ state[q] = "prog"
        /\ hold[q] = 1 \/ (program[q] = "source" /\ left[q] > 0)
        /\ stdout[q] # 0 => buf[stdout[q]] < Capacity
    BY CleanThrough DEF CleanInv, Clean, Straight, Write, HasDatum, Runs, Executed
  <1>2. /\ i[q] \in 1 .. Stages /\ OutputOf(i[q]) = stdout[q]
        /\ program[q] = IF i[q] = 1 THEN "source" ELSE "filter"
        /\ i[q] > 1 => in[q] \in Pipes /\ in[q] = i[q] - 1
    BY <1>1, Place, CleanStage, Stage
  <1>3. put[stdout[q]] < IF i[q] = 1 THEN Items ELSE put[i[q] - 1]
    <2>1. CASE i[q] = 1
      <3>1. put[stdout[q]] + left[q] = Items /\ hold[q] = 0
        BY <1>1, <1>2, <2>1 DEF IInv, Flow, Carries
      <3>2. left[q] > 0 /\ left[q] \in Nat /\ put[stdout[q]] \in Nat
        BY <1>1, <3>1, CleanFacts, KernelAssumption DEF IInv, Flow
      <3> QED
        BY <2>1, <3>1, <3>2
    <2>2. CASE i[q] # 1
      <3>1. i[q] > 1 /\ hold[q] = 1
        BY <1>1, <1>2, <2>2, CleanFacts
      <3>2. put[stdout[q]] + hold[q] + buf[in[q]] = put[in[q]]
        BY <1>1, <3>1 DEF Conserved
      <3>3. buf[in[q]] \in Nat /\ put[stdout[q]] \in Nat /\ put[in[q]] \in Nat
        BY <1>1, <1>2, <3>1, CleanFacts
      <3> QED
        BY <1>2, <2>2, <3>1, <3>2, <3>3
    <2> QED
      BY <2>1, <2>2
  <1>4. i[q] > 1 => i[q] - 1 \in Outputs
    BY <1>2 DEF Outputs
  \* the next stage is behind by what is in the pipe and the datum it holds
  <1>5. ASSUME i[q] < Stages
        PROVE  \/ OutputOf(i[q] + 1) \in Outputs /\ put[stdout[q]] - put[OutputOf(i[q] + 1)] <= Capacity
               \/ put[stdout[q]] <= Capacity
    <2>1. /\ stdout[q] = i[q] /\ stdout[q] \in Pipes /\ buf[stdout[q]] < Capacity /\ i[q] \in Nat
          /\ put[stdout[q]] \in Nat /\ buf[stdout[q]] \in Nat /\ Capacity \in Nat
      <3>1. stdout[q] = i[q] /\ i[q] # 0
        BY <1>1, <1>2, <1>5, Outlets
      <3> QED
        BY <1>1, <1>2, <3>1, CleanFacts, KernelAssumption
    <2>2. CASE \E r \in Procs : Executed(r) /\ i[r] = i[q] + 1
      <3>1. PICK r \in Procs : Executed(r) /\ i[r] = i[q] + 1
        BY <2>2
      <3>2. /\ put[stdout[r]] + hold[r] + buf[in[r]] = put[in[r]] /\ in[r] = i[q]
            /\ stdout[r] = OutputOf(i[q] + 1)
        BY <1>1, <2>1, <3>1, Place, Stage DEF Conserved
      <3>3. hold[r] \in {0, 1} /\ put[stdout[r]] \in Nat /\ stdout[r] \in Outputs
        BY <1>1, CleanFacts DEF IInv, Flow
      <3> QED
        BY <2>1, <3>2, <3>3
    <2>3. CASE \A r \in Procs : Executed(r) => i[r] # i[q] + 1
      <3>1. buf[stdout[q]] = put[stdout[q]]
        BY <1>1, <2>1, <2>3 DEF Conserved
      <3> QED
        BY <2>1, <3>1
    <2> QED
      BY <2>2, <2>3
  <1>6. /\ i[q] < Stages /\ OutputOf(i[q] + 1) \in Outputs =>
             put[stdout[q]] - put[OutputOf(i[q] + 1)] <= Capacity
        /\ i[q] < Stages => put[stdout[q]] <= Capacity \/ OutputOf(i[q] + 1) \in Outputs
    <2>1. put[stdout[q]] \in Nat /\ Capacity \in Nat /\ \A x \in Outputs : put[x] \in Nat
      BY <1>1, CleanFacts, KernelAssumption
    <2> QED
      BY <1>5, <2>1
  <1>7. Row!Pass(i[q])
    BY <1>1, <1>2, <1>3, <1>4, <1>6, RowPass
  <1> QED
    BY <1>2, <1>7 DEF Row!Next

LEMMA CleanRowEnd ==
  ASSUME CleanInv, Clean, NEW q \in Procs, ReadEnd(q) \/ Finish(q), UNCHANGED <<shell, scarce, cmd>>
  PROVE  Row!Next
  <1>1. IInv /\ Shape /\ Conserved /\ Drained /\ Straight /\ RunsThrough
    BY CleanThrough DEF CleanInv, Clean, Straight
  <1>2. Runs(q) /\ End(q, "exited") /\ Executed(q)
    BY DEF ReadEnd, Wants, Finish, Runs, Executed
  <1>3. i[q] \in 1 .. Stages /\ OutputOf(i[q]) = stdout[q] /\ i[q] \in Nat
    BY <1>1, <1>2, Place, CleanFacts
  <1>4. CASE ReadEnd(q)
    <2>1. PICK w \in Writers \ {1} : i[w] = i[q] - 1 /\ state[w] \in Dead
      BY <1>1, <1>4, EndOfInput
    <2>2. w \in Procs /\ Executed(w) /\ w # 1
      BY <2>1 DEF Writers, Executed, Dead
    <2>3. stdout[w] = i[q] - 1
      BY <1>1, <2>1, <2>2, Stage DEF Shape
    <2>4. put[stdout[q]] = Items
      BY <1>1, <1>4, EndOfInput
    <2> QED
      BY <1>1, <1>2, <1>3, <2>1, <2>2, <2>3, <2>4, RowEnd DEF Row!Next
  <1>5. CASE Finish(q)
    <2>1. program[q] \in {"source", "head"} /\ left[q] = 0
      BY <1>5 DEF Finish, Finished
    <2>2. program[q] = "source" /\ i[q] = 1
      BY <1>1, <1>2, <2>1, CleanStage
    <2>3. put[stdout[q]] + left[q] = Items
      BY <1>1, <1>2, <2>2 DEF IInv, Flow, Carries, Runs
    <2>4. put[stdout[q]] = Items
      BY <1>1, <2>1, <2>3, CleanFacts
    <2> QED
      BY <1>1, <1>2, <1>3, <2>2, <2>4, RowEnd DEF Row!Next
  <1> QED
    BY <1>4, <1>5

\* The two stages of n.c
LEMMA TwoPass ==
  ASSUME IInv, Children, Passed, shell = "n", RunsThrough, NEW q \in Procs, Write(q),
         UNCHANGED <<shell, scarce, cmd>>
  PROVE  Row!Next
  <1>1. /\ state[q] = "prog"
        /\ hold[q] = 1 \/ (program[q] = "source" /\ left[q] > 0)
        /\ stdout[q] # 0 => buf[stdout[q]] < Capacity
    BY DEF Write, HasDatum, Runs
  <1>2. /\ q \in Writers /\ pc[q] = "none" /\ Out(q) = stdout[q] /\ Out(q) \in {0, 1}
        /\ program[q] = IF Out(q) = 1 THEN "source" ELSE "filter"
    BY <1>1, TwoFacts
  <1>3. /\ Stages = 2 /\ OutputOf(1) = 1 /\ OutputOf(2) = 0 /\ OutputOf(1 + 1) = 0 /\ 2 - 1 = 1
        /\ 0 \in Outputs /\ 1 \in Outputs
    BY TwoFacts DEF Stages, OutputOf, Outputs
  <1>4. \A w \in Writers : hold[w] \in {0, 1}
    BY TwoFacts DEF IInv, Flow
  <1>5. CASE Out(q) = 1
    <2>1. put[1] + left[q] = Items /\ left[q] > 0 /\ left[q] \in Nat
      <3>1. Carries(q) /\ left[q] \in Nat
        BY <1>1, KernelAssumption DEF IInv, Flow
      <3> QED
        BY <1>1, <1>2, <1>5, <3>1 DEF Carries
    <2>2. put[1] < Items
      BY <2>1, TwoFacts
    <2>3. put[1] - put[0] <= Capacity
      <3>1. buf[1] < Capacity /\ Capacity \in Nat
        BY <1>1, <1>2, <1>5, KernelAssumption
      <3>2. CASE \E w \in Writers : Out(w) = 0 /\ pc[w] = "none"
        <4>1. PICK w \in Writers : Out(w) = 0 /\ pc[w] = "none"
          BY <3>2
        <4>2. put[0] + hold[w] + buf[1] = put[1]
          BY <4>1 DEF Passed
        <4> QED
          BY <1>4, <3>1, <4>2, TwoFacts
      <3>3. CASE \A w \in Writers : Out(w) = 0 => pc[w] # "none"
        <4>1. buf[1] = put[1]
          BY <3>3 DEF Passed
        <4> QED
          BY <3>1, <4>1, TwoFacts
      <3> QED
        BY <3>2, <3>3
    <2>4. Row!Pass(1)
      <3>1. /\ 1 \in 1 .. Stages /\ OutputOf(1) = stdout[q]
            /\ put[stdout[q]] < IF 1 = 1 THEN Items ELSE put[1 - 1]
            /\ put[stdout[q]] - put[OutputOf(1 + 1)] <= Capacity /\ OutputOf(1 + 1) \in Outputs
        BY <1>2, <1>3, <1>5, <2>2, <2>3
      <3> QED
        BY <3>1, RowPass
    <2> QED
      BY <1>3, <2>4 DEF Row!Next
  <1>6. CASE Out(q) = 0
    <2>1. hold[q] = 1 /\ put[0] + hold[q] + buf[1] = put[1]
      BY <1>1, <1>2, <1>6 DEF Passed
    <2>2. put[0] < put[1]
      BY <2>1, TwoFacts
    <2>3. Row!Pass(2)
      <3>1. /\ 2 \in 1 .. Stages /\ OutputOf(2) = stdout[q] /\ ~(2 < Stages)
            /\ put[stdout[q]] < IF 2 = 1 THEN Items ELSE put[2 - 1]
            /\ 2 - 1 \in Outputs
        BY <1>2, <1>3, <1>6, <2>2
      <3> QED
        BY <3>1, RowPass
    <2> QED
      BY <1>3, <2>3 DEF Row!Next
  <1> QED
    BY <1>2, <1>5, <1>6

LEMMA TwoEnd ==
  ASSUME IInv, Children, Passed, shell = "n", RunsThrough, NEW q \in Procs, ReadEnd(q) \/ Finish(q),
         UNCHANGED <<shell, scarce, cmd>>
  PROVE  Row!Next
  <1>1. Runs(q) /\ End(q, "exited") /\ state[q] = "prog"
    BY DEF ReadEnd, Wants, Finish, Runs
  <1>2. Stages = 2 /\ OutputOf(1) = 1 /\ OutputOf(2) = 0
    BY DEF Stages, OutputOf
  <1>3. CASE ReadEnd(q)
    <2>1. PICK w \in Writers : Out(w) = 1 /\ state[w] \in Dead
      BY <1>3, SecondEnd
    <2>2. w \in Procs /\ stdout[w] = 1
      BY <2>1, TwoFacts DEF Dead
    <2>3. Row!End(2)
      BY <1>1, <1>2, <1>3, <2>1, <2>2, SecondEnd, RowEnd
    <2> QED
      BY <1>2, <2>3 DEF Row!Next
  <1>4. CASE Finish(q)
    <2>1. program[q] \in {"source", "head"} /\ left[q] = 0
      BY <1>4 DEF Finish, Finished
    <2>2. program[q] = "source" /\ stdout[q] = 1
      BY <1>1, <2>1, TwoFacts
    <2>3. put[1] + left[q] = Items
      BY <1>1, <2>2 DEF IInv, Flow, Carries
    <2>4. put[1] = Items
      BY <2>1, <2>3, TwoFacts
    <2>5. Row!End(1)
      BY <1>1, <1>2, <2>2, <2>4, RowEnd
    <2> QED
      BY <1>2, <2>5 DEF Row!Next
  <1> QED
    BY <1>3, <1>4

\* The code of the shells touches no data and no stage that has ended
LEMMA CodeSteps ==
  ASSUME IInv, Children, RunsThrough,
         \/ CreatePd \/ ForkFront \/ ForkExit \/ CloseBoth
         \/ \E q \in Procs : ForkPipes(q) \/ TwoStages(q)
  PROVE  /\ UNCHANGED <<shell, scarce, cmd, put>>
         /\ \A q \in Procs : state'[q] \in Dead <=> state[q] \in Dead
         /\ \A q \in Procs : state[q] \in Dead => stdout'[q] = stdout[q]
  <1>t. state \in [Procs -> States] /\ stdout \in [Procs -> Outputs]
    BY DEF IInv, Kinds
  <1>1. CASE UNCHANGED <<state, stdout, shell, scarce, cmd, put>>
    BY <1>1
  <1>2. ASSUME NEW q \in Procs, NEW c \in Procs, Fork(q, c), UNCHANGED <<shell, scarce, cmd, put>>
        PROVE  /\ UNCHANGED <<shell, scarce, cmd, put>>
               /\ \A r \in Procs : state'[r] \in Dead <=> state[r] \in Dead
               /\ \A r \in Procs : state[r] \in Dead => stdout'[r] = stdout[r]
    BY <1>t, <1>2 DEF Fork, Dead
  <1>3. ASSUME NEW q \in Procs, state[q] = "code", UNCHANGED <<shell, scarce, cmd, put>>,
               state' = state \/ state' = [state EXCEPT ![q] = "prog"],
               \E p : stdout' = [stdout EXCEPT ![q] = p]
        PROVE  /\ UNCHANGED <<shell, scarce, cmd, put>>
               /\ \A r \in Procs : state'[r] \in Dead <=> state[r] \in Dead
               /\ \A r \in Procs : state[r] \in Dead => stdout'[r] = stdout[r]
    BY <1>t, <1>3 DEF Dead
  <1>4. CASE CreatePd \/ CloseBoth \/ \E q \in Procs : CreatePipe(q) \/ CloseWriteEnd(q)
    BY <1>1, <1>4 DEF CreatePd, CloseBoth, CreatePipe, CloseWriteEnd, RunsThrough
  <1>5. CASE ForkFront \/ ForkExit \/ \E q \in Procs : Spawn(q)
    BY <1>2, <1>5, FirstProcess DEF ForkFront, ForkExit, ForkStage, Spawn, NoFork, RunsThrough
  <1>6. ASSUME NEW q \in Procs, ExecStage(q) \/ ExecLast(q)
        PROVE  /\ UNCHANGED <<shell, scarce, cmd, put>> /\ state[q] = "code"
               /\ state' = state \/ state' = [state EXCEPT ![q] = "prog"]
               /\ \E p : stdout' = [stdout EXCEPT ![q] = p]
    <2>1. \E p : stdout' = [stdout EXCEPT ![q] = p]
      <3>1. stdout = [stdout EXCEPT ![q] = stdout[q]]
        BY <1>t
      <3> QED
        BY <1>6, <3>1 DEF ExecStage, ExecLast, Redirected
    <2> QED
      BY <1>6, <2>1 DEF ExecStage, ExecLast, Load, At
  <1>7. ASSUME NEW q \in Procs, TwoStages(q)
        PROVE  /\ UNCHANGED <<shell, scarce, cmd, put>> /\ state[q] = "code"
               /\ state' = [state EXCEPT ![q] = "prog"]
               /\ \E p : stdout' = [stdout EXCEPT ![q] = p]
    <2>1. \E p : stdout' = [stdout EXCEPT ![q] = p]
      <3>1. stdout = [stdout EXCEPT ![q] = stdout[q]]
        BY <1>t
      <3> QED
        BY <1>7, <3>1 DEF TwoStages, ExecFront, ExecExit
    <2>2. ~Unexecutable(1) /\ ~Unexecutable(2)
      BY <1>7, OwnCode, TwoFacts
    <2> QED
      BY <1>7, <2>1, <2>2 DEF TwoStages, ExecFront, ExecExit, ExecOrExit, Load, At
  <1> QED
    BY <1>3, <1>4, <1>5, <1>6, <1>7 DEF ForkPipes

LEMMA RowNext == RowInv /\ [Next]_vars => [Row!Next]_Row!vars
  <1> SUFFICES ASSUME RowInv, [Next]_vars PROVE [Row!Next]_Row!vars
    OBVIOUS
  <1>1. UNCHANGED <<shell, scarce, cmd>>
    BY DEF Next, vars, CreatePd, ForkFront, ForkExit, ForkStage, CloseBoth, Step, ForkPipes, CreatePipe,
      Spawn, ExecStage, CloseWriteEnd, ExecLast, TwoStages, ExecFront, ExecExit, ExecOrExit
  <1>2. CleanInv /\ IInv /\ Shape /\ Children /\ Passed
    BY DEF RowInv, CleanInv
  <1>3. CASE ~RunsThrough
    BY <1>1, <1>3, RowStutter
  <1>4. CASE RunsThrough /\ UNCHANGED vars
    BY <1>1, <1>4, RowStutter DEF vars, kernelVars
  <1>5. ASSUME RunsThrough,
               \/ CreatePd \/ ForkFront \/ ForkExit \/ CloseBoth
               \/ \E q \in Procs : ForkPipes(q) \/ TwoStages(q)
        PROVE  UNCHANGED Row!vars
    BY <1>2, <1>5, CodeSteps, RowStutter
  <1>6. ASSUME RunsThrough, NEW q \in Procs, ProgramStep(q), UNCHANGED <<shell, scarce, cmd, codeVars>>
        PROVE  [Row!Next]_Row!vars
    <2>1. (shell = "cmdline" /\ Clean) \/ shell = "n"
      BY <1>2, <1>6, CleanThrough DEF IInv, Kinds
    <2>2. CASE Read(q)
      BY <1>1, <2>2, RowStutter DEF Read
    <2>3. CASE Write(q)
      BY <1>1, <1>2, <1>6, <2>1, <2>3, CleanPass, TwoPass
    <2>4. CASE ReadEnd(q) \/ Finish(q)
      BY <1>1, <1>2, <1>6, <2>1, <2>4, CleanRowEnd, TwoEnd
    <2>5. ~WriteBroken(q)
      <3>1. shell = "cmdline" => ~WriteBroken(q)
        BY <1>2 DEF WriteBroken, HasDatum, Runs, IInv, Ends, Alive, HasReader, HoldsRead
      <3> QED
        BY <1>2, <1>6, <2>1, <3>1, FirstUnbroken
    <2> QED
      BY <1>6, <2>2, <2>3, <2>4, <2>5 DEF ProgramStep
  <1> QED
    BY <1>3, <1>4, <1>5, <1>6 DEF Next, Step

\* A pipeline of either shell whose commands are forked and read to the end passes its data
\* on as a relay does, for any number of stages, data and any capacity of a pipe:
\* no stage writes what it has not been given or gets ahead of the next one by more
\* than a pipe holds, and it ends with all data passed on, after the stage before it
\* (cmdline.c:91-133, n.c:104-131).
THEOREM PipelineIsRelay == Spec => ImplementsRelay
  <1>1. Init => Row!Init
    <2> SUFFICES ASSUME Init PROVE Row!Init
      OBVIOUS
    <2>1. Stages \in Nat \ {0}
      BY InitIInv, Outlets
    <2>2. \A x \in Outputs : put[x] = 0
      BY DEF Init, KernelInit
    <2>3. \A q \in Procs : state[q] \notin Dead
      BY DEF Init, KernelInit, Dead
    <2> QED
      BY <2>1, <2>2, <2>3 DEF Row!Init
  <1> QED
    BY <1>1, InitRow, NextRow, RowNext, PTL DEF Spec, ImplementsRelay, Row!Spec

-----------------------------------------------------------------------------
(* The stages never wait for each other in a ring *)

\* A set of numbers has a least one: the initial segments up to its members are
\* finite sets, and inclusion of those is well-founded
LEMMA LeastNumber ==
  ASSUME NEW S, S \subseteq Nat, S # {}
  PROVE  \E x \in S : \A y \in S : x <= y
  <1> DEFINE Below == {1 .. k : k \in S}
  <1>1. Below \subseteq FiniteSubsetsOf(Nat) /\ Below # {}
    <2>1. ASSUME NEW k \in S PROVE IsFiniteSet(1 .. k) /\ 1 .. k \subseteq Nat
      BY FS_Interval
    <2> QED
      BY <2>1 DEF FiniteSubsetsOf
  <1>2. PICK T \in Below : \A U \in Below : <<U, T>> \notin StrictSubsetOrdering(Nat)
    BY <1>1, FS_StrictSubsetOrderingWellFounded, WFMin
  <1>3. PICK x \in S : T = 1 .. x
    OBVIOUS
  <1>4. ASSUME NEW y \in S, y < x PROVE FALSE
    <2>1. 1 .. y \in Below /\ 1 .. y \subseteq Nat /\ 1 .. x \subseteq Nat
      OBVIOUS
    <2>2. 1 .. y \subseteq 1 .. x /\ x \in 1 .. x /\ x \notin 1 .. y
      BY <1>4
    <2>3. <<1 .. y, T>> \in StrictSubsetOrdering(Nat)
      BY <1>3, <2>1, <2>2 DEF StrictSubsetOrdering
    <2> QED
      BY <1>2, <2>1, <2>3
  <1> QED
    BY <1>4

\* A program that could write and cannot go on waits for its input
LEMMA Waits ==
  ASSUME IInv, NEW q \in Procs, Runs(q), ~CanRun(q), stdout[q] = 0 \/ buf[stdout[q]] < Capacity
  PROVE  /\ program[q] # "source" /\ pc[q] = "none" /\ q \in Writers /\ Out(q) = stdout[q]
         /\ stdin[q] # 0 => buf[stdin[q]] = 0 /\ HasWriter(stdin[q])
  <1>1. /\ state[q] = "prog" /\ program[q] \in Programs /\ hold[q] \in {0, 1} /\ left[q] \in Nat
        /\ stdin[q] \in Outputs
    BY KernelAssumption DEF Runs, IInv, Flow, Kinds
  <1>2. ~HasDatum(q)
    BY DEF CanRun
  <1>3. hold[q] = 0 /\ ~Finished(q)
    BY <1>1, <1>2 DEF HasDatum, CanRun
  <1>4. program[q] # "source"
    BY <1>1, <1>2, <1>3 DEF HasDatum, Runs, Finished
  <1>5. Wants(q)
    BY <1>3, <1>4 DEF Wants
  <1>6. ASSUME stdin[q] # 0
        PROVE  buf[stdin[q]] = 0 /\ HasWriter(stdin[q])
    <2>1. buf[stdin[q]] \in Nat
      BY <1>1, <1>6, KernelAssumption DEF IInv, Flow, Outputs
    <2> QED
      BY <1>3, <1>5, <1>6, <2>1 DEF CanRun
  <1> QED
    BY <1>1, <1>4, <1>6, Running DEF IInv

\* While the shell waits for a command that runs, of the stages that could write the
\* first one can go on: otherwise the one before it could write, for its pipe is empty
LEMMA RowGoesOn ==
  ASSUME IInv, Shape, WriteEnds, Straight, Runs(1)
  PROVE  \E q \in Procs : CanRun(q)
  <1> SUFFICES ASSUME \A q \in Procs : ~CanRun(q) PROVE FALSE
    OBVIOUS
  <1> DEFINE CanWrite(q) == Runs(q) /\ (stdout[q] = 0 \/ buf[stdout[q]] < Capacity)
             S == {k \in 1 .. n + 1 : \E q \in Procs : CanWrite(q) /\ i[q] = k}
  <1>1. S \subseteq Nat /\ S # {}
    <2>1. CanWrite(1) /\ i[1] \in 1 .. n + 1
      BY StraightFacts, FirstProcess DEF Shape
    <2> QED
      BY <2>1, StraightFacts, FirstProcess
  <1>2. PICK k \in S : \A j \in S : k <= j
    BY <1>1, LeastNumber
  <1>3. PICK q \in Procs : CanWrite(q) /\ i[q] = k
    OBVIOUS
  <1>4. program[q] # "source" /\ (stdin[q] # 0 => buf[stdin[q]] = 0 /\ HasWriter(stdin[q]))
    BY <1>3, Waits
  <1>5. Executed(q) /\ k \in 1 .. n + 1
    BY <1>3 DEF Executed, Runs
  <1>6. k > 1 /\ stdin[q] = k - 1 /\ stdin[q] \in Pipes
    <2>1. k # 1
      <3>1. cmd[1] = "source" /\ ~Unexecutable(1)
        BY DEF Shape, Unexecutable
      <3> QED
        BY <1>3, <1>4, <1>5, <3>1, Stage
    <2> QED
      BY <1>3, <1>5, <2>1, Stage, StraightFacts
  <1>7. PICK x \in Procs : Alive(x) /\ HoldsWrite(x, k - 1)
    BY <1>4, <1>6, StraightFacts DEF HasWriter
  <1>8. x \in Writers /\ pc[1] = "none" /\ stdout[1] = 0
    BY <1>7, StraightFacts, FirstProcess DEF Alive, Runs, IInv, Control, Shape
  <1>9. pc[x] = "none" /\ x # 1
    <2>1. pc[x] # "child"
      BY FirstProcess DEF CanRun, IInv, Control
    <2>2. x = 1 => ~HoldsWrite(x, k - 1)
      BY <1>6, <1>8, StraightFacts DEF HoldsWrite, WriteEnds
    <2> QED
      BY <1>7, <1>8, <2>1, <2>2 DEF Shape
  <1>10. Runs(x) /\ stdout[x] = k - 1
    <2>1. Runs(x)
      BY <1>7, <1>9 DEF IInv, Control, Alive, Runs
    <2>2. <<"w", k - 1>> \notin fds[x]
      BY <1>6, <1>9, StraightFacts DEF WriteEnds
    <2> QED
      BY <1>7, <2>1, <2>2 DEF HoldsWrite
  <1>11. i[x] = k - 1
    BY <1>8, <1>9, <1>10, Running DEF IInv, Shape, Runs
  <1>12. k - 1 \in S
    <2>1. buf[stdout[x]] < Capacity
      BY <1>4, <1>6, <1>10, StraightFacts, KernelAssumption
    <2> QED
      BY <1>6, <1>5, <1>10, <1>11, <2>1, StraightFacts
  <1> QED
    BY <1>1, <1>2, <1>12

\* The same for the two children of n.c, once main() has closed its ends
LEMMA ChildrenGoOn ==
  ASSUME IInv, Children, shell = "n", pc[1] = "prompt", NEW c \in Procs \ {1}, Alive(c)
  PROVE  \E q \in Procs \ {1} : CanRun(q)
  <1> SUFFICES ASSUME \A q \in Procs \ {1} : ~CanRun(q) PROVE FALSE
    OBVIOUS
  <1>1. ASSUME NEW x \in Procs, Alive(x), HoldsWrite(x, 1) \/ HoldsRead(x, 1) \/ x # 1
        PROVE  Runs(x) /\ x # 1 /\ x \in Writers /\ pc[x] = "none" /\ fds[x] = {} /\ stdout[x] = Out(x)
    <2>1. x # 1
      BY <1>1 DEF Children, HoldsWrite, HoldsRead, IInv, Branch
    <2>2. x \in Writers
      BY <1>1, <2>1 DEF Writers, Alive
    <2>3. pc[x] = "none"
      BY <1>1, <2>1 DEF IInv, Control, CanRun
    <2> QED
      BY <1>1, <2>1, <2>2, <2>3 DEF IInv, Control, Alive, Runs, Children, Out
  <1>2. ASSUME NEW x \in Writers, Runs(x), Out(x) = 1
        PROVE  program[x] = "source"
    BY <1>2 DEF IInv, Flow, Programs, Runs, Children, Writers
  \* the second one waits for an empty pipe, whose writer could write
  <1>3. ASSUME NEW x \in Procs \ {1}, Runs(x), stdout[x] = 0
        PROVE  buf[1] = 0
    <2>1. x \in Writers /\ pc[x] = "none" /\ Out(x) = 0
      BY <1>1, <1>3 DEF Alive, Runs
    <2>2. stdin[x] = 1
      BY <2>1 DEF Children
    <2> QED
      BY <1>3, <2>2, Waits
  <1>4. ASSUME NEW x \in Procs \ {1}, Runs(x), stdout[x] = 0
        PROVE  FALSE
    <2>1. x \in Writers /\ pc[x] = "none" /\ Out(x) = 0
      BY <1>1, <1>4 DEF Alive, Runs
    <2>2. stdin[x] = 1 /\ buf[1] = 0
      BY <1>3, <1>4, <2>1 DEF Children
    <2>3. PICK y \in Procs : Alive(y) /\ HoldsWrite(y, 1)
      BY <1>4, <2>2, Waits DEF HasWriter
    <2>4. Runs(y) /\ y \in Writers /\ y # 1 /\ stdout[y] = 1 /\ Out(y) = 1
      BY <1>1, <2>3 DEF HoldsWrite
    <2>5. buf[stdout[y]] < Capacity
      BY <2>2, <2>4, KernelAssumption
    <2> QED
      BY <1>2, <2>4, <2>5, Waits
  \* the first one waits for a full pipe, whose reader could read
  <1>5. ASSUME Runs(c), stdout[c] # 0
        PROVE  FALSE
    <2>1. c \in Writers /\ pc[c] = "none" /\ Out(c) = 1 /\ stdout[c] = 1
      BY <1>1, <1>5 DEF Children
    <2>2. ~(buf[1] < Capacity)
      BY <1>2, <1>5, <2>1, Waits
    <2>3. HasDatum(c)
      <3>1. program[c] = "source" /\ left[c] \in Nat /\ hold[c] = 0
        BY <1>2, <1>5, <2>1, KernelAssumption DEF IInv, Flow, Carries, Runs
      <3> QED
        BY <1>5, <3>1 DEF CanRun, Finished, HasDatum
    <2>4. HasReader(1)
      BY <2>1, <2>3 DEF CanRun
    <2>5. PICK y \in Procs : Alive(y) /\ HoldsRead(y, 1)
      BY <2>4 DEF HasReader
    <2>6. Runs(y) /\ y # 1 /\ y \in Writers /\ pc[y] = "none" /\ stdin[y] = 1 /\ stdout[y] = Out(y)
      BY <1>1, <2>5 DEF HoldsRead
    <2>7. stdout[y] = 0
      BY <2>6 DEF Children
    <2> QED
      BY <1>4, <2>6, <2>7
  <1> QED
    BY <1>1, <1>4, <1>5

\* However many stages there are, or could not be forked, and whatever they run,
\* while the shell of cmdline.c waits some stage can go on, and so it is with the
\* two children of n.c: nobody keeps a write end that it does not use
\* (cmdline.c:91-133, n.c:104-131).
THEOREM StagesGoOn == Spec => []NeverStuck
  <1>1. RowInv => NeverStuck
    BY RowGoesOn, ChildrenGoOn DEF RowInv, CleanInv, NeverStuck, Straight
  <1> QED
    BY <1>1, InitRow, NextRow, PTL DEF Spec
=============================================================================
