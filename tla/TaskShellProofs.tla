-------------------------- MODULE TaskShellProofs --------------------------
(***************************************************************************)
(* Theorems about n.c.  TaskShell, for every set of pids and table length: *)
(*                                                                         *)
(* None of the safety invariants is inductive.  The counter is bounded     *)
(* because an admitted background command leaves room until its increment  *)
(* (Room), because the kill loop never decrements a negative counter       *)
(* (KillCounter), and because a value in flight between a load and its     *)
(* store is itself a legal counter (InFlight).  Listed slots stay          *)
(* background pids because the slots below a loaded value are filled too.  *)
(*                                                                         *)
(* The command history of the same program, CommandsList, implements       *)
(* RecentCommands, for every set of commands and every size: an initial    *)
(* state maps to an initial state, and recording a line to keeping it.     *)
(***************************************************************************)
EXTENDS TaskShell, CommandsList, TLAPS, FiniteSetTheorems

\* The first n slots hold what was recorded for background commands
Filled(n) == \A s \in Slots : s < n => Background(taskPid[s])

\* Between the admission of a background command and its increment
Room ==
  /\ bg /\ pc \in KillLoop \cup {"fork"} => totalTasks <= MaxTasks - 1
  /\ pc \in {"rec_pid", "rec_id", "inc_load"} => totalTasks <= MaxTasks - 1

\* After the test i < totalTasks of the kill loop, until its load
KillCounter ==
  pc \in {"k_cmp", "k_kill", "k_shift", "k_load"} => totalTasks >= 0

\* A loaded counter that is still to be stored, plus or minus one
InFlight ==
  /\ pc = "k_store" => reg >= 0 /\ Filled(reg)
  /\ pc = "inc_store" => reg <= MaxTasks - 1 /\ Filled(reg + 1)

\* The slot being recorded
NewTask ==
  /\ pc \in Recording => Background(cur)
  /\ pc \in {"rec_id", "inc_load"} => Filled(totalTasks + 1)

\* Each iteration of the handler moves the index up and the counter down
ScanProgress ==
  hpc = "scan" =>
    \/ h0 < 0 /\ hi = 0 /\ totalTasks = h0
    \/ h0 >= 0 /\ totalTasks >= 0 /\ hi + totalTasks = h0 /\ hi <= totalTasks + 1

\* A pid that fork() has not returned yet has no role
FreshPids == \A p \in Pids : proc[p] = "unused" => role[p] = "none"

IInv ==
  /\ TypeOK /\ Room /\ KillCounter /\ InFlight /\ NewTask
  /\ ScanProgress /\ FreshPids
  /\ ListedTasksAreBackground /\ ForegroundFinished /\ ZombiesAccounted

-----------------------------------------------------------------------------
(* Lemmas about the operators *)

\* Storing a value of S, in or outside the array, keeps the array's type
LEMMA PutType ==
  ASSUME NEW a, NEW S, a \in [Slots -> S], NEW s, NEW v \in S
  PROVE  Put(a, s, v) \in [Slots -> S]
  BY DEF Put

LEMMA ShiftDownType ==
  ASSUME NEW a, NEW S, a \in [Slots -> S], NEW from \in Nat, NEW n \in Int,
         n <= MaxTasks
  PROVE  ShiftDown(a, from, n) \in [Slots -> S]
  <1> SUFFICES ASSUME NEW t \in Slots, from <= t, t < n - 1
               PROVE  a[t + 1] \in S
    BY DEF ShiftDown
  <1> t + 1 \in Slots
    BY MaxTasksAssumption DEF Slots
  <1> QED OBVIOUS

\* What every alternative of Read does to the rest of the state
ReadEffect ==
  /\ pc = "prompt" /\ hpc = "idle"
  /\ pc' \in {"prompt", "fork", "k_test", "pipe1"} \cup Stopped
  /\ bg' \in BOOLEAN
  /\ bg' /\ pc' \in {"fork", "k_test"} => totalTasks <= MaxTasks - 1
  /\ ki' \in Nat /\ target' \in Pids \cup {NoPid}
  /\ UNCHANGED <<cur, kj, reg, tableVars, handlerVars, kernelVars>>

LEMMA ReadLemma == TypeOK /\ Read => ReadEffect
  <1> SUFFICES ASSUME TypeOK, Read PROVE ReadEffect
    OBVIOUS
  <1> USE MaxTasksAssumption DEF ReadEffect, Stopped, TypeOK, Slots, MainAt, Accepts, ReadCommand
  <1>1. CASE \E b \in BOOLEAN : ReadOther(b)
    BY <1>1 DEF ReadOther
  <1>2. CASE \E b \in BOOLEAN : ReadKill(b)
    BY <1>2 DEF ReadKill
  <1>3. CASE \E b \in BOOLEAN : ReadExit(b)
    BY <1>3 DEF ReadExit
  <1>4. CASE \E b \in BOOLEAN : ReadBang(b)
    BY <1>4 DEF ReadBang
  <1>5. CASE \E b \in BOOLEAN : ReadPipeline(b)
    BY <1>5 DEF ReadPipeline
  <1>6. CASE ReadRefused
    BY <1>6 DEF ReadRefused
  <1>7. CASE ReadBad
    BY <1>7 DEF ReadBad
  <1> QED
    BY <1>1, <1>2, <1>3, <1>4, <1>5, <1>6, <1>7 DEF Read

\* The zombies are finitely many
LEMMA ZombiesFinite == IsFiniteSet(Zombies) /\ Cardinality(Zombies) \in Nat
  <1>1. Zombies \in SUBSET Pids
    BY DEF Zombies
  <1> QED
    BY <1>1, FinitePids, FS_Subset, FS_CardinalityType

\* Children that terminate are counted among the zombies once, and each of them
\* is either lost or the one whose signal becomes pending
LEMMA TerminateLemma ==
  ASSUME TypeOK, NEW victims \in SUBSET {p \in Pids : Running(p)}, Terminate(victims)
  PROVE  /\ proc' \in [Pids -> {"unused", "running", "zombie", "reaped"}]
         /\ sigchld' \in BOOLEAN /\ lost' \in Nat
         /\ ZombiesAccounted => ZombiesAccounted'
  <1>1. /\ IsFiniteSet(victims) /\ Cardinality(victims) \in Nat
        /\ Cardinality(victims) = 0 <=> victims = {}
    <2>1. victims \in SUBSET Pids
      OBVIOUS
    <2> QED
      BY <2>1, FinitePids, FS_Subset, FS_CardinalityType, FS_EmptySet
  <1>2. /\ sigchld \in BOOLEAN /\ installed \in BOOLEAN /\ lost \in Nat
        /\ proc \in [Pids -> {"unused", "running", "zombie", "reaped"}]
    BY DEF TypeOK
  <1>3. /\ proc' = [p \in Pids |-> IF p \in victims THEN "zombie" ELSE proc[p]]
        /\ sigchld' = (sigchld \/ (installed /\ victims # {}))
        /\ lost' = lost + Cardinality(victims) - (IF sigchld' /\ ~sigchld THEN 1 ELSE 0)
    BY DEF Terminate
  <1>4. sigchld' /\ ~sigchld => Cardinality(victims) >= 1
    BY <1>1, <1>2, <1>3
  <1>5. sigchld' \in BOOLEAN /\ (sigchld => sigchld')
    BY <1>2, <1>3
  <1>6. lost' \in Nat
    BY <1>1, <1>2, <1>3, <1>4
  <1>7. /\ Cardinality(Zombies') \in Nat
        /\ Cardinality(Zombies') = Cardinality(Zombies) + Cardinality(victims)
    <2>1. Zombies' = Zombies \cup victims /\ Zombies \cap victims = {}
      BY <1>2, <1>3 DEF Zombies, Running
    <2>2. /\ IsFiniteSet(Zombies')
          /\ Cardinality(Zombies') =
               Cardinality(Zombies) + Cardinality(victims) - Cardinality(Zombies \cap victims)
      BY <1>1, <2>1, ZombiesFinite, FS_Union
    <2>3. Cardinality(Zombies \cap victims) = 0
      BY <2>1, FS_EmptySet
    <2> QED
      BY <1>1, <2>2, <2>3, ZombiesFinite, FS_CardinalityType
  <1>8. ASSUME ZombiesAccounted PROVE ZombiesAccounted'
    <2>1. Cardinality(Zombies) <= lost + (IF sigchld THEN 1 ELSE 0)
      BY <1>8 DEF ZombiesAccounted
    <2>2. Cardinality(Zombies') <= lost' + (IF sigchld' THEN 1 ELSE 0)
      BY <1>1, <1>2, <1>3, <1>5, <1>7, <2>1, ZombiesFinite
    <2> QED
      BY <2>2 DEF ZombiesAccounted
  <1> QED
    BY <1>2, <1>3, <1>5, <1>6, <1>8

\* A child that terminates leaves the shell's variables alone
LEMMA ChildExitFrame ==
  ASSUME NEW p \in Pids, ChildExit(p)
  PROVE  UNCHANGED <<mainVars, tableVars, handlerVars, role, installed>>
  BY Zenon DEF ChildExit

-----------------------------------------------------------------------------
(* The initial state *)

THEOREM InitIInv == Init => IInv
  <1> SUFFICES ASSUME Init PROVE IInv
    OBVIOUS
  <1> USE MaxTasksAssumption DEF Init, Slots
  <1>1. TypeOK
    <2>1. /\ pc \in Labels /\ bg \in BOOLEAN /\ hpc \in {"idle", "scan"}
          /\ sigchld \in BOOLEAN /\ installed \in BOOLEAN /\ lost \in Nat
      BY DEF Labels
    <2>2. /\ taskPid \in [Slots -> Pids \cup {NoPid, Failed}]
          /\ taskId \in [Slots -> -1 .. MaxTasks]
      OBVIOUS
    <2>3. /\ proc \in [Pids -> {"unused", "running", "zombie", "reaped"}]
          /\ role \in [Pids -> {"none", "fg", "bg", "pipe"}]
      OBVIOUS
    <2>4. /\ cur \in Pids \cup {NoPid, Failed} /\ target \in Pids \cup {NoPid}
          /\ hpid \in Pids \cup {NoPid} /\ ki \in Nat /\ kj \in Nat /\ hi \in Nat
          /\ {reg, totalTasks, h0} \subseteq -1 .. MaxTasks
      OBVIOUS
    <2> QED
      BY <2>1, <2>2, <2>3, <2>4 DEF TypeOK
  <1>2. Room /\ KillCounter /\ InFlight /\ NewTask /\ ScanProgress
    BY DEF Room, KillCounter, InFlight, NewTask, ScanProgress, KillLoop, Recording
  <1>3. FreshPids /\ ListedTasksAreBackground /\ ForegroundFinished
    BY DEF FreshPids, ListedTasksAreBackground, ForegroundFinished
  <1>4. ZombiesAccounted
    <2> Zombies = {} /\ sigchld = FALSE /\ lost = 0
      BY DEF Zombies
    <2> QED
      BY FS_EmptySet DEF ZombiesAccounted
  <1> QED
    BY <1>1, <1>2, <1>3, <1>4 DEF IInv

-----------------------------------------------------------------------------
(* Every step preserves each part of the inductive invariant *)

LEMMA TypeStep == IInv /\ [Next]_vars => TypeOK'
  <1> SUFFICES ASSUME IInv, [Next]_vars PROVE TypeOK'
    OBVIOUS
  <1> USE MaxTasksAssumption, PidAssumption
      DEF IInv, TypeOK, Labels, Stopped, KillLoop, Recording, Slots,
          Room, KillCounter, InFlight, ScanProgress, MainAt, mainVars, tableVars,
          handlerVars, kernelVars
  <1>1. CASE Read
    BY <1>1, ReadLemma DEF ReadEffect, Stopped
  <1>2. CASE ForkFront
    BY <1>2 DEF ForkFront, ForkStage, Spawn
  <1>3. CASE ForkExit
    BY <1>3 DEF ForkExit, ForkStage, Spawn
  <1>4. CASE ForkCommand
    BY <1>4 DEF ForkCommand, Spawn
  <1>5. CASE WaitForeground \/ WaitForAny
    BY <1>5 DEF WaitForeground, WaitForAny, Zombies, Running
  <1>6. CASE RecordPid
    BY <1>6, PutType DEF RecordPid, AfterStore
  <1>7. CASE RecordId
    BY <1>7, PutType DEF RecordId, AfterStore
  <1>8. CASE IncLoad
    BY <1>8 DEF IncLoad
  <1>9. CASE IncStore
    BY <1>9 DEF IncStore
  <1>10. CASE Install
    BY <1>10 DEF Install
  <1>11. CASE KillTest
    BY <1>11 DEF KillTest
  <1>12. CASE KillCompare
    BY <1>12 DEF KillCompare
  <1>13. CASE KillSignal
    <2>1. PICK victims \in SUBSET {p \in Pids : Running(p)} : Terminate(victims)
      BY <1>13 DEF KillSignal
    <2>2. /\ proc' \in [Pids -> {"unused", "running", "zombie", "reaped"}]
          /\ sigchld' \in BOOLEAN /\ lost' \in Nat
      BY <2>1, TerminateLemma
    <2> QED
      BY <1>13, <2>2 DEF KillSignal
  <1>14. CASE KillShift
    <2>1. CASE kj < totalTasks - 1
      <3>1. kj + 1 \in Slots
        BY <1>14, <2>1
      <3>2. Put(taskPid, kj, taskPid[kj + 1]) \in [Slots -> Pids \cup {NoPid, Failed}]
        BY <3>1, taskPid[kj + 1] \in Pids \cup {NoPid, Failed}, PutType
      <3>3. Put(taskId, kj, taskId[kj + 1]) \in [Slots -> -1 .. MaxTasks]
        BY <3>1, taskId[kj + 1] \in -1 .. MaxTasks, PutType
      <3> QED
        BY <1>14, <2>1, <3>2, <3>3 DEF KillShift
    <2>2. CASE ~(kj < totalTasks - 1)
      BY <1>14, <2>2 DEF KillShift
    <2> QED
      BY <2>1, <2>2
  <1>15. CASE KillLoad
    BY <1>15 DEF KillLoad
  <1>16. CASE KillStore
    BY <1>16 DEF KillStore
  <1>17. CASE HandlerEnter
    <2>1. CASE Zombies = {} /\ UNCHANGED <<proc, handlerVars>>
      BY <1>17, <2>1 DEF HandlerEnter
    <2>2. CASE \E p \in Zombies :
                 /\ proc' = [proc EXCEPT ![p] = "reaped"]
                 /\ hpc' = "scan" /\ hi' = 0 /\ hpid' = p /\ h0' = totalTasks
      <3>1. PICK p \in Pids : /\ proc' = [proc EXCEPT ![p] = "reaped"]
                              /\ hpc' = "scan" /\ hi' = 0 /\ hpid' = p
                              /\ h0' = totalTasks
        BY <2>2 DEF Zombies
      <3> QED
        BY <1>17, <3>1 DEF HandlerEnter
    <2> QED
      BY <1>17, <2>1, <2>2 DEF HandlerEnter
  <1>18. CASE HandlerScan
    <2>1. totalTasks' \in -1 .. MaxTasks /\ hi' \in Nat
      BY <1>18 DEF HandlerScan
    <2>2. /\ ShiftDown(taskPid, hi, totalTasks) \in [Slots -> Pids \cup {NoPid, Failed}]
          /\ ShiftDown(taskId, hi, totalTasks) \in [Slots -> -1 .. MaxTasks]
      <3> totalTasks \in Int /\ totalTasks <= MaxTasks /\ hi \in Nat
        OBVIOUS
      <3>1. ShiftDown(taskPid, hi, totalTasks) \in [Slots -> Pids \cup {NoPid, Failed}]
        BY ShiftDownType
      <3>2. ShiftDown(taskId, hi, totalTasks) \in [Slots -> -1 .. MaxTasks]
        BY ShiftDownType
      <3> QED
        BY <3>1, <3>2
    <2>3. /\ taskPid' \in [Slots -> Pids \cup {NoPid, Failed}]
          /\ taskId' \in [Slots -> -1 .. MaxTasks]
      BY <1>18, <2>2 DEF HandlerScan
    <2> QED
      BY <1>18, <2>1, <2>2, <2>3 DEF HandlerScan
  <1>19. CASE HandlerReturn
    BY <1>19 DEF HandlerReturn
  <1>20. CASE \E p \in Pids : ChildExit(p)
    <2>1. PICK victims \in SUBSET {p \in Pids : Running(p)} : Terminate(victims)
      BY <1>20 DEF ChildExit
    <2>2. /\ proc' \in [Pids -> {"unused", "running", "zombie", "reaped"}]
          /\ sigchld' \in BOOLEAN /\ lost' \in Nat
      BY <2>1, TerminateLemma
    <2> QED
      BY <1>20, <2>2 DEF ChildExit
  <1>21. CASE UNCHANGED vars
    BY <1>21 DEF vars
  <1> QED
    BY <1>1, <1>2, <1>3, <1>4, <1>5, <1>6, <1>7, <1>8, <1>9, <1>10, <1>11, <1>12,
       <1>13, <1>14, <1>15, <1>16, <1>17, <1>18, <1>19, <1>20, <1>21
    DEF Next, Main, Handler

LEMMA RoomStep == IInv /\ [Next]_vars => Room'
  <1> SUFFICES ASSUME IInv, [Next]_vars PROVE Room'
    OBVIOUS
  <1> USE MaxTasksAssumption, PidAssumption
      DEF IInv, TypeOK, Room, KillLoop, InFlight, ScanProgress, Recording, MainAt,
          mainVars, tableVars,
          handlerVars, kernelVars
  <1>1. CASE Read
    BY <1>1, ReadLemma DEF ReadEffect, Stopped
  <1>2. CASE ForkFront
    BY <1>2 DEF ForkFront, ForkStage, Spawn
  <1>3. CASE ForkExit
    BY <1>3 DEF ForkExit, ForkStage, Spawn
  <1>4. CASE ForkCommand
    BY <1>4 DEF ForkCommand, Spawn
  <1>5. CASE WaitForeground \/ WaitForAny
    BY <1>5 DEF WaitForeground, WaitForAny, Zombies, Running
  <1>6. CASE RecordPid
    BY <1>6 DEF RecordPid, AfterStore
  <1>7. CASE RecordId
    BY <1>7 DEF RecordId, AfterStore
  <1>8. CASE IncLoad
    BY <1>8 DEF IncLoad
  <1>9. CASE IncStore
    BY <1>9 DEF IncStore
  <1>10. CASE Install
    BY <1>10 DEF Install
  <1>11. CASE KillTest
    BY <1>11 DEF KillTest
  <1>12. CASE KillCompare
    BY <1>12 DEF KillCompare
  <1>13. CASE KillSignal
    BY <1>13 DEF KillSignal, Terminate, Running
  <1>14. CASE KillShift
    BY <1>14 DEF KillShift
  <1>15. CASE KillLoad
    BY <1>15 DEF KillLoad
  <1>16. CASE KillStore
    BY <1>16 DEF KillStore
  <1>17. CASE HandlerEnter
    BY <1>17 DEF HandlerEnter
  <1>18. CASE HandlerScan
    BY <1>18 DEF HandlerScan
  <1>19. CASE HandlerReturn
    BY <1>19 DEF HandlerReturn
  <1>20. CASE \E p \in Pids : ChildExit(p)
    BY <1>20 DEF ChildExit, Terminate, Running
  <1>21. CASE UNCHANGED vars
    BY <1>21 DEF vars
  <1> QED
    BY <1>1, <1>2, <1>3, <1>4, <1>5, <1>6, <1>7, <1>8, <1>9, <1>10, <1>11, <1>12,
       <1>13, <1>14, <1>15, <1>16, <1>17, <1>18, <1>19, <1>20, <1>21
    DEF Next, Main, Handler

LEMMA KillCounterStep == IInv /\ [Next]_vars => KillCounter'
  <1> SUFFICES ASSUME IInv, [Next]_vars PROVE KillCounter'
    OBVIOUS
  <1> USE MaxTasksAssumption, PidAssumption
      DEF IInv, TypeOK, KillCounter, ScanProgress, MainAt, mainVars, tableVars,
          handlerVars, kernelVars
  <1>1. CASE Read
    BY <1>1, ReadLemma DEF ReadEffect, Stopped
  <1>2. CASE ForkFront
    BY <1>2 DEF ForkFront, ForkStage, Spawn
  <1>3. CASE ForkExit
    BY <1>3 DEF ForkExit, ForkStage, Spawn
  <1>4. CASE ForkCommand
    BY <1>4 DEF ForkCommand, Spawn
  <1>5. CASE WaitForeground \/ WaitForAny
    BY <1>5 DEF WaitForeground, WaitForAny, Zombies, Running
  <1>6. CASE RecordPid
    BY <1>6 DEF RecordPid, AfterStore
  <1>7. CASE RecordId
    BY <1>7 DEF RecordId, AfterStore
  <1>8. CASE IncLoad
    BY <1>8 DEF IncLoad
  <1>9. CASE IncStore
    BY <1>9 DEF IncStore
  <1>10. CASE Install
    BY <1>10 DEF Install
  <1>11. CASE KillTest
    BY <1>11 DEF KillTest
  <1>12. CASE KillCompare
    BY <1>12 DEF KillCompare
  <1>13. CASE KillSignal
    BY <1>13 DEF KillSignal, Terminate, Running
  <1>14. CASE KillShift
    BY <1>14 DEF KillShift
  <1>15. CASE KillLoad
    BY <1>15 DEF KillLoad
  <1>16. CASE KillStore
    BY <1>16 DEF KillStore
  <1>17. CASE HandlerEnter
    BY <1>17 DEF HandlerEnter
  <1>18. CASE HandlerScan
    BY <1>18 DEF HandlerScan
  <1>19. CASE HandlerReturn
    BY <1>19 DEF HandlerReturn
  <1>20. CASE \E p \in Pids : ChildExit(p)
    BY <1>20 DEF ChildExit, Terminate, Running
  <1>21. CASE UNCHANGED vars
    BY <1>21 DEF vars
  <1> QED
    BY <1>1, <1>2, <1>3, <1>4, <1>5, <1>6, <1>7, <1>8, <1>9, <1>10, <1>11, <1>12,
       <1>13, <1>14, <1>15, <1>16, <1>17, <1>18, <1>19, <1>20, <1>21
    DEF Next, Main, Handler

LEMMA ScanStep == IInv /\ [Next]_vars => ScanProgress'
  <1> SUFFICES ASSUME IInv, [Next]_vars PROVE ScanProgress'
    OBVIOUS
  <1> USE MaxTasksAssumption, PidAssumption
      DEF IInv, TypeOK, ScanProgress, MainAt, mainVars, tableVars,
          handlerVars, kernelVars
  <1>1. CASE Read
    BY <1>1, ReadLemma DEF ReadEffect, Stopped
  <1>2. CASE ForkFront
    BY <1>2 DEF ForkFront, ForkStage, Spawn
  <1>3. CASE ForkExit
    BY <1>3 DEF ForkExit, ForkStage, Spawn
  <1>4. CASE ForkCommand
    BY <1>4 DEF ForkCommand, Spawn
  <1>5. CASE WaitForeground \/ WaitForAny
    BY <1>5 DEF WaitForeground, WaitForAny, Zombies, Running
  <1>6. CASE RecordPid
    BY <1>6 DEF RecordPid, AfterStore
  <1>7. CASE RecordId
    BY <1>7 DEF RecordId, AfterStore
  <1>8. CASE IncLoad
    BY <1>8 DEF IncLoad
  <1>9. CASE IncStore
    BY <1>9 DEF IncStore
  <1>10. CASE Install
    BY <1>10 DEF Install
  <1>11. CASE KillTest
    BY <1>11 DEF KillTest
  <1>12. CASE KillCompare
    BY <1>12 DEF KillCompare
  <1>13. CASE KillSignal
    BY <1>13 DEF KillSignal, Terminate, Running
  <1>14. CASE KillShift
    BY <1>14 DEF KillShift
  <1>15. CASE KillLoad
    BY <1>15 DEF KillLoad
  <1>16. CASE KillStore
    BY <1>16 DEF KillStore
  <1>17. CASE HandlerEnter
    BY <1>17 DEF HandlerEnter
  <1>18. CASE HandlerScan
    BY <1>18 DEF HandlerScan
  <1>19. CASE HandlerReturn
    BY <1>19 DEF HandlerReturn
  <1>20. CASE \E p \in Pids : ChildExit(p)
    BY <1>20 DEF ChildExit, Terminate, Running
  <1>21. CASE UNCHANGED vars
    BY <1>21 DEF vars
  <1> QED
    BY <1>1, <1>2, <1>3, <1>4, <1>5, <1>6, <1>7, <1>8, <1>9, <1>10, <1>11, <1>12,
       <1>13, <1>14, <1>15, <1>16, <1>17, <1>18, <1>19, <1>20, <1>21
    DEF Next, Main, Handler

LEMMA FreshStep == IInv /\ [Next]_vars => FreshPids'
  <1> SUFFICES ASSUME IInv, [Next]_vars PROVE FreshPids'
    OBVIOUS
  <1> USE MaxTasksAssumption, PidAssumption
      DEF IInv, TypeOK, FreshPids, MainAt, mainVars, tableVars,
          handlerVars, kernelVars
  <1>1. CASE Read
    BY <1>1, ReadLemma DEF ReadEffect, Stopped
  <1>2. CASE ForkFront
    BY <1>2 DEF ForkFront, ForkStage, Spawn
  <1>3. CASE ForkExit
    BY <1>3 DEF ForkExit, ForkStage, Spawn
  <1>4. CASE ForkCommand
    BY <1>4 DEF ForkCommand, Spawn
  <1>5. CASE WaitForeground \/ WaitForAny
    BY <1>5 DEF WaitForeground, WaitForAny, Zombies, Running
  <1>6. CASE RecordPid
    BY <1>6 DEF RecordPid, AfterStore
  <1>7. CASE RecordId
    BY <1>7 DEF RecordId, AfterStore
  <1>8. CASE IncLoad
    BY <1>8 DEF IncLoad
  <1>9. CASE IncStore
    BY <1>9 DEF IncStore
  <1>10. CASE Install
    BY <1>10 DEF Install
  <1>11. CASE KillTest
    BY <1>11 DEF KillTest
  <1>12. CASE KillCompare
    BY <1>12 DEF KillCompare
  <1>13. CASE KillSignal
    BY <1>13 DEF KillSignal, Terminate, Running
  <1>14. CASE KillShift
    BY <1>14 DEF KillShift
  <1>15. CASE KillLoad
    BY <1>15 DEF KillLoad
  <1>16. CASE KillStore
    BY <1>16 DEF KillStore
  <1>17. CASE HandlerEnter
    BY <1>17 DEF HandlerEnter
  <1>18. CASE HandlerScan
    BY <1>18 DEF HandlerScan
  <1>19. CASE HandlerReturn
    BY <1>19 DEF HandlerReturn
  <1>20. CASE \E p \in Pids : ChildExit(p)
    BY <1>20 DEF ChildExit, Terminate, Running
  <1>21. CASE UNCHANGED vars
    BY <1>21 DEF vars
  <1> QED
    BY <1>1, <1>2, <1>3, <1>4, <1>5, <1>6, <1>7, <1>8, <1>9, <1>10, <1>11, <1>12,
       <1>13, <1>14, <1>15, <1>16, <1>17, <1>18, <1>19, <1>20, <1>21
    DEF Next, Main, Handler

LEMMA ForegroundStep == IInv /\ [Next]_vars => ForegroundFinished'
  <1> SUFFICES ASSUME IInv, [Next]_vars PROVE ForegroundFinished'
    OBVIOUS
  <1> USE MaxTasksAssumption, PidAssumption
      DEF IInv, TypeOK, ForegroundFinished, MainAt, mainVars, tableVars,
          handlerVars, kernelVars
  <1>1. CASE Read
    BY <1>1, ReadLemma DEF ReadEffect, Stopped
  <1>2. CASE ForkFront
    BY <1>2 DEF ForkFront, ForkStage, Spawn
  <1>3. CASE ForkExit
    BY <1>3 DEF ForkExit, ForkStage, Spawn
  <1>4. CASE ForkCommand
    BY <1>4 DEF ForkCommand, Spawn
  <1>5. CASE WaitForeground \/ WaitForAny
    BY <1>5 DEF WaitForeground, WaitForAny, Zombies, Running
  <1>6. CASE RecordPid
    BY <1>6 DEF RecordPid, AfterStore
  <1>7. CASE RecordId
    BY <1>7 DEF RecordId, AfterStore
  <1>8. CASE IncLoad
    BY <1>8 DEF IncLoad
  <1>9. CASE IncStore
    BY <1>9 DEF IncStore
  <1>10. CASE Install
    BY <1>10 DEF Install
  <1>11. CASE KillTest
    BY <1>11 DEF KillTest
  <1>12. CASE KillCompare
    BY <1>12 DEF KillCompare
  <1>13. CASE KillSignal
    BY <1>13 DEF KillSignal, Terminate, Running
  <1>14. CASE KillShift
    BY <1>14 DEF KillShift
  <1>15. CASE KillLoad
    BY <1>15 DEF KillLoad
  <1>16. CASE KillStore
    BY <1>16 DEF KillStore
  <1>17. CASE HandlerEnter
    BY <1>17 DEF HandlerEnter
  <1>18. CASE HandlerScan
    BY <1>18 DEF HandlerScan
  <1>19. CASE HandlerReturn
    BY <1>19 DEF HandlerReturn
  <1>20. CASE \E p \in Pids : ChildExit(p)
    BY <1>20 DEF ChildExit, Terminate, Running
  <1>21. CASE UNCHANGED vars
    BY <1>21 DEF vars
  <1> QED
    BY <1>1, <1>2, <1>3, <1>4, <1>5, <1>6, <1>7, <1>8, <1>9, <1>10, <1>11, <1>12,
       <1>13, <1>14, <1>15, <1>16, <1>17, <1>18, <1>19, <1>20, <1>21
    DEF Next, Main, Handler

\* A step of main that waits reaps one child at most; the handler reaps one, if
\* there is any, for the signal it takes
LEMMA ZombieStep == IInv /\ [Next]_vars => ZombiesAccounted'
  <1> SUFFICES ASSUME IInv, [Next]_vars PROVE ZombiesAccounted'
    OBVIOUS
  <1>t. /\ ZombiesAccounted /\ TypeOK /\ lost \in Nat /\ sigchld \in BOOLEAN
        /\ proc \in [Pids -> {"unused", "running", "zombie", "reaped"}]
    BY DEF IInv, TypeOK
  <1>1. CASE Zombies' \subseteq Zombies /\ UNCHANGED <<sigchld, lost>>
    <2>1. Cardinality(Zombies') \in Nat /\ Cardinality(Zombies') <= Cardinality(Zombies)
      BY <1>1, ZombiesFinite, FS_Subset, FS_CardinalityType
    <2> QED
      BY <1>1, <1>t, <2>1, ZombiesFinite DEF ZombiesAccounted
  <1>2. CASE Read \/ UNCHANGED vars
    <2> UNCHANGED kernelVars
      BY <1>2, <1>t, ReadLemma DEF ReadEffect, Stopped, vars
    <2> QED
      BY <1>1 DEF kernelVars, Zombies
  <1>3. CASE ForkFront \/ ForkExit \/ ForkCommand
    <2>1. UNCHANGED kernelVars \/ \E p \in Pids, r \in {"pipe", "bg", "fg"} : Spawn(p, r)
      BY <1>3 DEF ForkFront, ForkExit, ForkCommand, ForkStage
    <2>2. Zombies' \subseteq Zombies /\ UNCHANGED <<sigchld, lost>>
      BY <1>t, <2>1 DEF kernelVars, Spawn, Zombies
    <2> QED
      BY <1>1, <2>2
  <1>4. CASE WaitForeground \/ WaitForAny
    <2> Zombies' \subseteq Zombies /\ UNCHANGED <<sigchld, lost>>
      BY <1>4, <1>t DEF WaitForeground, WaitForAny, Zombies
    <2> QED
      BY <1>1
  <1>5. CASE RecordPid \/ RecordId \/ IncLoad \/ IncStore \/ Install
    <2> UNCHANGED <<proc, sigchld, lost>>
      BY <1>5 DEF RecordPid, RecordId, AfterStore, IncLoad, IncStore, Install, kernelVars
    <2> QED
      BY <1>1 DEF Zombies
  <1>6. CASE KillTest \/ KillCompare \/ KillShift \/ KillLoad \/ KillStore
    <2> UNCHANGED <<proc, sigchld, lost>>
      BY <1>6 DEF KillTest, KillCompare, KillShift, KillLoad, KillStore, kernelVars
    <2> QED
      BY <1>1 DEF Zombies
  <1>7. CASE KillSignal \/ \E p \in Pids : ChildExit(p)
    <2>1. PICK victims \in SUBSET {p \in Pids : Running(p)} : Terminate(victims)
      BY <1>7 DEF KillSignal, ChildExit
    <2> QED
      BY <1>t, <2>1, TerminateLemma
  <1>8. CASE HandlerEnter
    <2>1. sigchld /\ ~sigchld' /\ lost' = lost
      BY <1>8 DEF HandlerEnter
    <2>2. CASE Zombies = {} /\ UNCHANGED proc
      <3>1. Cardinality(Zombies') = 0
        BY <2>2, FS_EmptySet DEF Zombies
      <3> QED
        BY <1>t, <2>1, <3>1 DEF ZombiesAccounted
    <2>3. CASE \E p \in Zombies : proc' = [proc EXCEPT ![p] = "reaped"]
      <3>1. PICK p \in Zombies : proc' = [proc EXCEPT ![p] = "reaped"]
        BY <2>3
      <3>2. Zombies' = Zombies \ {p}
        BY <1>t, <3>1 DEF Zombies
      <3>3. Cardinality(Zombies') = Cardinality(Zombies) - 1
        BY <3>1, <3>2, ZombiesFinite, FS_RemoveElement
      <3> QED
        BY <1>t, <2>1, <3>3, ZombiesFinite DEF ZombiesAccounted
    <2> QED
      BY <1>8, <2>2, <2>3 DEF HandlerEnter
  <1>9. CASE HandlerScan \/ HandlerReturn
    <2> UNCHANGED <<proc, sigchld, lost>>
      BY <1>9 DEF HandlerScan, HandlerReturn, kernelVars
    <2> QED
      BY <1>1 DEF Zombies
  <1> QED
    BY <1>2, <1>3, <1>4, <1>5, <1>6, <1>7, <1>8, <1>9 DEF Next, Main, Handler

\* A step that shifts or extends the table fills its slots from filled slots,
\* and roles are given to fresh pids only: a filled prefix stays filled
LEMMA FilledStep ==
  ASSUME IInv, [Next]_vars, NEW n \in Int, Filled(n)
  PROVE  Filled(n)'
  <1> SUFFICES ASSUME NEW s \in Slots, s < n
               PROVE  Background(taskPid[s])'
    BY DEF Filled
  <1> USE MaxTasksAssumption DEF IInv, TypeOK
  <1>a. Background(taskPid[s])
    BY DEF Filled
  <1>b. \A p : Background(p) => Background(p)'
    <2>1. CASE UNCHANGED role
      BY <2>1 DEF Background
    <2>2. CASE \E p \in Pids, r \in {"fg", "bg", "pipe"} : Spawn(p, r)
      BY <2>2 DEF Spawn, FreshPids, Background
    <2>3. UNCHANGED role \/ \E p \in Pids, r \in {"fg", "bg", "pipe"} : Spawn(p, r)
      <3>1. CASE Read
        BY <3>1, ReadLemma DEF ReadEffect, Stopped, kernelVars
      <3>2. CASE Main
        BY <3>2 DEF Main, ForkFront, ForkExit, ForkStage, ForkCommand, WaitForeground, WaitForAny,
           RecordPid, RecordId, AfterStore, IncLoad, IncStore, Install, KillTest, KillCompare,
           KillSignal, KillShift, KillLoad, KillStore, kernelVars
      <3>3. CASE Handler \/ \E p \in Pids : ChildExit(p)
        BY <3>3 DEF Handler, HandlerEnter, HandlerScan, HandlerReturn, ChildExit, kernelVars
      <3>4. CASE UNCHANGED vars
        BY <3>4 DEF vars, kernelVars
      <3> QED
        BY <3>1, <3>2, <3>3, <3>4 DEF Next
    <2> QED
      BY <2>1, <2>2, <2>3
  <1>1. CASE UNCHANGED taskPid
    BY <1>1, <1>a, <1>b
  <1>2. CASE RecordPid
    BY <1>2, <1>a, <1>b DEF RecordPid, AfterStore, MainAt, NewTask, Recording, Put, kernelVars
  <1>3. CASE KillShift
    <2>1. CASE kj < totalTasks - 1 /\ s = kj
      <3>1. s + 1 \in Slots /\ s + 1 < totalTasks
        BY <2>1 DEF Slots
      <3>2. Background(taskPid[s + 1])
        BY <3>1 DEF ListedTasksAreBackground
      <3> QED
        BY <1>3, <2>1, <3>2, <1>b DEF KillShift, Put
    <2>2. CASE ~(kj < totalTasks - 1 /\ s = kj)
      BY <1>3, <2>2, <1>a, <1>b DEF KillShift, Put
    <2> QED
      BY <2>1, <2>2
  <1>4. CASE HandlerScan
    <2>1. CASE taskPid[hi] = hpid /\ hi <= s /\ s < totalTasks - 1
      <3>1. s + 1 \in Slots /\ s + 1 < totalTasks
        BY <2>1 DEF Slots
      <3>2. Background(taskPid[s + 1])
        BY <3>1 DEF ListedTasksAreBackground
      <3> QED
        BY <1>4, <2>1, <3>2, <1>b DEF HandlerScan, ShiftDown
    <2>2. CASE ~(taskPid[hi] = hpid /\ hi <= s /\ s < totalTasks - 1)
      BY <1>4, <2>2, <1>a, <1>b DEF HandlerScan, ShiftDown
    <2> QED
      BY <2>1, <2>2
  <1>5. UNCHANGED taskPid \/ RecordPid \/ KillShift \/ HandlerScan
    <2>1. CASE Read
      BY <2>1, ReadLemma DEF ReadEffect, Stopped, tableVars
    <2>2. CASE Main
      BY <2>2 DEF Main, ForkFront, ForkExit, ForkStage, ForkCommand, WaitForeground, WaitForAny,
         RecordId, AfterStore, IncLoad, IncStore, Install, KillTest, KillCompare,
         KillSignal, KillLoad, KillStore, tableVars
    <2>3. CASE Handler \/ \E p \in Pids : ChildExit(p)
      BY <2>3 DEF Handler, HandlerEnter, HandlerReturn, ChildExit, tableVars
    <2>4. CASE UNCHANGED vars
      BY <2>4 DEF vars, tableVars
    <2> QED
      BY <2>1, <2>2, <2>3, <2>4 DEF Next
  <1> QED
    BY <1>1, <1>2, <1>3, <1>4, <1>5

\* The counted slots of the old counter are filled after the step as well
LEMMA ListedAfter ==
  ASSUME IInv, [Next]_vars
  PROVE  \A s \in Slots : s < totalTasks => Background(taskPid[s])'
  <1>1. PICK n \in Int : n = totalTasks
    BY DEF IInv, TypeOK
  <1>2. Filled(n)
    BY <1>1 DEF IInv, ListedTasksAreBackground, Filled
  <1>3. Filled(n)'
    BY <1>2, FilledStep
  <1> QED
    BY <1>1, <1>3 DEF Filled

\* The slot being recorded stays a background task, also when the handler
\* moves the table under it
LEMMA NewTaskStep == IInv /\ [Next]_vars => NewTask'
  <1> SUFFICES ASSUME IInv, [Next]_vars PROVE NewTask'
    OBVIOUS
  <1>t. TypeOK /\ NewTask /\ FreshPids
    BY DEF IInv
  <1>1. (pc \in Recording => Background(cur))'
    <2> USE <1>t DEF NewTask, Recording, TypeOK, MainAt, Background
    <2>1. CASE Read
      BY <2>1, ReadLemma DEF ReadEffect, Stopped
    <2>2. CASE Main
      <3>1. CASE ForkCommand
        BY <3>1 DEF ForkCommand, Spawn
      <3>2. CASE ForkFront \/ ForkExit
        BY <3>2 DEF ForkFront, ForkExit, ForkStage
      <3>3. CASE RecordPid \/ RecordId \/ IncLoad \/ IncStore \/ Install
        BY <3>3 DEF RecordPid, RecordId, AfterStore, IncLoad, IncStore, Install, kernelVars
      <3>4. CASE \/ WaitForeground \/ WaitForAny \/ KillTest \/ KillCompare
                 \/ KillSignal \/ KillShift \/ KillLoad \/ KillStore
        BY <3>4 DEF WaitForeground, WaitForAny, KillTest, KillCompare, KillSignal, KillShift,
                    KillLoad, KillStore
      <3> QED
        BY <2>2, <3>1, <3>2, <3>3, <3>4 DEF Main
    <2>3. CASE Handler \/ \E p \in Pids : ChildExit(p)
      BY <2>3 DEF Handler, HandlerEnter, HandlerScan, HandlerReturn, ChildExit,
                  kernelVars, mainVars
    <2>4. CASE UNCHANGED vars
      BY <2>4 DEF vars, mainVars, kernelVars
    <2> QED
      BY <2>1, <2>2, <2>3, <2>4 DEF Next
  <1>2. (pc \in {"rec_id", "inc_load"} => Filled(totalTasks + 1))'
    <2> SUFFICES ASSUME pc' \in {"rec_id", "inc_load"}
                 PROVE  Filled(totalTasks + 1)'
      OBVIOUS
    <2>1. CASE RecordPid
      <3>1. \A s \in Slots : s < totalTasks =>
              Background(taskPid[s])'
        BY ListedAfter
      <3> QED
        BY <2>1, <3>1, <1>t DEF RecordPid, AfterStore, Filled, Put, MainAt, NewTask, Recording,
           kernelVars, TypeOK, Slots, Background
    <2>2. CASE ~RecordPid
      <3>1. pc \in {"rec_id", "inc_load"} /\ totalTasks' <= totalTasks /\ totalTasks' \in Int
        <4> USE <1>t, <2>2 DEF TypeOK, MainAt
        <4>1. CASE Read
          BY <4>1, ReadLemma DEF ReadEffect, Stopped
        <4>2. CASE Main
          BY <4>2 DEF Main, ForkFront, ForkExit, ForkStage, ForkCommand, WaitForeground, WaitForAny,
             RecordId, AfterStore, IncLoad, IncStore, Install, KillTest, KillCompare,
             KillSignal, KillShift, KillLoad, KillStore, tableVars
        <4>3. CASE Handler \/ \E p \in Pids : ChildExit(p)
          BY <4>3, ChildExitFrame DEF Handler, HandlerEnter, HandlerScan, HandlerReturn,
                      mainVars, tableVars
        <4>4. CASE UNCHANGED vars
          BY <4>4 DEF vars, mainVars, tableVars
        <4> QED
          BY <4>1, <4>2, <4>3, <4>4 DEF Next
      <3>2. PICK n \in Int : n = totalTasks + 1
        BY <1>t DEF TypeOK
      <3>3. Filled(n)
        BY <3>1, <3>2, <1>t DEF NewTask
      <3>4. Filled(n)'
        BY <3>3, FilledStep
      <3>t. totalTasks \in Int
        BY <1>t DEF TypeOK
      <3>5. PICK m \in Int : m = totalTasks'
        BY <3>1
      <3>6. PICK k \in Int : k = totalTasks
        BY <3>t
      <3>7. m <= k
        BY <3>1, <3>5, <3>6
      <3>8. n = k + 1
        BY <3>2, <3>6
      <3>9. \A s \in Slots : s < m + 1 => s < n
        BY <3>7, <3>8, <1>t DEF Slots, TypeOK
      <3>10. \A s \in Slots : s < totalTasks' + 1 => s < n
        BY <3>5, <3>9
      <3> QED
        BY <3>4, <3>10 DEF Filled
    <2> QED
      BY <2>1, <2>2
  <1> QED
    BY <1>1, <1>2 DEF NewTask

\* A loaded counter stays a legal counter while the handler runs before the store
LEMMA InFlightStep == IInv /\ [Next]_vars => InFlight'
  <1> SUFFICES ASSUME IInv, [Next]_vars PROVE InFlight'
    OBVIOUS
  <1>t. TypeOK /\ InFlight /\ KillCounter /\ Room /\ NewTask
    BY DEF IInv
  <1>1. CASE IncLoad
    <2>1. PICK n \in Int : n = totalTasks + 1
      BY <1>t DEF TypeOK
    <2>2. Filled(n)
      BY <1>1, <1>t, <2>1 DEF IncLoad, MainAt, NewTask
    <2>3. Filled(n)'
      BY <2>2, FilledStep
    <2> QED
      BY <1>1, <1>t, <2>1, <2>3 DEF IncLoad, MainAt, InFlight, Filled, Room
  <1>2. CASE KillLoad
    BY <1>2, <1>t, ListedAfter DEF KillLoad, MainAt, InFlight, Filled, KillCounter
  <1>3. CASE ~IncLoad /\ ~KillLoad
    <2>1. (pc' \in {"k_store", "inc_store"} => pc = pc' /\ reg = reg') /\ reg \in Int
      <3> USE <1>t, <1>3 DEF TypeOK, MainAt
      <3>1. CASE Read
        BY <3>1, ReadLemma DEF ReadEffect, Stopped
      <3>2. CASE Main
        BY <3>2 DEF Main, ForkFront, ForkExit, ForkStage, ForkCommand, WaitForeground, WaitForAny,
           RecordPid, RecordId, AfterStore, IncStore, Install, KillTest, KillCompare,
           KillSignal, KillShift, KillStore
      <3>3. CASE Handler \/ \E p \in Pids : ChildExit(p)
        BY <3>3, ChildExitFrame DEF Handler, HandlerEnter, HandlerScan, HandlerReturn, mainVars
      <3>4. CASE UNCHANGED vars
        BY <3>4 DEF vars, mainVars
      <3> QED
        BY <3>1, <3>2, <3>3, <3>4 DEF Next
    <2>2. CASE pc' = "k_store"
      <3>1. PICK n \in Int : n = reg
        BY <2>1
      <3>2. Filled(n)'
        BY <2>1, <2>2, <3>1, <1>t, FilledStep DEF InFlight
      <3> QED
        BY <2>1, <2>2, <3>1, <3>2, <1>t DEF InFlight, Filled
    <2>3. CASE pc' = "inc_store"
      <3>1. PICK n \in Int : n = reg + 1
        BY <2>1
      <3>2. Filled(n)'
        BY <2>1, <2>3, <3>1, <1>t, FilledStep DEF InFlight
      <3> QED
        BY <2>1, <2>3, <3>1, <3>2, <1>t DEF InFlight, Filled
    <2>4. CASE pc' \notin {"k_store", "inc_store"}
      BY <2>4 DEF InFlight
    <2> QED
      BY <2>2, <2>3, <2>4
  <1> QED
    BY <1>1, <1>2, <1>3

\* The counter only grows over filled slots
LEMMA ListedStep == IInv /\ [Next]_vars => ListedTasksAreBackground'
  <1> SUFFICES ASSUME IInv, [Next]_vars PROVE ListedTasksAreBackground'
    OBVIOUS
  <1>t. TypeOK /\ InFlight
    BY DEF IInv
  <1>1. CASE IncStore
    <2>1. PICK n \in Int : n = reg + 1
      BY <1>t DEF TypeOK
    <2>2. Filled(n)'
      BY <1>1, <2>1, <1>t, FilledStep DEF InFlight, IncStore, MainAt
    <2> QED
      BY <1>1, <2>1, <2>2 DEF IncStore, Filled, ListedTasksAreBackground
  <1>2. CASE KillStore
    <2>1. PICK n \in Int : n = reg
      BY <1>t DEF TypeOK
    <2>2. Filled(n)'
      BY <1>2, <2>1, <1>t, FilledStep DEF InFlight, KillStore, MainAt
    <2> QED
      BY <1>2, <2>1, <2>2 DEF KillStore, Filled, ListedTasksAreBackground, Slots
  <1>3. CASE ~IncStore /\ ~KillStore
    <2>1. totalTasks' <= totalTasks /\ totalTasks \in Int /\ totalTasks' \in Int
      <3> USE <1>t, <1>3 DEF TypeOK
      <3>1. CASE Read
        BY <3>1, ReadLemma DEF ReadEffect, Stopped, tableVars
      <3>2. CASE Main
        BY <3>2 DEF Main, ForkFront, ForkExit, ForkStage, ForkCommand, WaitForeground, WaitForAny,
           RecordPid, RecordId, AfterStore, IncLoad, Install, KillTest, KillCompare,
           KillSignal, KillShift, KillLoad, tableVars
      <3>3. CASE Handler \/ \E p \in Pids : ChildExit(p)
        BY <3>3, ChildExitFrame DEF Handler, HandlerEnter, HandlerScan, HandlerReturn, tableVars
      <3>4. CASE UNCHANGED vars
        BY <3>4 DEF vars, tableVars
      <3> QED
        BY <3>1, <3>2, <3>3, <3>4 DEF Next
    <2> QED
      BY <2>1, ListedAfter DEF ListedTasksAreBackground, Slots
  <1> QED
    BY <1>1, <1>2, <1>3

-----------------------------------------------------------------------------
(* The theorems *)

LEMMA NextIInv == IInv /\ [Next]_vars => IInv'
  BY TypeStep, RoomStep, KillCounterStep, InFlightStep, NewTaskStep, ScanStep,
     FreshStep, ListedStep, ForegroundStep, ZombieStep
  DEF IInv

THEOREM Inductive == Spec => []IInv
  BY InitIInv, NextIInv, PTL DEF Spec

\* The table and its counter have their types: totalTasks never exceeds the
\* table and never falls below -1, whatever the interleaving (n.c:24-36, 135, 191).
THEOREM TypeCorrect == Spec => []TypeOK
  <1>1. IInv => TypeOK
    BY DEF IInv
  <1> QED
    BY <1>1, Inductive, PTL

\* The counted slots hold background pids only (n.c:24-36, 181-192, 244-246).
THEOREM ListedAreBackground == Spec => []ListedTasksAreBackground
  <1>1. IInv => ListedTasksAreBackground
    BY DEF IInv
  <1> QED
    BY <1>1, Inductive, PTL

\* The prompt comes back only after the foreground child was reaped (n.c:249-252).
THEOREM ForegroundIsFinished == Spec => []ForegroundFinished
  <1>1. IInv => ForegroundFinished
    BY DEF IInv
  <1> QED
    BY <1>1, Inductive, PTL

\* However terminations, waits and the handler interleave, the children left
\* unreaped are no more than the signals that were merged or ignored, and the
\* one that may be pending (n.c:21, 191, 251).
THEOREM ZombiesAreAccounted == Spec => []ZombiesAccounted
  <1>1. IInv => ZombiesAccounted
    BY DEF IInv
  <1> QED
    BY <1>1, Inductive, PTL

\* A run of the handler halves the counter, whichever child it reaped (n.c:24-36).
THEOREM HandlerHalvesCounter == Spec => HandlerHalves
  <1>1. IInv /\ HandlerReturn => totalTasks = IF h0 < 0 THEN h0 ELSE h0 \div 2
    BY DEF IInv, TypeOK, ScanProgress, HandlerReturn
  <1>2. IInv /\ [Next]_vars =>
          [HandlerReturn => totalTasks = IF h0 < 0 THEN h0 ELSE h0 \div 2]_vars
    BY <1>1
  <1> QED
    BY <1>2, Inductive, PTL DEF Spec, HandlerHalves

-----------------------------------------------------------------------------
(* The command history *)

\* A full array after a line is recorded
LEMMA RecordFull ==
  ASSUME ListTypeOK, ~HasRoom, NEW c, Record(c)
  PROVE  /\ commandsList_total = Size /\ commandsList_total' = Size
         /\ commandsList' = [s \in Entries |-> IF s < Size - 1 THEN commandsList[s + 1] ELSE c]
  <1> USE SizeAssumption DEF ListTypeOK, Entries, HasRoom
  <1>1. commandsList_total = Size
    OBVIOUS
  <1>2. Shift(commandsList) =
          [s \in Entries |-> IF s < Size - 1 THEN commandsList[s + 1] ELSE commandsList[s]]
    BY DEF Shift
  <1>3. commandsList' = [Shift(commandsList) EXCEPT ![Size - 1] = c]
    BY <1>1 DEF Record
  <1>4. \A s \in Entries :
          commandsList'[s] = IF s = Size - 1 THEN c ELSE Shift(commandsList)[s]
    BY <1>2, <1>3
  <1>5. \A s \in Entries :
          commandsList'[s] = IF s < Size - 1 THEN commandsList[s + 1] ELSE c
    BY <1>2, <1>4
  <1>6. commandsList' = [s \in Entries |-> commandsList'[s]]
    BY <1>2, <1>3
  <1> QED
    BY <1>1, <1>5, <1>6 DEF Record

LEMMA ListTypeInit == ListInit => ListTypeOK
  BY SizeAssumption DEF ListInit, ListTypeOK, Entries

LEMMA ListTypeNext == ListTypeOK /\ [ListNext]_listVars => ListTypeOK'
  <1> SUFFICES ASSUME ListTypeOK, [ListNext]_listVars PROVE ListTypeOK'
    OBVIOUS
  <1> USE SizeAssumption, UnsetAssumption DEF ListTypeOK, Entries
  <1>1. ASSUME NEW c \in Commands, Record(c) PROVE ListTypeOK'
    <2>1. CASE HasRoom
      BY <1>1, <2>1 DEF Record, HasRoom
    <2>2. CASE ~HasRoom
      BY <1>1, <2>2, RecordFull
    <2> QED
      BY <2>1, <2>2
  <1>2. CASE UNCHANGED listVars
    BY <1>2 DEF listVars
  <1> QED
    BY <1>1, <1>2 DEF ListNext

\* The array and its length have their types (n.c:137-150).
THEOREM ListTypeCorrect == ListSpec => []ListTypeOK
  BY ListTypeInit, ListTypeNext, PTL DEF ListSpec

LEMMA PrintedLength ==
  ASSUME ListTypeOK
  PROVE  Printed \in Seq(Commands) /\ Len(Printed) = commandsList_total
  <1>1. \A k \in 1 .. commandsList_total : commandsList[k - 1] \in Commands
    BY SizeAssumption DEF ListTypeOK, Entries
  <1>2. Printed \in [1 .. commandsList_total -> Commands] /\ commandsList_total \in Nat
    BY <1>1, SizeAssumption DEF Printed, ListTypeOK
  <1> QED
    BY <1>2 DEF Printed

LEMMA ListInitMaps == ListInit => Recent!Init
  BY DEF ListInit, Recent!Init, Printed

\* Recording a line is the abstract Keep, in both regimes
LEMMA RecordMaps ==
  ASSUME ListTypeOK, NEW c \in Commands, Record(c)
  PROVE  Recent!Keep(c)
  <1> USE SizeAssumption DEF ListTypeOK, Entries
  <1>1. Printed \in Seq(Commands) /\ Len(Printed) = commandsList_total
    BY PrintedLength
  <1>2. CASE HasRoom
    <2>1. Printed' = [k \in 1 .. commandsList_total + 1 |->
                        IF k <= commandsList_total THEN commandsList[k - 1] ELSE c]
      BY <1>2 DEF Record, HasRoom, Printed
    <2>2. Append(Printed, c) = [k \in 1 .. commandsList_total + 1 |->
                        IF k <= commandsList_total THEN commandsList[k - 1] ELSE c]
      BY <1>1 DEF Printed
    <2> QED
      BY <1>1, <1>2, <2>1, <2>2 DEF Recent!Keep, HasRoom
  <1>3. CASE ~HasRoom
    <2>0. commandsList_total = Size
      BY <1>3 DEF HasRoom
    <2>1. Printed' = [k \in 1 .. Size |-> IF k < Size THEN commandsList[k] ELSE c]
      BY <1>3, RecordFull DEF Printed
    <2>2. Append(Tail(Printed), c) =
            [k \in 1 .. Size |-> IF k < Size THEN commandsList[k] ELSE c]
      <3>1. PICK t : t = [k \in 1 .. Size - 1 |-> commandsList[k]]
        OBVIOUS
      <3>2. Tail(Printed) = t
        BY <1>1, <2>0, <3>1 DEF Printed
      <3>3. t \in Seq(Commands)
        BY <1>1, <3>2
      <3>4. Append(t, c) = [k \in 1 .. Size |-> IF k < Size THEN t[k] ELSE c]
        BY <3>1, <3>3
      <3>5. \A k \in 1 .. Size : k < Size => t[k] = commandsList[k]
        BY <3>1
      <3>6. Append(t, c) = [k \in 1 .. Size |-> IF k < Size THEN commandsList[k] ELSE c]
        BY <3>4, <3>5
      <3> QED
        BY <3>2, <3>6
    <2> QED
      BY <1>1, <2>0, <2>1, <2>2 DEF Recent!Keep
  <1> QED
    BY <1>2, <1>3

\* The array of n.c implements the abstract history of the last Size commands.
THEOREM ImplementsRecentCommands == ListSpec => KeepsRecentCommands
  <1>1. ListTypeOK /\ [ListNext]_listVars => [Recent!Next]_Printed
    <2> SUFFICES ASSUME ListTypeOK, [ListNext]_listVars PROVE [Recent!Next]_Printed
      OBVIOUS
    <2>1. ASSUME NEW c \in Commands, Record(c) PROVE Recent!Next
      BY <2>1, RecordMaps DEF Recent!Next
    <2>2. CASE UNCHANGED listVars
      BY <2>2 DEF listVars, Printed
    <2> QED
      BY <2>1, <2>2 DEF ListNext
  <1> QED
    BY <1>1, ListInitMaps, ListTypeCorrect, PTL DEF ListSpec, KeepsRecentCommands, Recent!Spec
=============================================================================
