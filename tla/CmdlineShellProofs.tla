------------------------- MODULE CmdlineShellProofs ------------------------
(***************************************************************************)
(* Theorems about CmdlineShell, for every set of command lines and every   *)
(* size of the history.                                                    *)
(*                                                                         *)
(* The history lists a window of the log because the queue has two         *)
(* phases, told apart by the number of lines: it fills from slot 0         *)
(* (Filling), and after the line that fills it, it never changes again     *)
(* (Full).  The number of unreaped children follows the program counter.   *)
(***************************************************************************)
EXTENDS CmdlineShell, SequenceTheorems, TLAPS

\* The first n slots hold the first n lines
Holds(n) == \A k \in 0 .. n - 1 : queue.history[k] = log[k + 1]

Filling ==
  Len(log) < SIZE =>
    /\ queue.Rear = Len(log) - 1
    /\ queue.Front = IF Len(log) = 0 THEN -1 ELSE 0
    /\ Holds(Len(log))

Full ==
  Len(log) >= SIZE => queue.Rear = SIZE - 1 /\ queue.Front = 1 /\ Holds(SIZE)

\* Also between the count of a line and the fork of its child
Unreaped ==
  /\ OneReapedPerWait
  /\ pc = "fork" => Len(children) = IF line.bg THEN bgLines - 1 ELSE bgLines

IInv == TypeOK /\ hist = Len(log) /\ Filling /\ Full /\ Unreaped

-----------------------------------------------------------------------------
(* Lemmas about the operators *)

QueueType == [history : [0 .. SIZE - 1 -> Commands \cup {Unset}],
              Front : -1 .. SIZE - 1, Rear : -1 .. SIZE - 1]

\* RemoveAt removes one element, and brings none in
LEMMA RemoveAtType ==
  ASSUME NEW S, NEW s \in Seq(S), NEW i \in 1 .. Len(s)
  PROVE  RemoveAt(s, i) \in Seq(S) /\ Len(RemoveAt(s, i)) = Len(s) - 1
  <1>1. /\ SubSeq(s, 1, i - 1) \in Seq(S) /\ Len(SubSeq(s, 1, i - 1)) = i - 1
        /\ SubSeq(s, i + 1, Len(s)) \in Seq(S) /\ Len(SubSeq(s, i + 1, Len(s))) = Len(s) - i
    OBVIOUS
  <1>2. /\ SubSeq(s, 1, i - 1) \o SubSeq(s, i + 1, Len(s)) \in Seq(S)
        /\ Len(SubSeq(s, 1, i - 1) \o SubSeq(s, i + 1, Len(s)))
             = Len(SubSeq(s, 1, i - 1)) + Len(SubSeq(s, i + 1, Len(s)))
    BY <1>1, ConcatProperties, Zenon
  <1>3. (i - 1) + (Len(s) - i) = Len(s) - 1
    OBVIOUS
  <1>4. RemoveAt(s, i) = SubSeq(s, 1, i - 1) \o SubSeq(s, i + 1, Len(s))
    BY DEF RemoveAt
  <1> QED
    BY <1>1, <1>2, <1>3, <1>4

\* Below its limit the queue takes the item in the slot after Rear
LEMMA EnqueueLemma ==
  ASSUME NEW q \in QueueType, NEW item \in Commands, q.Rear < SIZE - 1
  PROVE  /\ enqueue(q, item) \in QueueType
         /\ enqueue(q, item).Rear = q.Rear + 1
         /\ enqueue(q, item).Front = IF q.Front = -1 THEN 0 ELSE q.Front
         /\ enqueue(q, item).history = [q.history EXCEPT ![q.Rear + 1] = item]
  BY SizeAssumption DEF enqueue, Overflows, QueueType

\* At its limit it changes nothing
LEMMA OverflowLemma ==
  ASSUME NEW q \in QueueType, NEW item, q.Rear = SIZE - 1
  PROVE  enqueue(q, item) = q
  BY DEF enqueue, Overflows

-----------------------------------------------------------------------------
(* Each part of the invariant *)

LEMMA InitIInv == Init => IInv
  <1> SUFFICES ASSUME Init PROVE IInv
    OBVIOUS
  <1>1. TypeOK
    BY SizeAssumption DEF Init, TypeOK, EmptyQueue
  <1>2. Len(log) = 0 /\ Len(children) = 0 /\ hist = 0 /\ bgLines = 0 /\ pc = "prompt"
    BY DEF Init
  <1>3. queue.Rear = -1 /\ queue.Front = -1
    BY DEF Init, EmptyQueue
  <1> QED
    BY <1>1, <1>2, <1>3, SizeAssumption
    DEF IInv, Filling, Full, Holds, Unreaped, OneReapedPerWait

\* A new line fills the next slot, drops the first entry when it is the
\* SIZE-th, and changes nothing after that
LEMMA ReadLineStep ==
  ASSUME IInv, NEW l \in LineType, ReadLine(l)
  PROVE  queue' \in QueueType /\ hist' = Len(log') /\ Filling' /\ Full'
  <1>1. /\ queue \in QueueType /\ log \in Seq(Commands) /\ l.text \in Commands
        /\ hist = Len(log) /\ Filling /\ Full
    BY DEF IInv, TypeOK, QueueType, LineType
  <1>2. /\ log' = Append(log, l.text) /\ hist' = hist + 1
        /\ queue' = Remember(queue, hist, l.text)
    BY DEF ReadLine
  <1>3. /\ Len(log') = Len(log) + 1 /\ Len(log) \in Nat
        /\ log'[Len(log) + 1] = l.text
        /\ \A k \in 1 .. Len(log) : log'[k] = log[k]
    BY <1>1, <1>2
  <1>4. CASE Len(log) + 1 < SIZE
    <2>1. queue' = enqueue(queue, l.text) /\ queue.Rear = Len(log) - 1
      BY <1>1, <1>2, <1>3, <1>4, SizeAssumption DEF Remember, Filling
    <2>2. /\ queue' \in QueueType
          /\ queue'.Rear = Len(log') - 1 /\ queue'.Front = 0
          /\ queue'.history = [queue.history EXCEPT ![Len(log)] = l.text]
      BY <1>1, <1>3, <1>4, <2>1, EnqueueLemma, SizeAssumption DEF Filling
    <2>3. Holds(Len(log))
      BY <1>1, <1>3, <1>4, SizeAssumption DEF Filling
    <2>4. Holds(Len(log))'
      <3> SUFFICES ASSUME NEW k \in 0 .. Len(log') - 1
                   PROVE  queue'.history[k] = log'[k + 1]
        BY DEF Holds
      <3>1. queue.history \in [0 .. SIZE - 1 -> Commands \cup {Unset}]
        BY <1>1 DEF QueueType
      <3>2. k \in 0 .. SIZE - 1 /\ Len(log) \in 0 .. SIZE - 1
        BY <1>3, <1>4, SizeAssumption
      <3>3. CASE k = Len(log)
        BY <1>3, <2>2, <3>1, <3>2, <3>3
      <3>4. CASE k # Len(log)
        <4>1. k \in 0 .. Len(log) - 1 /\ k + 1 \in 1 .. Len(log)
          BY <1>3, <3>4
        <4>2. queue'.history[k] = queue.history[k]
          BY <2>2, <3>1, <3>2, <3>4
        <4> QED
          BY <1>3, <2>3, <4>1, <4>2 DEF Holds
      <3> QED
        BY <3>3, <3>4
    <2> QED
      BY <1>1, <1>2, <1>3, <1>4, <2>2, <2>4, SizeAssumption DEF Filling, Full
  <1>5. CASE Len(log) + 1 = SIZE
    <2> DEFINE q == enqueue(queue, l.text)
    <2>1. queue.Rear = Len(log) - 1 /\ queue.Rear < SIZE - 1 /\ queue.Front \in {-1, 0}
      BY <1>1, <1>3, <1>5, SizeAssumption DEF Filling
    <2>2. /\ q \in QueueType /\ q.Rear = SIZE - 1 /\ q.Front = 0
          /\ q.history = [queue.history EXCEPT ![SIZE - 1] = l.text]
      BY <1>1, <1>3, <1>5, <2>1, EnqueueLemma, SizeAssumption
    <2>3. /\ dequeue(q) \in QueueType /\ dequeue(q).Rear = SIZE - 1
          /\ dequeue(q).Front = 1 /\ dequeue(q).history = q.history
      BY <2>2, SizeAssumption DEF dequeue, QueueType
    <2>4. queue' = dequeue(q)
      BY <1>1, <1>2, <1>5, <2>3, OverflowLemma DEF Remember
    <2>5. Holds(SIZE)'
      BY <1>1, <1>3, <1>5, <2>2, <2>3, <2>4, SizeAssumption DEF Holds, QueueType, Filling
    <2> QED
      BY <1>1, <1>2, <1>3, <1>5, <2>3, <2>4, <2>5, SizeAssumption DEF Filling, Full
  <1>6. CASE Len(log) + 1 > SIZE
    <2>1. queue.Rear = SIZE - 1 /\ queue.Front = 1 /\ Holds(SIZE)
      BY <1>1, <1>3, <1>6, SizeAssumption DEF Full
    <2>2. queue' = queue
      BY <1>1, <1>2, <1>3, <1>6, <2>1, OverflowLemma, SizeAssumption DEF Remember
    <2>3. Holds(SIZE)'
      BY <1>3, <1>6, <2>1, <2>2, SizeAssumption DEF Holds
    <2> QED
      BY <1>1, <1>2, <1>3, <1>6, <2>1, <2>2, <2>3, SizeAssumption DEF Filling, Full
  <1> QED
    BY <1>3, <1>4, <1>5, <1>6, SizeAssumption

LEMMA TypeStep == IInv /\ [Next]_vars => TypeOK'
  <1> SUFFICES ASSUME IInv, [Next]_vars PROVE TypeOK'
    OBVIOUS
  <1>t. TypeOK
    BY DEF IInv
  <1> USE <1>t DEF TypeOK
  <1>1. ASSUME NEW l \in LineType, ReadLine(l) PROVE TypeOK'
    <2>1. queue' \in QueueType
      BY <1>1, ReadLineStep
    <2>2. Append(log, l.text) \in Seq(Commands)
      BY DEF LineType
    <2> QED
      BY <1>1, <2>1, <2>2 DEF ReadLine, QueueType
  <1>2. CASE ReadExit \/ ReadBad \/ ForkFails
    BY <1>2 DEF ReadExit, ReadBad, ForkFails
  <1>3. CASE ForkChild
    <2>1. [line |-> line, state |-> "code"] \in ChildType
      BY DEF ChildType
    <2>2. Append(children, [line |-> line, state |-> "code"]) \in Seq(ChildType)
      BY <2>1
    <2> QED
      BY <1>3, <2>2 DEF ForkChild
  <1>4. CASE WaitAny
    <2>1. children' \in Seq(ChildType)
      BY <1>4, RemoveAtType DEF WaitAny
    <2> QED
      BY <1>4, <2>1 DEF WaitAny
  <1>5. ASSUME NEW i \in 1 .. Len(children), ChildCode(i) \/ ChildEnds(i) PROVE TypeOK'
    <2>1. PICK s \in {"runs", "zombie"} : Enters(i, s)
      BY <1>5 DEF ChildCode, ChildEnds, CrashBeforeExec, ExecCommand, StartPipeline
    <2>2. [children[i] EXCEPT !.state = s] \in ChildType
      <3>1. children[i] \in ChildType
        BY <1>t
      <3> QED
        BY <2>1, <3>1 DEF ChildType
    <2>3. [children EXCEPT ![i].state = s] \in Seq(ChildType)
      BY <2>2
    <2> QED
      BY <2>1, <2>3 DEF Enters
  <1>6. CASE UNCHANGED vars
    BY <1>6 DEF vars
  <1> QED
    BY <1>1, <1>2, <1>3, <1>4, <1>5, <1>6 DEF Next, Shell

LEMMA HistoryStep == IInv /\ [Next]_vars => (hist = Len(log) /\ Filling /\ Full)'
  <1> SUFFICES ASSUME IInv, [Next]_vars PROVE (hist = Len(log) /\ Filling /\ Full)'
    OBVIOUS
  <1>1. ASSUME NEW l \in LineType, ReadLine(l) PROVE (hist = Len(log) /\ Filling /\ Full)'
    BY <1>1, ReadLineStep
  <1>2. CASE UNCHANGED <<queue, hist, log>>
    BY <1>2 DEF IInv, Filling, Full, Holds
  <1> QED
    BY <1>1, <1>2 DEF Next, Shell, ReadExit, ReadBad, ForkChild, ForkFails, WaitAny, ChildCode,
       ChildEnds, CrashBeforeExec, ExecCommand, StartPipeline, Enters, vars

LEMMA UnreapedStep == IInv /\ [Next]_vars => Unreaped'
  <1> SUFFICES ASSUME IInv, [Next]_vars PROVE Unreaped'
    OBVIOUS
  <1>t. TypeOK /\ Unreaped /\ Len(children) \in Nat /\ bgLines \in Nat
    BY DEF IInv, TypeOK
  <1> USE <1>t DEF Unreaped, OneReapedPerWait
  <1>1. ASSUME NEW l \in LineType, ReadLine(l) PROVE Unreaped'
    BY <1>1 DEF ReadLine, LineType
  <1>2. CASE ReadExit \/ ReadBad \/ ForkFails
    BY <1>2 DEF ReadExit, ReadBad, ForkFails
  <1>3. CASE ForkChild
    <2>1. Len(children') = Len(children) + 1
      BY <1>3 DEF ForkChild, TypeOK
    <2> QED
      BY <1>3, <2>1 DEF ForkChild, TypeOK, LineType
  <1>4. CASE WaitAny
    <2>1. Len(children') = Len(children) - 1
      BY <1>4, RemoveAtType DEF WaitAny, TypeOK
    <2> QED
      BY <1>4, <2>1 DEF WaitAny
  <1>5. ASSUME NEW i \in 1 .. Len(children), ChildCode(i) \/ ChildEnds(i) PROVE Unreaped'
    <2>1. PICK s \in {"runs", "zombie"} : Enters(i, s)
      BY <1>5 DEF ChildCode, ChildEnds, CrashBeforeExec, ExecCommand, StartPipeline
    <2>2. Len(children') = Len(children)
      BY <2>1 DEF Enters, TypeOK
    <2> QED
      BY <2>1, <2>2 DEF Enters
  <1>6. CASE UNCHANGED vars
    BY <1>6 DEF vars
  <1> QED
    BY <1>1, <1>2, <1>3, <1>4, <1>5, <1>6 DEF Next, Shell

-----------------------------------------------------------------------------
(* Theorems *)

THEOREM Inductive == Spec => []IInv
  <1>1. IInv /\ [Next]_vars => IInv'
    BY TypeStep, HistoryStep, UnreapedStep DEF IInv
  <1> QED
    BY <1>1, InitIInv, PTL DEF Spec

\* Types of all variables; Rear and Front never leave the array (cmdline.c:28-60).
THEOREM TypeCorrect == Spec => []TypeOK
  <1>1. IInv => TypeOK
    BY DEF IInv
  <1> QED
    BY <1>1, Inductive, PTL

\* At a prompt as many children are unreaped as lines ended in & (cmdline.c:254-263).
THEOREM ReapsOnePerWait == Spec => []OneReapedPerWait
  <1>1. IInv => OneReapedPerWait
    BY DEF IInv, Unreaped
  <1> QED
    BY <1>1, Inductive, PTL

\* The history is all lines while there are fewer than SIZE, and the lines 2 to
\* SIZE for ever after (cmdline.c:32-77, 171-176).
THEOREM HistoryIsWindow == Spec => []HistoryWindow
  <1>1. IInv => HistoryWindow
    <2> SUFFICES ASSUME IInv PROVE HistoryWindow
      OBVIOUS
    <2>t. log \in Seq(Commands) /\ Len(log) \in Nat
      BY DEF IInv, TypeOK
    <2>1. CASE Len(log) = 0
      <3>1. show(queue) = <<>> /\ log = <<>>
        BY <2>t, <2>1, SizeAssumption DEF IInv, Filling, show
      <3> QED
        BY <2>1, <3>1, SizeAssumption DEF HistoryWindow
    <2>2. CASE Len(log) # 0 /\ Len(log) < SIZE
      <3>1. show(queue) = [k \in 1 .. Len(log) |-> queue.history[k - 1]]
        BY <2>t, <2>2 DEF IInv, Filling, show
      <3>2. \A k \in 1 .. Len(log) : queue.history[k - 1] = log[k]
        BY <2>t, <2>2 DEF IInv, Filling, Holds
      <3>3. log = [k \in 1 .. Len(log) |-> log[k]]
        BY <2>t
      <3> QED
        BY <2>2, <3>1, <3>2, <3>3 DEF HistoryWindow
    <2>3. CASE Len(log) >= SIZE
      <3>1. show(queue) = [k \in 1 .. SIZE - 1 |-> queue.history[k]]
        BY <2>t, <2>3, SizeAssumption DEF IInv, Full, show
      <3>2. \A k \in 1 .. SIZE - 1 : queue.history[k] = log[k + 1]
        BY <2>t, <2>3, SizeAssumption DEF IInv, Full, Holds
      <3>3. SubSeq(log, 2, SIZE) = [k \in 1 .. SIZE - 1 |-> log[k + 1]]
        BY <2>t, <2>3, SizeAssumption
      <3> QED
        BY <2>t, <2>3, <3>1, <3>2, <3>3, SizeAssumption DEF HistoryWindow
    <2> QED
      BY <2>t, <2>1, <2>2, <2>3, SizeAssumption
  <1> QED
    BY <1>1, Inductive, PTL
=============================================================================
