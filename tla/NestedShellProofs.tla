-------------------------- MODULE NestedShellProofs -------------------------
(***************************************************************************)
(* Theorems about NestedShell, for every number of processes, length of    *)
(* the history and set of lines.                                           *)
(*                                                                         *)
(* remainingJobs is one more than it should be between the two forks of a  *)
(* line in the background (Counted).  That one shell reads at most needs   *)
(* that the processes which are alive form a chain in which each waits for *)
(* the next, and only the last one (Tip) can take a step (Chain).          *)
(***************************************************************************)
EXTENDS NestedShell, TLAPS

Tip(p) ==
  Alive(p) /\ ~(proc[p].state = "wait" /\ proc[p].waits # NoProc /\ Alive(proc[p].waits))

NoneBelow == \A p \in Procs : proc[p].state # "unused" => ~proc[p].below

Links ==
  /\ proc[Root].parent = NoProc
  /\ \A p \in Procs : Alive(p) /\ p # Root =>
       /\ proc[p].parent \in Procs /\ proc[proc[p].parent].state = "wait"
       /\ proc[proc[p].parent].waits = p
  /\ \A p \in Procs : proc[p].state = "wait" /\ proc[p].waits # NoProc =>
       proc[proc[p].waits].parent = p /\ proc[proc[p].waits].state \notin {"unused", "reaped"}
  /\ \A p, q \in Procs : Tip(p) /\ Tip(q) => p = q
  /\ \A p \in signalled : Tip(p)

Chain == NoneBelow => Links

\* Who is waited for, and where
Waits ==
  \A p \in Procs :
    /\ proc[p].state \in {"prompt", "fork", "child", "copy", "run"} => proc[p].waits = NoProc
    /\ proc[p].state = "copied" /\ proc[p].waits # NoProc =>
         proc[proc[p].waits].below /\ proc[proc[p].waits].state # "unused"
    /\ proc[p].state = "copy" => proc[p].below
    /\ p = Root => proc[p].state # "unused"

Counted ==
  \A p \in Procs :
    /\ proc[p].state \in Loop \cup {"child", "copy", "run"} =>
         (proc[p].remainingJobs > 0 <=> proc[p].below)
    /\ proc[p].state = "copied" =>
         proc[p].remainingJobs > 0 /\ (proc[p].remainingJobs > 1 <=> proc[p].below)

\* The child that an armed shell waits for has not ended
Awaited ==
  \A p \in Procs : proc[p].state = "wait" /\ proc[p].waits # NoProc =>
    /\ proc[proc[p].waits].parent = p /\ proc[proc[p].waits].state # "unused"
    /\ proc[p].armed /\ p \notin signalled => proc[proc[p].waits].state # "zombie"

IInv == TypeOK /\ Waits /\ Counted /\ Awaited /\ Chain

-----------------------------------------------------------------------------
(* Types *)

LEMMA SlotsLemma ==
  0 \in Slots /\ \A i \in Slots : After(i) \in Slots
  BY HistoryAssumption DEF Slots, After

LEMMA NoProcLemma == NoProc \notin Procs /\ Root \in Procs
  BY ProcsAssumption DEF NoProc, Procs, Root

LEMMA FreshType == Fresh \in Process
  BY SlotsLemma DEF Fresh, Process, NoLine, Line, Commands, States, Loop, ChildCode, Procs, NoProc

LEMMA WithoutLemma ==
  ASSUME TypeOK, NEW p \in Procs, NEW s \in States
  PROVE  /\ Without(p, s) \in Process
         /\ Without(p, s).state = s /\ Without(p, s).parent = proc[p].parent
         /\ Without(p, s).below = proc[p].below /\ Without(p, s).waits = NoProc
         /\ Without(p, s).remainingJobs = 0 /\ Without(p, s).armed = FALSE
  BY FreshType DEF Without, Fresh, Process, TypeOK

LEMMA InLemma ==
  ASSUME TypeOK, NEW p \in Procs, NEW s \in States
  PROVE  /\ In(p, s) \in Process
         /\ In(p, s).state = s /\ In(p, s).parent = proc[p].parent
         /\ In(p, s).below = proc[p].below /\ In(p, s).remainingJobs = proc[p].remainingJobs
         /\ In(p, s).armed = proc[p].armed
         /\ In(p, s).waits = IF s = "prompt" THEN NoProc ELSE proc[p].waits
  <1>1. NoLine \in Line /\ NoProc \in Procs \cup {NoProc} /\ proc[p] \in Process
    BY DEF NoLine, Line, Commands, TypeOK
  <1> QED
    BY <1>1 DEF In, Process

LEMMA RememberLemma ==
  ASSUME TypeOK, NEW p \in Procs, NEW l \in Lines
  PROVE  /\ Remember(p, l) \in Process
         /\ Remember(p, l).state = "fork" /\ Remember(p, l).parent = proc[p].parent
         /\ Remember(p, l).below = proc[p].below /\ Remember(p, l).waits = proc[p].waits
         /\ Remember(p, l).remainingJobs = proc[p].remainingJobs
         /\ Remember(p, l).armed = proc[p].armed
  <1>1. l \in Line /\ l.command \in Commands \cup {"unset"} /\ proc[p] \in Process
    BY LinesAssumption DEF Line, TypeOK
  <1>2. proc[p].index \in Slots /\ After(proc[p].index) \in Slots
    BY <1>1, SlotsLemma DEF Process
  <1> QED
    BY <1>1, <1>2 DEF Remember, Process, States, Loop, ChildCode

-----------------------------------------------------------------------------
(* Kinds of steps *)

\* The conditions on a process alone
Fits(r) ==
  /\ r.state \in (Loop \cup ChildCode \cup {"program"}) \ {"copy"}
  /\ r.state \in {"prompt", "fork", "wait", "child", "copied", "run"} => r.waits = NoProc
  /\ r.state \in Loop \cup {"child", "run"} => (r.remainingJobs > 0 <=> r.below)
  /\ r.state = "copied" => r.remainingJobs > 0 /\ (r.remainingJobs > 1 <=> r.below)

\* One process goes on
LEMMA LocalStep ==
  ASSUME IInv, NEW p \in Procs, p \notin signalled, InCode(p), Tip(p),
         NEW r \in Process, r.parent = proc[p].parent, r.below = proc[p].below, Fits(r),
         proc' = [proc EXCEPT ![p] = r], UNCHANGED signalled
  PROVE  IInv'
  <1>t. /\ TypeOK /\ Waits /\ Counted /\ Awaited /\ Chain
        /\ proc \in [Procs -> Process] /\ proc[p].state # "unused" /\ r.state # "unused"
    BY DEF IInv, TypeOK, InCode, Fits, Loop, ChildCode
  <1>1. proc'[p] = r /\ \A q \in Procs : q # p => proc'[q] = proc[q]
    BY <1>t
  <1>2. TypeOK'
    BY <1>t, <1>1 DEF TypeOK, Shot, InCode
  <1>3. Waits'
    BY <1>t, <1>1 DEF Waits, Fits, Loop, ChildCode, Process
  <1>4. Counted'
    BY <1>t, <1>1 DEF Counted, Fits, Loop, ChildCode
  <1>5. Awaited'
    <2>1. \A q \in Procs : proc[q].waits \in Procs \cup {NoProc}
      BY <1>t DEF Process
    <2> QED
      BY <1>t, <1>1, <2>1, NoProcLemma DEF Awaited, Fits, Loop, ChildCode
  <1>6. Chain'
    <2> SUFFICES ASSUME NoneBelow' PROVE Links'
      BY DEF Chain
    <2>1. NoneBelow
      BY <1>t, <1>1 DEF NoneBelow
    <2>2. Links
      BY <1>t, <2>1 DEF Chain
    <2>3. Alive(p) /\ Alive(p)' /\ Tip(p)' /\ \A q \in Procs : q # p => Alive(q)' = Alive(q)
      BY <1>1 DEF Alive, Tip, InCode, Fits
    <2>4. \A q \in Procs : proc[q].waits \in Procs \cup {NoProc}
      BY <1>t DEF Process
    <2>5. \A q \in Procs : Tip(q)' => q = p
      BY <1>1, <2>2, <2>3, <2>4 DEF Links, Tip
    <2>6. \A q \in Procs : Alive(q)' /\ q # Root =>
             /\ proc'[q].parent \in Procs /\ proc'[proc'[q].parent].state = "wait"
             /\ proc'[proc'[q].parent].waits = q
      <3> SUFFICES ASSUME NEW q \in Procs, Alive(q)', q # Root
                   PROVE  /\ proc'[q].parent \in Procs /\ proc'[proc'[q].parent].state = "wait"
                          /\ proc'[proc'[q].parent].waits = q
        OBVIOUS
      <3>1. Alive(q) /\ proc'[q].parent = proc[q].parent
        BY <1>1, <2>3
      <3>2. /\ proc[q].parent \in Procs /\ proc[proc[q].parent].state = "wait"
            /\ proc[proc[q].parent].waits = q
        BY <2>2, <3>1 DEF Links
      <3>3. proc[q].parent # p
        BY <3>1, <3>2, NoProcLemma DEF Tip
      <3> QED
        BY <1>1, <3>1, <3>2, <3>3
    <2>7. \A q \in Procs : proc'[q].state = "wait" /\ proc'[q].waits # NoProc =>
             /\ proc'[proc'[q].waits].parent = q
             /\ proc'[proc'[q].waits].state \notin {"unused", "reaped"}
      BY <1>t, <1>1, <2>2, <2>4 DEF Links, Fits, Loop, ChildCode
    <2>8. proc'[Root].parent = NoProc /\ \A q \in signalled' : Tip(q)'
      BY <1>1, <2>2, <1>t DEF Links, TypeOK
    <2> QED
      BY <2>3, <2>5, <2>6, <2>7, <2>8 DEF Links
  <1> QED
    BY <1>2, <1>3, <1>4, <1>5, <1>6 DEF IInv

\* One process goes on and a child of it is reaped
LEMMA ReapStep ==
  ASSUME IInv, NEW p \in Procs, p \notin signalled, InCode(p), Tip(p),
         NEW r \in Process, r.parent = proc[p].parent, r.below = proc[p].below, Fits(r),
         NEW c \in Procs, proc[c].state = "zombie", proc[c].parent = p \/ proc[c].below,
         proc' = [proc EXCEPT ![p] = r, ![c] = Without(c, "reaped")], UNCHANGED signalled
  PROVE  IInv'
  <1>t. /\ TypeOK /\ Waits /\ Counted /\ Awaited /\ Chain /\ c # p
        /\ proc \in [Procs -> Process] /\ proc[p].state # "unused" /\ r.state # "unused"
    BY DEF IInv, TypeOK, InCode, Fits, Loop, ChildCode
  <1>c. /\ Without(c, "reaped") \in Process /\ Without(c, "reaped").state = "reaped"
        /\ Without(c, "reaped").parent = proc[c].parent
        /\ Without(c, "reaped").below = proc[c].below
    BY <1>t, WithoutLemma DEF States
  <1>1. /\ proc'[p] = r /\ proc'[c] = Without(c, "reaped")
        /\ \A q \in Procs : q # p /\ q # c => proc'[q] = proc[q]
        /\ proc' \in [Procs -> Process] /\ c \notin signalled
    BY <1>t, <1>c DEF TypeOK, Shot, InCode, Loop, ChildCode
  <1>2. TypeOK'
    BY <1>t, <1>1 DEF TypeOK, Shot, InCode
  <1>3. Waits'
    BY <1>t, <1>c, <1>1 DEF Waits, Fits, Loop, ChildCode, Process
  <1>4. Counted'
    BY <1>t, <1>c, <1>1 DEF Counted, Fits, Loop, ChildCode
  <1>5. Awaited'
    <2>1. \A q \in Procs : proc[q].waits \in Procs \cup {NoProc}
      BY <1>t DEF Process
    <2> QED
      BY <1>t, <1>c, <1>1, <2>1, NoProcLemma DEF Awaited, Fits, Loop, ChildCode
  <1>6. Chain'
    <2> SUFFICES ASSUME NoneBelow' PROVE Links'
      BY DEF Chain
    <2>1. NoneBelow /\ proc[c].parent = p
      BY <1>t, <1>c, <1>1 DEF NoneBelow
    <2>2. Links
      BY <1>t, <2>1 DEF Chain
    <2>3. /\ Alive(p) /\ Alive(p)' /\ Tip(p)' /\ ~Alive(c)' /\ ~Alive(c)
          /\ \A q \in Procs : q # p => Alive(q)' = Alive(q)
      BY <1>c, <1>1 DEF Alive, Tip, InCode, Fits, Loop, ChildCode
    <2>4. \A q \in Procs : proc[q].waits \in Procs \cup {NoProc}
      BY <1>t DEF Process
    <2>5. \A q \in Procs : Tip(q)' => q = p
      BY <1>1, <2>2, <2>3, <2>4 DEF Links, Tip
    <2>6. \A q \in Procs : Alive(q)' /\ q # Root =>
             /\ proc'[q].parent \in Procs /\ proc'[proc'[q].parent].state = "wait"
             /\ proc'[proc'[q].parent].waits = q
      <3> SUFFICES ASSUME NEW q \in Procs, Alive(q)', q # Root
                   PROVE  /\ proc'[q].parent \in Procs /\ proc'[proc'[q].parent].state = "wait"
                          /\ proc'[proc'[q].parent].waits = q
        OBVIOUS
      <3>1. Alive(q) /\ q # c /\ proc'[q].parent = proc[q].parent
        BY <1>1, <2>3
      <3>2. /\ proc[q].parent \in Procs /\ proc[proc[q].parent].state = "wait"
            /\ proc[proc[q].parent].waits = q
        BY <2>2, <3>1 DEF Links
      <3>3. proc[q].parent # c /\ proc[q].parent # p
        BY <3>1, <3>2, NoProcLemma DEF Tip
      <3> QED
        BY <1>1, <3>1, <3>2, <3>3
    <2>7. \A q \in Procs : proc'[q].state = "wait" /\ proc'[q].waits # NoProc =>
             /\ proc'[proc'[q].waits].parent = q
             /\ proc'[proc'[q].waits].state \notin {"unused", "reaped"}
      <3> SUFFICES ASSUME NEW q \in Procs, proc'[q].state = "wait", proc'[q].waits # NoProc
                   PROVE  /\ proc'[proc'[q].waits].parent = q
                          /\ proc'[proc'[q].waits].state \notin {"unused", "reaped"}
        OBVIOUS
      <3>1. q # p /\ q # c
        BY <1>1, <1>c DEF Fits
      <3>2. /\ proc'[q].waits = proc[q].waits /\ proc[q].waits \in Procs
            /\ proc[proc[q].waits].parent = q
            /\ proc[proc[q].waits].state \notin {"unused", "reaped"}
        BY <1>1, <2>2, <2>4, <3>1 DEF Links
      <3>3. proc[q].waits # c
        BY <2>1, <3>1, <3>2
      <3> QED
        BY <1>t, <1>1, <3>2, <3>3 DEF Fits, Loop, ChildCode
    <2>8. proc'[Root].parent = NoProc /\ \A q \in signalled' : Tip(q)'
      <3>1. proc'[Root].parent = NoProc
        BY <1>1, <1>c, <2>2, NoProcLemma DEF Links
      <3>2. \A q \in signalled : q \in Procs /\ Tip(q)
        BY <1>t, <2>2 DEF Links, TypeOK
      <3>3. signalled = {}
        BY <2>2, <3>2 DEF Links
      <3> QED
        BY <3>1, <3>3
    <2> QED
      BY <2>3, <2>5, <2>6, <2>7, <2>8 DEF Links
  <1> QED
    BY <1>2, <1>3, <1>4, <1>5, <1>6 DEF IInv

\* A process ends
LEMMA EndStep ==
  ASSUME IInv, NEW p \in Procs, Alive(p), NoneBelow => Tip(p), Ends(p)
  PROVE  IInv'
  <1>t. /\ TypeOK /\ Waits /\ Counted /\ Awaited /\ Chain
        /\ proc \in [Procs -> Process] /\ proc[p].state # "unused"
    BY DEF IInv, TypeOK, Alive, InCode, Loop, ChildCode
  <1>c. /\ Without(p, "zombie") \in Process /\ Without(p, "zombie").state = "zombie"
        /\ Without(p, "zombie").parent = proc[p].parent
        /\ Without(p, "zombie").below = proc[p].below
    BY <1>t, WithoutLemma DEF States
  <1>1. /\ proc'[p] = Without(p, "zombie") /\ proc' \in [Procs -> Process]
        /\ \A q \in Procs : q # p => proc'[q] = proc[q]
        /\ signalled' = (signalled \cup {q \in Procs : q = proc[p].parent /\ Shot(q)}) \ {p}
    BY <1>t, <1>c DEF Ends
  <1>2. TypeOK'
    BY <1>t, <1>1 DEF TypeOK, Shot, InCode
  <1>3. Waits'
    BY <1>t, <1>c, <1>1 DEF Waits, Process
  <1>4. Counted'
    BY <1>t, <1>c, <1>1 DEF Counted, Loop, ChildCode
  <1>5. Awaited'
    <2>1. \A q \in Procs : proc[q].waits \in Procs \cup {NoProc}
      BY <1>t DEF Process
    <2> QED
      BY <1>t, <1>c, <1>1, <2>1, NoProcLemma DEF Awaited, Shot, InCode, Loop
  <1>6. Chain'
    <2> SUFFICES ASSUME NoneBelow' PROVE Links'
      BY DEF Chain
    <2>1. NoneBelow
      BY <1>t, <1>c, <1>1 DEF NoneBelow
    <2>2. Links /\ Tip(p)
      BY <1>t, <2>1 DEF Chain
    <2>3. /\ ~Alive(p)' /\ \A q \in Procs : q # p => Alive(q)' = Alive(q)
      BY <1>c, <1>1 DEF Alive, InCode, Loop, ChildCode
    <2>4. \A q \in Procs : proc[q].waits \in Procs \cup {NoProc}
      BY <1>t DEF Process
    <2>5. \A q \in Procs : Tip(q)' => q = proc[p].parent
      <3> SUFFICES ASSUME NEW q \in Procs, Tip(q)' PROVE q = proc[p].parent
        OBVIOUS
      <3>1. q # p /\ Alive(q) /\ proc'[q] = proc[q] /\ ~Tip(q)
        BY <1>1, <2>2, <2>3 DEF Tip, Links
      <3>2. proc[q].state = "wait" /\ proc[q].waits # NoProc /\ Alive(proc[q].waits)
        BY <3>1 DEF Tip
      <3>3. proc[q].waits = p
        BY <2>3, <2>4, <3>1, <3>2 DEF Tip
      <3> QED
        BY <2>2, <3>2, <3>3 DEF Links
    <2>6. \A q \in Procs : Alive(q)' /\ q # Root =>
             /\ proc'[q].parent \in Procs /\ proc'[proc'[q].parent].state = "wait"
             /\ proc'[proc'[q].parent].waits = q
      <3> SUFFICES ASSUME NEW q \in Procs, Alive(q)', q # Root
                   PROVE  /\ proc'[q].parent \in Procs /\ proc'[proc'[q].parent].state = "wait"
                          /\ proc'[proc'[q].parent].waits = q
        OBVIOUS
      <3>1. Alive(q) /\ q # p /\ proc'[q].parent = proc[q].parent
        BY <1>1, <2>3
      <3>2. /\ proc[q].parent \in Procs /\ proc[proc[q].parent].state = "wait"
            /\ proc[proc[q].parent].waits = q
        BY <2>2, <3>1 DEF Links
      <3>3. proc[q].parent # p
        BY <2>2, <3>1, <3>2, NoProcLemma DEF Tip
      <3> QED
        BY <1>1, <3>1, <3>2, <3>3
    <2>7. \A q \in Procs : proc'[q].state = "wait" /\ proc'[q].waits # NoProc =>
             /\ proc'[proc'[q].waits].parent = q
             /\ proc'[proc'[q].waits].state \notin {"unused", "reaped"}
      BY <1>c, <1>1, <2>2, <2>4 DEF Links
    <2>8. proc'[Root].parent = NoProc
      BY <1>1, <1>c, <2>2, NoProcLemma DEF Links
    <2>9. \A q \in signalled' : Tip(q)'
      <3> SUFFICES ASSUME NEW q \in signalled' PROVE Tip(q)'
        OBVIOUS
      <3>1. q \in Procs /\ q # p /\ (q \in signalled \/ (q = proc[p].parent /\ Shot(q)))
        BY <1>t, <1>1 DEF TypeOK
      <3>2. q \notin signalled
        BY <2>2, <3>1 DEF Links
      <3>3. q = proc[p].parent /\ Alive(q)
        BY <3>1, <3>2 DEF Shot, Alive
      <3>4. p # Root
        BY <2>2, <3>1, <3>3, NoProcLemma DEF Links
      <3>5. proc[q].waits = p
        BY <2>2, <3>3, <3>4 DEF Links
      <3> QED
        BY <1>1, <2>3, <3>1, <3>3, <3>5 DEF Tip
    <2> QED
      BY <2>3, <2>5, <2>6, <2>7, <2>8, <2>9 DEF Links
  <1> QED
    BY <1>2, <1>3, <1>4, <1>5, <1>6 DEF IInv

\* All processes end: no chain is left
LEMMA GroupStep ==
  ASSUME IInv, GroupEnds
  PROVE  IInv'
  <1>t. /\ TypeOK /\ Waits /\ Counted /\ Awaited /\ Chain /\ proc \in [Procs -> Process]
        /\ "zombie" \in States
    BY DEF IInv, TypeOK, States
  <1>c. \A p \in Procs :
          /\ Without(p, "zombie") \in Process /\ Without(p, "zombie").state = "zombie"
          /\ Without(p, "zombie").parent = proc[p].parent
          /\ Without(p, "zombie").below = proc[p].below
    BY <1>t, WithoutLemma
  <1>1. /\ \A p \in Procs : proc'[p] = IF Alive(p) THEN Without(p, "zombie") ELSE proc[p]
        /\ proc' \in [Procs -> Process] /\ signalled' = {}
    BY <1>t, <1>c DEF GroupEnds
  <1>2. \A p \in Procs : /\ proc'[p].state \notin Loop \cup ChildCode \cup {"program"}
                         /\ proc'[p].parent = proc[p].parent /\ proc'[p].below = proc[p].below
                         /\ proc[p].state # "unused" => proc'[p].state # "unused"
    <2> SUFFICES ASSUME NEW p \in Procs
                 PROVE  /\ proc'[p].state \notin Loop \cup ChildCode \cup {"program"}
                        /\ proc'[p].parent = proc[p].parent /\ proc'[p].below = proc[p].below
                        /\ proc[p].state # "unused" => proc'[p].state # "unused"
      OBVIOUS
    <2>1. CASE Alive(p)
      BY <1>c, <1>1, <2>1 DEF Loop, ChildCode
    <2>2. CASE ~Alive(p)
      BY <1>1, <2>2 DEF Alive, InCode
    <2> QED
      BY <2>1, <2>2
  <1>3. TypeOK' /\ Waits' /\ Counted' /\ Awaited'
    BY <1>t, <1>1, <1>2 DEF TypeOK, Waits, Counted, Awaited, Loop, ChildCode
  <1>4. Chain'
    <2> SUFFICES ASSUME NoneBelow' PROVE Links'
      BY DEF Chain
    <2>1. proc'[Root].parent = NoProc
      <3>1. NoneBelow
        BY <1>c, <1>1 DEF NoneBelow, Alive, InCode, Loop, ChildCode
      <3> QED
        BY <1>t, <1>2, <3>1, NoProcLemma DEF Chain, Links
    <2> QED
      BY <1>1, <1>2, <2>1 DEF Links, Tip, Alive, InCode, Loop
  <1> QED
    BY <1>3, <1>4 DEF IInv

\* Who may step is not waiting for a process that is alive
LEMMA TipLemma ==
  ASSUME NEW p \in Procs, InCode(p), proc[p].state # "wait" \/ proc[p].waits = NoProc
  PROVE  Tip(p)
  BY DEF Tip, Alive

LEMMA ForkChildStep ==
  ASSUME IInv, NEW p \in Procs, NEW c \in Procs, ForkChild(p, c)
  PROVE  IInv'
  <1> DEFINE r == [In(p, "wait") EXCEPT !.waits = c, !.line = NoLine]
             d == [proc[p] EXCEPT !.state = "child", !.parent = p, !.waits = NoProc]
  <1>t. /\ TypeOK /\ Waits /\ Counted /\ Awaited /\ Chain /\ proc \in [Procs -> Process]
        /\ proc[p].state = "fork" /\ p \notin signalled /\ proc[c].state = "unused" /\ p # c
        /\ proc[p] \in Process /\ InCode(p) /\ Tip(p)
    BY TipLemma DEF IInv, TypeOK, ForkChild, At, IsNext, InCode, Loop
  <1>r. /\ r \in Process /\ r.state = "wait" /\ r.waits = c /\ r.parent = proc[p].parent
        /\ r.below = proc[p].below /\ r.remainingJobs = proc[p].remainingJobs
        /\ r.armed = proc[p].armed
    <2>1. "wait" \in States /\ NoLine \in Line
      BY DEF States, Loop, NoLine, Line, Commands
    <2>2. /\ In(p, "wait") \in Process /\ In(p, "wait").state = "wait"
          /\ In(p, "wait").parent = proc[p].parent /\ In(p, "wait").below = proc[p].below
          /\ In(p, "wait").remainingJobs = proc[p].remainingJobs
          /\ In(p, "wait").armed = proc[p].armed
      BY <1>t, <2>1, InLemma
    <2> QED
      BY <2>1, <2>2 DEF Process
  <1>d. /\ d \in Process /\ d.state = "child" /\ d.waits = NoProc /\ d.parent = p
        /\ d.below = proc[p].below /\ d.remainingJobs = proc[p].remainingJobs
    BY <1>t DEF Process, States, Loop, ChildCode
  <1>1. /\ proc'[p] = r /\ proc'[c] = d /\ proc' \in [Procs -> Process]
        /\ \A q \in Procs : q # p /\ q # c => proc'[q] = proc[q]
        /\ signalled' = signalled /\ c \notin signalled
    <2>1. proc' = [proc EXCEPT ![p] = r, ![c] = d] /\ signalled' = signalled
      BY DEF ForkChild
    <2>2. c \notin signalled
      BY <1>t DEF TypeOK, Shot, InCode, Loop, ChildCode
    <2> HIDE DEF r, d
    <2> QED
      BY <1>t, <1>r, <1>d, <2>1, <2>2
  <1> HIDE DEF r, d
  <1>2. TypeOK'
    BY <1>t, <1>1 DEF TypeOK, Shot, InCode
  <1>3. Waits'
    BY <1>t, <1>r, <1>d, <1>1 DEF Waits, Process
  <1>4. Counted'
    BY <1>t, <1>r, <1>d, <1>1 DEF Counted, Loop, ChildCode
  <1>5. Awaited'
    <2>1. \A q \in Procs : proc[q].waits \in Procs \cup {NoProc}
      BY <1>t DEF Process
    <2> QED
      BY <1>t, <1>r, <1>d, <1>1, <2>1, NoProcLemma DEF Awaited, Process
  <1>6. Chain'
    <2> SUFFICES ASSUME NoneBelow' PROVE Links'
      BY DEF Chain
    <2>1. NoneBelow
      BY <1>t, <1>r, <1>1 DEF NoneBelow
    <2>2. Links
      BY <1>t, <2>1 DEF Chain
    <2>3. /\ Alive(p) /\ Alive(p)' /\ ~Alive(c) /\ Alive(c)' /\ Tip(c)' /\ ~Tip(p)'
          /\ \A q \in Procs : q # p /\ q # c => Alive(q)' = Alive(q)
      BY <1>t, <1>r, <1>d, <1>1, NoProcLemma DEF Alive, Tip, InCode, Loop, ChildCode
    <2>4. \A q \in Procs : proc[q].waits \in Procs \cup {NoProc}
      BY <1>t DEF Process
    <2>5. \A q \in Procs : Tip(q)' => q = c
      BY <1>t, <1>1, <2>2, <2>3, <2>4 DEF Links, Tip
    <2>6. \A q \in Procs : Alive(q)' /\ q # Root =>
             /\ proc'[q].parent \in Procs /\ proc'[proc'[q].parent].state = "wait"
             /\ proc'[proc'[q].parent].waits = q
      <3> SUFFICES ASSUME NEW q \in Procs, Alive(q)', q # Root
                   PROVE  /\ proc'[q].parent \in Procs /\ proc'[proc'[q].parent].state = "wait"
                          /\ proc'[proc'[q].parent].waits = q
        OBVIOUS
      <3>1. CASE q = c
        BY <1>r, <1>d, <1>1, <3>1
      <3>2. CASE q # c
        <4>1. Alive(q) /\ proc'[q].parent = proc[q].parent
          BY <1>r, <1>1, <2>3, <3>2
        <4>2. /\ proc[q].parent \in Procs /\ proc[proc[q].parent].state = "wait"
              /\ proc[proc[q].parent].waits = q
          BY <2>2, <4>1 DEF Links
        <4>3. proc[q].parent # p /\ proc[q].parent # c
          BY <1>t, <4>2
        <4> QED
          BY <1>1, <4>1, <4>2, <4>3
      <3> QED
        BY <3>1, <3>2
    <2>7. \A q \in Procs : proc'[q].state = "wait" /\ proc'[q].waits # NoProc =>
             /\ proc'[proc'[q].waits].parent = q
             /\ proc'[proc'[q].waits].state \notin {"unused", "reaped"}
      <3> SUFFICES ASSUME NEW q \in Procs, proc'[q].state = "wait", proc'[q].waits # NoProc
                   PROVE  /\ proc'[proc'[q].waits].parent = q
                          /\ proc'[proc'[q].waits].state \notin {"unused", "reaped"}
        OBVIOUS
      <3>1. CASE q = p
        BY <1>r, <1>d, <1>1, <3>1
      <3>2. CASE q # p
        <4>1. q # c /\ proc'[q] = proc[q]
          BY <1>1, <1>d, <3>2
        <4>2. /\ proc[q].waits \in Procs /\ proc[proc[q].waits].parent = q
              /\ proc[proc[q].waits].state \notin {"unused", "reaped"}
          BY <2>2, <2>4, <4>1 DEF Links
        <4> QED
          BY <1>t, <1>1, <1>r, <4>1, <4>2
      <3> QED
        BY <3>1, <3>2
    <2>8. c # Root
      BY <1>t DEF Waits
    <2>9. proc'[Root].parent = NoProc
      BY <1>1, <1>r, <2>2, <2>8, NoProcLemma DEF Links
    <2>10. signalled' = {}
      BY <1>t, <1>1, <2>2 DEF Links, TypeOK
    <2> QED
      BY <2>3, <2>5, <2>6, <2>7, <2>9, <2>10 DEF Links
  <1> QED
    BY <1>2, <1>3, <1>4, <1>5, <1>6 DEF IInv

\* The copy is below a line in the background, so nothing is left to show of Chain
LEMMA ForkCopyStep ==
  ASSUME IInv, NEW p \in Procs, NEW c \in Procs, ForkCopy(p, c)
  PROVE  IInv'
  <1> DEFINE n == [proc[p] EXCEPT !.remainingJobs = @ + 1]
             r == [n EXCEPT !.state = "copied", !.waits = c]
             d == [n EXCEPT !.state = "copy", !.parent = p, !.waits = NoProc, !.below = TRUE]
  <1>t. /\ TypeOK /\ Waits /\ Counted /\ Awaited /\ proc \in [Procs -> Process]
        /\ proc[p].state = "child" /\ p \notin signalled /\ proc[c].state = "unused" /\ p # c
        /\ proc[p] \in Process /\ proc[p].remainingJobs \in Nat
    BY DEF IInv, TypeOK, ForkCopy, InBackground, At, IsNext, Process
  <1>n. /\ n \in Process /\ n.below = proc[p].below /\ n.parent = proc[p].parent
        /\ n.remainingJobs = proc[p].remainingJobs + 1 /\ n.armed = proc[p].armed
    BY <1>t DEF Process
  <1>s. "copied" \in States /\ "copy" \in States /\ TRUE \in BOOLEAN
    BY DEF States, ChildCode
  <1> HIDE DEF n
  <1>r. /\ r \in Process /\ r.state = "copied" /\ r.waits = c /\ r.below = proc[p].below
        /\ r.parent = proc[p].parent /\ r.remainingJobs = proc[p].remainingJobs + 1
        /\ r.armed = proc[p].armed
    BY <1>n, <1>s DEF Process
  <1>d. /\ d \in Process /\ d.state = "copy" /\ d.waits = NoProc /\ d.parent = p
        /\ d.below = TRUE /\ d.remainingJobs = proc[p].remainingJobs + 1
    BY <1>n, <1>s DEF Process
  <1>1. /\ proc'[p] = r /\ proc'[c] = d /\ proc' \in [Procs -> Process]
        /\ \A q \in Procs : q # p /\ q # c => proc'[q] = proc[q]
        /\ signalled' = signalled /\ c \notin signalled
    <2>1. proc' = [proc EXCEPT ![p] = r, ![c] = d] /\ signalled' = signalled
      BY DEF ForkCopy, n
    <2>2. c \notin signalled
      BY <1>t DEF TypeOK, Shot, InCode, Loop, ChildCode
    <2> HIDE DEF r, d
    <2> QED
      BY <1>t, <1>r, <1>d, <2>1, <2>2
  <1> HIDE DEF r, d
  <1>2. TypeOK'
    BY <1>t, <1>1 DEF TypeOK, Shot, InCode
  <1>3. Waits'
    BY <1>t, <1>r, <1>d, <1>1 DEF Waits, Process
  <1>4. Counted'
    BY <1>t, <1>r, <1>d, <1>1 DEF Counted, Loop, ChildCode
  <1>5. Awaited'
    <2>1. \A q \in Procs : proc[q].waits \in Procs \cup {NoProc}
      BY <1>t DEF Process
    <2> QED
      BY <1>t, <1>r, <1>d, <1>1, <2>1, NoProcLemma DEF Awaited
  <1>6. Chain'
    BY <1>d, <1>1 DEF Chain, NoneBelow
  <1> QED
    BY <1>2, <1>3, <1>4, <1>5, <1>6 DEF IInv

-----------------------------------------------------------------------------
(* The actions *)

LEMMA InitIInv == Init => IInv
  <1> SUFFICES ASSUME Init PROVE IInv
    OBVIOUS
  <1>f. /\ Fresh.state = "unused" /\ Fresh.waits = NoProc /\ Fresh.below = FALSE
        /\ Fresh.remainingJobs = 0 /\ Fresh.armed = FALSE /\ Fresh.parent = NoProc
        /\ [Fresh EXCEPT !.state = "prompt"] \in Process
        /\ [Fresh EXCEPT !.state = "prompt"].state = "prompt"
        /\ [Fresh EXCEPT !.state = "prompt"].waits = NoProc
        /\ [Fresh EXCEPT !.state = "prompt"].below = FALSE
        /\ [Fresh EXCEPT !.state = "prompt"].remainingJobs = 0
        /\ [Fresh EXCEPT !.state = "prompt"].parent = NoProc
    BY FreshType DEF Fresh, Process, States, Loop
  <1>1. /\ \A p \in Procs : proc[p] = IF p = Root THEN [Fresh EXCEPT !.state = "prompt"] ELSE Fresh
        /\ signalled = {} /\ proc \in [Procs -> Process]
    BY <1>f, FreshType DEF Init
  <1>2. TypeOK
    BY <1>1 DEF TypeOK
  <1>3. Waits /\ Counted /\ Awaited
    <2>1. Waits
      BY <1>1, <1>f DEF Waits
    <2>2. Counted
      <3>1. \A p \in Procs : /\ proc[p].remainingJobs = 0 /\ proc[p].below = FALSE
                             /\ proc[p].state \in {"prompt", "unused"}
        BY <1>1, <1>f
      <3> QED
        BY <3>1 DEF Counted
    <2>3. Awaited
      BY <1>1, <1>f DEF Awaited
    <2> QED
      BY <2>1, <2>2, <2>3
  <1>4. \A p \in Procs : Alive(p) => p = Root
    BY <1>1, <1>f DEF Alive, InCode, Loop, ChildCode
  <1>5. Links
    BY <1>1, <1>f, <1>4, NoProcLemma DEF Links, Tip
  <1> QED
    BY <1>2, <1>3, <1>5 DEF IInv, Chain

\* The shell's code goes on in a process that does not wait
LEMMA GoesStep ==
  ASSUME IInv, NEW p \in Procs, NEW s \in {"prompt", "wait", "run"}, p \notin signalled, Goes(p, s),
         \/ proc[p].state \in {"fork", "child", "copy", "run"}
         \/ proc[p].state = "wait" /\ proc[p].waits = NoProc
  PROVE  IInv'
  <1>1. /\ TypeOK /\ Waits /\ Counted /\ InCode(p) /\ Tip(p)
        /\ s \in States /\ proc[p].waits = NoProc
    BY TipLemma DEF IInv, Waits, InCode, Loop, ChildCode, States
  <1>2. In(p, s) \in Process /\ In(p, s).parent = proc[p].parent /\ In(p, s).below = proc[p].below
    BY <1>1, InLemma
  <1>3. Fits(In(p, s))
    BY <1>1, InLemma DEF Fits, Counted, Loop, ChildCode
  <1> QED
    BY <1>1, <1>2, <1>3, LocalStep DEF Goes

LEMMA ExecsStep ==
  ASSUME IInv, NEW p \in Procs, p \notin signalled, Execs(p),
         proc[p].state \in {"child", "copy", "run"}
  PROVE  IInv'
  <1>1. TypeOK /\ InCode(p) /\ Tip(p) /\ "program" \in States
    BY TipLemma DEF IInv, InCode, Loop, ChildCode, States
  <1>2. /\ Without(p, "program") \in Process /\ Without(p, "program").parent = proc[p].parent
        /\ Without(p, "program").below = proc[p].below
    BY <1>1, WithoutLemma
  <1>3. Fits(Without(p, "program"))
    BY <1>1, WithoutLemma DEF Fits, Loop, ChildCode
  <1> QED
    BY <1>1, <1>2, <1>3, LocalStep DEF Execs

LEMMA ReadLineStep ==
  ASSUME IInv, NEW p \in Procs, ReadLine(p)
  PROVE  IInv'
  <1>1. PICK l \in Lines : proc' = [proc EXCEPT ![p] = Remember(p, l)]
    BY DEF ReadLine, Typed
  <1>2. /\ TypeOK /\ Waits /\ Counted /\ InCode(p) /\ Tip(p)
        /\ proc[p].state = "prompt" /\ proc[p].waits = NoProc
        /\ p \notin signalled /\ UNCHANGED signalled
    BY TipLemma DEF IInv, ReadLine, At, Waits, InCode, Loop
  <1>3. /\ Remember(p, l) \in Process /\ Remember(p, l).parent = proc[p].parent
        /\ Remember(p, l).below = proc[p].below
    BY <1>2, RememberLemma
  <1>4. Fits(Remember(p, l))
    BY <1>2, RememberLemma DEF Fits, Counted, Loop, ChildCode
  <1> QED
    BY <1>1, <1>2, <1>3, <1>4, LocalStep

LEMMA WaitStep ==
  ASSUME IInv, NEW p \in Procs, Wait(p)
  PROVE  IInv'
  <1>1. TypeOK /\ Counted /\ proc[p].state = "wait" /\ p \notin signalled /\ InCode(p)
    BY DEF IInv, Wait, At, InCode, Loop
  <1>2. CASE proc[p].waits = NoProc /\ Goes(p, "prompt")
    BY <1>1, <1>2, GoesStep
  <1>3. ASSUME NEW c \in Children(p), proc[p].waits \in {c, NoProc}, proc[c].state = "zombie",
               Reap(p, c)
        PROVE  IInv'
    <2>1. c \in Procs /\ proc[c].parent = p
      BY DEF Children
    <2>2. Tip(p)
      BY <1>1, <1>3 DEF Tip, Alive, InCode, Loop, ChildCode
    <2>3. /\ In(p, "prompt") \in Process /\ In(p, "prompt").parent = proc[p].parent
          /\ In(p, "prompt").below = proc[p].below /\ Fits(In(p, "prompt"))
      BY <1>1, InLemma DEF Fits, Counted, States, Loop, ChildCode
    <2> QED
      BY <1>1, <1>3, <2>1, <2>2, <2>3, ReapStep DEF Reap
  <1> QED
    BY <1>2, <1>3 DEF Wait

LEMMA ForkCopyFailsStep ==
  ASSUME IInv, NEW p \in Procs, ForkCopyFails(p)
  PROVE  IInv'
  <1> DEFINE r == [proc[p] EXCEPT !.remainingJobs = @ + 1, !.state = "copied"]
  <1>1. /\ TypeOK /\ Counted /\ InCode(p) /\ Tip(p) /\ proc[p] \in Process
        /\ proc[p].state = "child" /\ proc[p].waits = NoProc /\ p \notin signalled
    BY TipLemma DEF IInv, ForkCopyFails, InBackground, At, Waits, InCode, ChildCode, TypeOK
  <1>2. /\ r \in Process /\ r.parent = proc[p].parent /\ r.below = proc[p].below
        /\ r.state = "copied" /\ r.waits = NoProc
        /\ r.remainingJobs = proc[p].remainingJobs + 1 /\ proc[p].remainingJobs \in Nat
    <2>1. "copied" \in States
      BY DEF States, ChildCode
    <2>2. proc[p].remainingJobs \in Nat /\ proc[p].remainingJobs + 1 \in Nat
      BY <1>1 DEF Process
    <2>3. r \in Process
      BY <1>1, <2>1, <2>2 DEF Process
    <2> QED
      BY <1>1, <2>2, <2>3 DEF Process
  <1>3. proc' = [proc EXCEPT ![p] = r] /\ UNCHANGED signalled
    BY <1>1 DEF ForkCopyFails, TypeOK
  <1> HIDE DEF r
  <1>4. Fits(r)
    BY <1>1, <1>2 DEF Fits, Counted, Loop, ChildCode
  <1> QED
    BY <1>1, <1>2, <1>3, <1>4, LocalStep

LEMMA GoOnStep ==
  ASSUME IInv, NEW p \in Procs, GoOn(p)
  PROVE  IInv'
  <1> DEFINE c == proc[p].waits
             r == [proc[p] EXCEPT !.armed = TRUE, !.remainingJobs = Uncount(@),
                                  !.waits = NoProc, !.state = "run"]
  <1>1. /\ TypeOK /\ Waits /\ Counted /\ InCode(p) /\ Tip(p) /\ proc[p] \in Process
        /\ proc[p].state = "copied" /\ p \notin signalled
    BY TipLemma DEF IInv, GoOn, At, InCode, Loop, ChildCode, TypeOK
  <1>2. /\ proc[p].remainingJobs \in Nat /\ proc[p].remainingJobs > 0
        /\ (proc[p].remainingJobs > 1 <=> proc[p].below) /\ c \in Procs \cup {NoProc}
    BY <1>1 DEF Counted, Process
  <1>3. /\ r \in Process /\ r.parent = proc[p].parent /\ r.below = proc[p].below
        /\ r.state = "run" /\ r.waits = NoProc /\ r.remainingJobs = proc[p].remainingJobs - 1
    <2>1. "run" \in States /\ Uncount(proc[p].remainingJobs) = proc[p].remainingJobs - 1
      BY DEF States, ChildCode, Uncount
    <2>2. Uncount(proc[p].remainingJobs) \in Nat
      BY <1>2, <2>1
    <2> QED
      BY <1>1, <1>2, <2>1, <2>2 DEF Process
  <1>4. /\ UNCHANGED signalled
        /\ proc' = IF c # NoProc /\ proc[c].state = "zombie"
                   THEN [proc EXCEPT ![p] = r, ![c] = Without(c, "reaped")]
                   ELSE [proc EXCEPT ![p] = r]
    BY DEF GoOn
  <1>5. c # NoProc => proc[c].below
    BY <1>1 DEF Waits
  <1> HIDE DEF r
  <1>6. Fits(r)
    BY <1>2, <1>3 DEF Fits, Loop, ChildCode
  <1>7. CASE c # NoProc /\ proc[c].state = "zombie"
    BY <1>1, <1>2, <1>3, <1>4, <1>5, <1>6, <1>7, ReapStep
  <1>8. CASE ~(c # NoProc /\ proc[c].state = "zombie")
    BY <1>1, <1>3, <1>4, <1>6, <1>8, LocalStep
  <1> QED
    BY <1>7, <1>8

\* A process ends in its own code, or it is signalled
LEMMA EndsStep ==
  ASSUME IInv, NEW p \in Procs, Ends(p),
         p \in signalled \/ proc[p].state \in {"prompt", "child", "copy", "run", "program"}
  PROVE  IInv'
  <1>1. Alive(p)
    BY DEF IInv, TypeOK, Shot, Alive, InCode, Loop, ChildCode
  <1>2. NoneBelow => Tip(p)
    BY <1>1 DEF IInv, Chain, Links, Tip
  <1> QED
    BY <1>1, <1>2, EndStep

LEMMA NextIInv == IInv /\ [Next]_vars => IInv'
  <1> SUFFICES ASSUME IInv, [Next]_vars PROVE IInv'
    OBVIOUS
  <1>1. CASE UNCHANGED vars
    BY <1>1 DEF vars, IInv, TypeOK, Shot, InCode, Waits, Counted, Awaited, Chain, NoneBelow, Links,
       Tip, Alive
  <1>2. ASSUME NEW p \in Procs, ReadLine(p) \/ ReadEnds(p) \/ Code(p) \/ ProgramEnds(p) PROVE IInv'
    <2>1. CASE ReadLine(p)
      BY <2>1, ReadLineStep
    <2>2. CASE ReadEnds(p) \/ ProgramEnds(p) \/ Killed(p)
      BY <2>2, EndsStep DEF ReadEnds, ProgramEnds, Killed, At
    <2>3. CASE \E c \in Procs : ForkChild(p, c) \/ ForkCopy(p, c)
      BY <2>3, ForkChildStep, ForkCopyStep
    <2>4. CASE ForkFails(p) \/ Refused(p)
      BY <2>4, GoesStep DEF ForkFails, Refused, At
    <2>5. CASE Wait(p)
      BY <2>5, WaitStep
    <2>6. CASE ForkCopyFails(p)
      BY <2>6, ForkCopyFailsStep
    <2>7. CASE GoOn(p)
      BY <2>7, GoOnStep
    <2>8. CASE Run(p)
      <3>1. p \notin signalled /\ proc[p].state \in {"child", "run"}
        BY <2>8 DEF Run, At
      <3>2. Execs(p) \/ Ends(p) \/ Goes(p, "prompt") \/ GroupEnds
        BY <2>8 DEF Run
      <3> QED
        BY <3>1, <3>2, ExecsStep, EndsStep, GoesStep, GroupStep
    <2>9. CASE RunCopy(p)
      <3>1. p \notin signalled /\ proc[p].state = "copy"
        BY <2>9 DEF RunCopy, At
      <3>2. Execs(p) \/ Ends(p) \/ Goes(p, "run") \/ GroupEnds
        BY <2>9 DEF RunCopy
      <3> QED
        BY <3>1, <3>2, ExecsStep, EndsStep, GoesStep, GroupStep
    <2> QED
      BY <1>2, <2>1, <2>2, <2>3, <2>4, <2>5, <2>6, <2>7, <2>8, <2>9 DEF Code
  <1> QED
    BY <1>1, <1>2 DEF Next

-----------------------------------------------------------------------------
(* The theorems *)

\* In every state the invariant holds.
THEOREM Invariance == Spec => []IInv
  BY InitIInv, NextIInv, PTL DEF Spec

\* Every variable has its type; only armed processes in the shell's code are
\* ended by SIGCHLD (assignment3.c:144, 233).
THEOREM TypeCorrect == Spec => []TypeOK
  <1>1. IInv => TypeOK
    BY DEF IInv
  <1> QED
    BY <1>1, Invariance, PTL

\* exit is refused exactly by the copies of lines in the background and the shells
\* below them (assignment3.c:146-153, 185, 236).
THEOREM ExitInCopies == Spec => []RefusesExitInCopies
  <1>1. IInv => RefusesExitInCopies
    BY DEF IInv, Counted, RefusesExitInCopies, IsShell, Loop
  <1> QED
    BY <1>1, Invariance, PTL

\* Without lines in the background one shell at most reads, however deep they are
\* nested (assignment3.c:155, 262-264).
THEOREM ReaderIsOne == Spec => []OneReader
  <1>1. IInv => OneReader
    <2> SUFFICES ASSUME IInv, \A p \in Started : ~proc[p].below,
                        NEW p \in Procs, NEW q \in Procs,
                        proc[p].state = "prompt", proc[q].state = "prompt"
                 PROVE  p = q
      BY DEF OneReader
    <2>1. Links
      BY DEF IInv, Chain, NoneBelow, Started
    <2>2. Tip(p) /\ Tip(q)
      BY DEF Tip, Alive, InCode, Loop
    <2> QED
      BY <2>1, <2>2 DEF Links
  <1> QED
    BY <1>1, Invariance, PTL

\* A shell that has executed a line in the background never returns from a wait for
\* a child (assignment3.c:233, 262-264).
THEOREM ArmedIsKilled == Spec => ArmedNeverReturns
  <1>1. IInv /\ [Next]_vars =>
          [\A p \in Procs : proc[p].armed /\ At(p, "wait") /\ proc[p].waits # NoProc
                            => proc'[p].state # "prompt"]_vars
    <2> SUFFICES ASSUME IInv, Next, NEW p \in Procs, proc[p].armed, At(p, "wait"),
                        proc[p].waits # NoProc
                 PROVE  proc'[p].state # "prompt"
      OBVIOUS
    <2>t. /\ proc \in [Procs -> Process] /\ proc[p].state = "wait" /\ p \notin signalled
          /\ proc[proc[p].waits].state # "zombie"
      BY DEF IInv, TypeOK, At, Awaited
    <2>1. PICK q \in Procs : ReadLine(q) \/ ReadEnds(q) \/ Code(q) \/ ProgramEnds(q)
      BY DEF Next
    <2>2. CASE q = p
      <3>1. ~Wait(p)
        BY <2>t DEF Wait
      <3>2. FALSE
        BY <2>t, <2>1, <2>2, <3>1 DEF ReadLine, ReadEnds, Code, ProgramEnds, ForkChild, ForkCopy,
           ForkFails, ForkCopyFails, InBackground, Refused, GoOn, Run, RunCopy, Killed, At
      <3> QED
        BY <3>2
    <2>3. CASE q # p
      <3>1. CASE GroupEnds
        <4>1. proc'[p].state = "zombie"
          BY <2>t, <3>1, WithoutLemma DEF GroupEnds, Alive, InCode, Loop, IInv, States
        <4> QED
          BY <4>1
      <3>2. CASE ~GroupEnds
        <4>1. proc'[p] = proc[p]
          BY <2>t, <2>1, <2>3, <3>2 DEF ReadLine, ReadEnds, Code, ProgramEnds, ForkChild, ForkCopy, IsNext,
             ForkFails, ForkCopyFails, Refused, GoOn, Run, RunCopy, Killed, Wait, Reap, Goes,
             Execs, Ends
        <4> QED
          BY <2>t, <4>1
      <3> QED
        BY <3>1, <3>2
    <2> QED
      BY <2>2, <2>3
  <1> QED
    BY <1>1, Invariance, PTL DEF Spec, ArmedNeverReturns
=============================================================================
