---------------------------- MODULE ParserProofs ---------------------------
(***************************************************************************)
(* Theorems about Parser, for lines of any length and every choice of the  *)
(* limits: types, buffer bounds, and what the stored commands are made of. *)
(*                                                                         *)
(* None of the invariants is inductive.  A command is a whole text of the  *)
(* line because the text being collected starts behind a bar of its own,   *)
(* runs up to the index while the loop collects, and ends at a special     *)
(* character once a redirection or the end was seen (Collecting).  A line  *)
(* that outgrows CommArray has enough bars because each stored command     *)
(* leaves a bar of its own behind the index (BarsCounted).                 *)
(***************************************************************************)
EXTENDS Parser, TLAPS, SequenceTheorems, FiniteSetTheorems

Parsing == pc \in {"loop", "last"}

\* The bars the index has passed are at least as many as the stored commands
PassedBars == {k \in Bars : k < i}
BarsCounted == Parsing => Len(CommArray) <= Cardinality(PassedBars)

\* com is text of the line behind position own: all of it up to the index, or
\* up to the special character or the end that was met
Collected(own) ==
  /\ own < i /\ own + Len(com) <= Len(line)
  /\ \A k \in 1 .. Len(com) : com[k] = line[own + k] /\ line[own + k] \notin Special
  /\ IF pc = "loop" /\ ~end THEN i = own + Len(com) + 1
                             ELSE At(own + Len(com) + 1) \in Special \cup {"end"}

\* The next bar after those of the stored commands
Follows(own, bar) ==
  /\ Len(CommArray) = 0 => own = 0
  /\ \A k \in 1 .. Len(CommArray) : bar[k] < own

Collecting ==
  \E bar \in [1 .. Len(CommArray) -> {0} \cup Bars] :
    /\ CommandsBehind(bar)
    /\ Parsing => \E own \in {0} \cup Bars : Collected(own) /\ Follows(own, bar)

IInv ==
  /\ TypeOK /\ Sizes /\ BarsCounted /\ Collecting
  /\ \E S : CommArray \in Seq(S)

USE LimitsAssumption

\* A character that is not the terminator is read inside the line
LEMMA ReadInside ==
  ASSUME TypeOK, NEW k \in Nat \ {0}, At(k) # "end"
  PROVE  k \in 1 .. Len(line) /\ At(k) = line[k] /\ line[k] \in Symbols
  BY DEF TypeOK, At

\* A name without spaces, cut out of the line
LEMMA NameType ==
  ASSUME TypeOK, NEW start \in Nat \ {0}, NEW stop \in Nat, start <= stop,
         stop <= Len(line) + 1, NoSpace(start, stop)
  PROVE  /\ SubSeq(line, start, stop - 1) \in Seq(Letters \cup Special)
         /\ Len(SubSeq(line, start, stop - 1)) = stop - start
  <1>1. line \in Seq(Symbols) /\ Len(line) \in Nat
    BY DEF TypeOK
  <1>2. \A k \in start .. stop - 1 : line[k] \in Letters \cup Special
    BY <1>1 DEF NoSpace, At, Symbols
  <1>3. SubSeq(line, start, stop - 1) =
          [k \in 1 .. stop - start |-> line[k + start - 1]]
    BY <1>1
  <1>4. \A k \in 1 .. stop - start : line[k + start - 1] \in Letters \cup Special
    BY <1>2
  <1> DEFINE name == [k \in 1 .. stop - start |-> line[k + start - 1]]
  <1>5. stop - start \in Nat /\ name \in [1 .. stop - start -> Letters \cup Special]
    <2>1. stop - start \in Nat
      OBVIOUS
    <2>2. name \in [1 .. stop - start -> Letters \cup Special]
      BY <1>4
    <2> QED
      BY <2>1, <2>2
  <1>6. name \in Seq(Letters \cup Special) /\ Len(name) = stop - start
    <2> HIDE DEF name
    <2> QED BY <1>5
  <1> QED
    BY <1>3, <1>6

\* The bars of a line are finitely many, and so are those the index has passed
LEMMA BarsFinite ==
  ASSUME TypeOK
  PROVE  /\ IsFiniteSet(Bars) /\ Cardinality(Bars) \in Nat
         /\ IsFiniteSet(PassedBars) /\ Cardinality(PassedBars) \in Nat
         /\ Cardinality(PassedBars) <= Cardinality(Bars)
  <1>1. Len(line) \in Nat
    BY DEF TypeOK
  <1>2. IsFiniteSet(1 .. Len(line))
    BY <1>1, FS_Interval
  <1>3. Bars \in SUBSET (1 .. Len(line)) /\ PassedBars \in SUBSET Bars
    BY DEF Bars, PassedBars
  <1>4. IsFiniteSet(Bars)
    BY <1>2, <1>3, FS_Subset
  <1>5. IsFiniteSet(PassedBars) /\ Cardinality(PassedBars) <= Cardinality(Bars)
    BY <1>3, <1>4, FS_Subset
  <1> QED
    BY <1>4, <1>5, FS_CardinalityType

\* Moving on passes no fewer bars, and moving past a bar one more
LEMMA MoveOn ==
  ASSUME TypeOK, line' = line, i' \in Nat, i' >= i
  PROVE  /\ Cardinality(PassedBars') \in Nat
         /\ Cardinality(PassedBars) <= Cardinality(PassedBars')
         /\ i \in Bars /\ i' = i + 1 => Cardinality(PassedBars) + 1 <= Cardinality(PassedBars')
  <1>1. IsFiniteSet(PassedBars) /\ Cardinality(PassedBars) \in Nat
    BY BarsFinite
  <1>2. PassedBars \in SUBSET PassedBars'
    BY DEF TypeOK, PassedBars, Bars
  <1>3. IsFiniteSet(PassedBars') /\ Cardinality(PassedBars') \in Nat
    <2>1. IsFiniteSet(Bars) /\ PassedBars' \in SUBSET Bars
      BY BarsFinite DEF PassedBars, Bars
    <2> QED
      BY <2>1, FS_Subset, FS_CardinalityType
  <1>4. Cardinality(PassedBars) <= Cardinality(PassedBars')
    BY <1>2, <1>3, FS_Subset
  <1>5. ASSUME i \in Bars, i' = i + 1
        PROVE  Cardinality(PassedBars) + 1 <= Cardinality(PassedBars')
    <2>1. i \notin PassedBars /\ PassedBars \cup {i} \in SUBSET PassedBars'
      BY <1>2, <1>5 DEF TypeOK, PassedBars, Bars
    <2>2. Cardinality(PassedBars \cup {i}) = Cardinality(PassedBars) + 1
      BY <1>1, <2>1, FS_AddElement
    <2>3. Cardinality(PassedBars \cup {i}) <= Cardinality(PassedBars')
      BY <1>3, <2>1, FS_Subset
    <2> QED
      BY <2>2, <2>3
  <1> QED
    BY <1>4, <1>5, <1>3

\* The text collected for a command, cut out of the line
LEMMA CollectedText ==
  ASSUME TypeOK, NEW own \in Nat, Collected(own)
  PROVE  com = SubSeq(line, own + 1, own + Len(com))
  <1>1. /\ line \in Seq(Symbols) /\ Len(line) \in Nat /\ Len(com) \in Nat
        /\ com \in Seq(Letters \cup {Space})
    BY DEF TypeOK
  <1>2. own + Len(com) <= Len(line) /\ \A k \in 1 .. Len(com) : com[k] = line[own + k]
    BY DEF Collected
  <1>3. SubSeq(line, own + 1, own + Len(com)) = [k \in 1 .. Len(com) |-> line[k + own]]
    <2>1. (own + Len(com)) - (own + 1) + 1 = Len(com)
      BY <1>1
    <2>2. \A k \in 1 .. Len(com) : k + (own + 1) - 1 = k + own
      BY <1>1
    <2> QED
      BY <1>1, <2>1, <2>2
  <1>4. com = [k \in 1 .. Len(com) |-> com[k]]
    BY <1>1
  <1>5. \A k \in 1 .. Len(com) : com[k] = line[k + own]
    BY <1>1, <1>2
  <1> QED
    BY <1>3, <1>4, <1>5

\* A step that stores nothing keeps the bars of the stored commands
LEMMA KeepsCommands ==
  ASSUME Collecting, line' = line, CommArray' = CommArray,
         Parsing' => Parsing /\ \A own \in {0} \cup Bars : Collected(own) => Collected(own)'
  PROVE  Collecting'
  <1>1. PICK bar \in [1 .. Len(CommArray) -> {0} \cup Bars] :
          /\ CommandsBehind(bar)
          /\ Parsing => \E own \in {0} \cup Bars : Collected(own) /\ Follows(own, bar)
    BY DEF Collecting
  <1>2. Bars' = Bars /\ CommandsBehind(bar)'
    BY <1>1 DEF Bars, CommandsBehind, IsText, At
  <1>3. ASSUME Parsing' PROVE \E own \in {0} \cup Bars : Collected(own)' /\ Follows(own, bar)'
    <2>1. PICK own \in {0} \cup Bars : Collected(own) /\ Follows(own, bar)
      BY <1>1, <1>3
    <2> QED
      BY <1>3, <2>1 DEF Follows
  <1> QED
    BY <1>1, <1>2, <1>3 DEF Collecting

\* The command stored is the whole text behind the bar it was collected from
LEMMA StoresSegment ==
  ASSUME TypeOK, line' = line,
         NEW S, CommArray \in Seq(S), CommArray' = Append(CommArray, Command(com)),
         NEW bar \in [1 .. Len(CommArray) -> {0} \cup Bars], CommandsBehind(bar),
         NEW own \in {0} \cup Bars, Collected(own), Follows(own, bar),
         At(own + Len(com) + 1) \in Special \cup {"end"}
  PROVE  \E b \in [1 .. Len(CommArray') -> {0} \cup Bars] :
           CommandsBehind(b)' /\ \A k \in 1 .. Len(CommArray') : b[k] <= own
  <1> DEFINE n == Len(CommArray)
  <1>1. /\ n \in Nat /\ Len(CommArray') = n + 1 /\ CommArray'[n + 1] = Command(com)
        /\ \A k \in 1 .. n : CommArray'[k] = CommArray[k]
    <2>1. CommArray \in Seq(S \cup {Command(com)})
      OBVIOUS
    <2> QED
      BY <2>1, AppendProperties
  <1>2. PICK b : b = [k \in 1 .. n + 1 |-> IF k <= n THEN bar[k] ELSE own]
    OBVIOUS
  <1>3. /\ b \in [1 .. n + 1 -> {0} \cup Bars] /\ b[n + 1] = own
        /\ \A k \in 1 .. n : b[k] = bar[k]
    BY <1>1, <1>2
  <1>4. {0} \cup Bars \subseteq Nat /\ own \in Nat /\ Len(com) \in Nat /\ Len(line) \in Nat
    BY DEF Bars, TypeOK
  <1>5. \A k \in 1 .. n : b[k] \in Nat /\ b[k] < own
    BY <1>1, <1>3, <1>4 DEF Follows
  <1>6. \E to \in own .. Len(line) :
          IsText(own, to) /\ Command(com) = Command(SubSeq(line, own + 1, to))
    <2>1. own + Len(com) \in own .. Len(line)
      BY <1>4 DEF Collected
    <2>2. IsText(own, own + Len(com))
      <3>1. ASSUME NEW k \in own + 1 .. own + Len(com) PROVE line[k] \notin Special
        <4>1. k - own \in 1 .. Len(com) /\ own + (k - own) = k
          BY <1>4
        <4> QED
          BY <4>1 DEF Collected
      <3> QED
        BY <3>1 DEF IsText
    <2> QED
      BY <1>4, <2>1, <2>2, CollectedText
  <1>7. CommandsBehind(b)'
    <2> SUFFICES ASSUME NEW k \in 1 .. n + 1
                 PROVE  /\ k = 1 => b[k] = 0
                        /\ \A m \in 1 .. k - 1 : b[m] < b[k]
                        /\ \E to \in b[k] .. Len(line) :
                             /\ IsText(b[k], to)
                             /\ CommArray'[k] = Command(SubSeq(line, b[k] + 1, to))
      BY <1>1 DEF CommandsBehind, IsText, At
    <2>1. CASE k \in 1 .. n
      <3>1. \A m \in 1 .. k - 1 : m \in 1 .. n
        BY <1>1, <2>1
      <3> QED
        BY <1>1, <1>3, <2>1, <3>1 DEF CommandsBehind
    <2>2. CASE k = n + 1
      <3>1. k = 1 => b[k] = 0
        BY <1>1, <1>3, <2>2 DEF Follows
      <3>2. \A m \in 1 .. k - 1 : b[m] < b[k]
        BY <1>1, <1>3, <1>5, <2>2
      <3> QED
        BY <1>1, <1>3, <1>6, <2>2, <3>1, <3>2
    <2> QED
      BY <1>1, <2>1, <2>2
  <1>8. \A k \in 1 .. n + 1 : b[k] <= own
    BY <1>1, <1>3, <1>4, <1>5
  <1> QED
    BY <1>1, <1>3, <1>7, <1>8

\* Storing a command keeps CommArray a sequence within its bound; a store past
\* the bound means that the line has enough bars
LEMMA StoreLemma ==
  ASSUME IInv, Parsing, NEW ok, ok # "overflow", StoreCommand(ok)
  PROVE  /\ pc' \in {ok, "rejected", "overflow"}
         /\ pc' \in {"rejected", "overflow"} /\ pc' # ok => UNCHANGED CommArray
         /\ pc' # "rejected" /\ pc' = ok => CommArray' = Append(CommArray, Command(com))
         /\ \E S : CommArray' \in Seq(S)
         /\ Len(CommArray') \in 0 .. PIPE_MAX_NUM
         /\ pc' = "overflow" => Cardinality(Bars) >= PIPE_MAX_NUM
         /\ Len(CommArray') <= Len(CommArray) + 1
  <1>1. PICK S : CommArray \in Seq(S)
    BY DEF IInv
  <1>2. Len(CommArray) \in 0 .. PIPE_MAX_NUM /\ TypeOK
    BY DEF IInv, TypeOK
  <1>3. Len(CommArray) <= Cardinality(PassedBars)
    BY DEF IInv, BarsCounted
  <1>4. Len(CommArray) >= PIPE_MAX_NUM => Cardinality(Bars) >= PIPE_MAX_NUM
    BY <1>2, <1>3, BarsFinite
  <1>5. CASE Len(CommArray) >= PIPE_MAX_NUM
    BY <1>1, <1>2, <1>4, <1>5 DEF StoreCommand
  <1>6. CASE ~(Len(CommArray) >= PIPE_MAX_NUM) /\ TooManyWords(com)
    BY <1>1, <1>2, <1>6 DEF StoreCommand
  <1>7. CASE ~(Len(CommArray) >= PIPE_MAX_NUM) /\ ~TooManyWords(com)
    <2>1. CommArray \in Seq(S \cup {Command(com)})
      BY <1>1
    <2>2. pc' = ok /\ CommArray' = Append(CommArray, Command(com))
      BY <1>7 DEF StoreCommand
    <2>3. /\ CommArray' \in Seq(S \cup {Command(com)})
          /\ Len(CommArray') = Len(CommArray) + 1
      BY <2>1, <2>2, AppendProperties
    <2> QED
      BY <1>2, <1>7, <2>2, <2>3
  <1> QED
    BY <1>5, <1>6, <1>7

-----------------------------------------------------------------------------
(* The steps *)

THEOREM InitIInv == Init => IInv
  <1> SUFFICES ASSUME Init PROVE IInv
    OBVIOUS
  <1>1. line \in Seq(Symbols) /\ Len(line) \in Nat
    BY LinesAssumption DEF Init
  <1>2. <<>> \in Seq(Letters \cup Special) /\ <<>> \in Seq(Letters \cup {Space}) /\ Len(<<>>) = 0
    OBVIOUS
  <1>3. TypeOK
    <2>1. com = <<>> /\ inFile = <<>> /\ outFile = <<>> /\ CommArray = <<>>
      BY DEF Init
    <2>2. Len(CommArray) \in 0 .. PIPE_MAX_NUM
      BY <1>2, <2>1
    <2>3. /\ i \in Nat /\ pc \in {"loop", "last"} \cup Ended /\ end \in BOOLEAN
          /\ boolInfile \in Nat /\ boolOutfile \in Nat /\ boolBackground \in BOOLEAN
      BY DEF Init
    <2> QED
      BY <1>1, <1>2, <2>1, <2>2, <2>3 DEF TypeOK
  <1>4. Sizes
    BY <1>1, <1>2 DEF Init, Sizes
  <1>5. CommArray \in Seq({}) /\ Len(CommArray) = 0
    BY DEF Init
  <1>6. BarsCounted
    BY <1>3, <1>5, BarsFinite DEF BarsCounted
  <1>7. Collecting
    <2>1. PICK bar : bar = [k \in 1 .. Len(CommArray) |-> 0]
      OBVIOUS
    <2>2. bar \in [1 .. Len(CommArray) -> {0} \cup Bars] /\ CommandsBehind(bar)
      BY <1>5, <2>1 DEF CommandsBehind
    <2>3. Collected(0) /\ Follows(0, bar)
      BY <1>1, <1>2, <1>5 DEF Init, Collected, Follows
    <2> QED
      BY <2>2, <2>3 DEF Collecting
  <1> QED
    BY <1>3, <1>4, <1>5, <1>6, <1>7 DEF IInv

\* A step that stores nothing keeps the count
LEMMA CountKept ==
  ASSUME TypeOK, BarsCounted, UNCHANGED <<line, CommArray>>, i' \in Nat, i' >= i,
         Parsing' => Parsing
  PROVE  BarsCounted'
  <1>1. /\ Cardinality(PassedBars') \in Nat /\ Cardinality(PassedBars) \in Nat
        /\ Cardinality(PassedBars) <= Cardinality(PassedBars')
    BY BarsFinite, MoveOn
  <1> QED
    BY <1>1 DEF BarsCounted, TypeOK

\* A step that ends the parse without storing a command
LEMMA Stops ==
  ASSUME TypeOK, Sizes, Collecting, \E S : CommArray \in Seq(S), Bars' = Bars,
         UNCHANGED <<line, i, com, end, redirections, boolBackground, CommArray>>,
         pc' \in {"rejected", "overflow"},
         pc' = "overflow" => Cardinality(Bars) >= PIPE_MAX_NUM
  PROVE  IInv'
  <1>1. ~Parsing' /\ UNCHANGED <<line, CommArray>>
    BY DEF Parsing
  <1>2. TypeOK' /\ Sizes'
    BY DEF redirections, TypeOK, Sizes, Ended
  <1>3. BarsCounted' /\ Collecting'
    BY <1>1, KeepsCommands DEF BarsCounted
  <1> QED
    BY <1>1, <1>2, <1>3 DEF IInv

\* The end of the line or & ends the text collected last
LEMMA GoesToLast ==
  ASSUME TypeOK, Sizes, BarsCounted, Collecting,
         \E S : CommArray \in Seq(S), Bars' = Bars, i \in Nat,
         pc = "loop", pc' = "last", At(i) \in Special \cup {"end"},
         UNCHANGED <<line, i, com, end, redirections, CommArray>>,
         boolBackground' \in BOOLEAN
  PROVE  IInv'
  <1>1. Parsing /\ UNCHANGED <<line, CommArray>> /\ i' = i
    BY DEF Parsing
  <1>2. TypeOK' /\ Sizes'
    BY DEF redirections, TypeOK, Sizes, Ended
  <1>3. BarsCounted'
    BY <1>1, CountKept
  <1>4. ASSUME NEW own \in {0} \cup Bars, Collected(own) PROVE Collected(own)'
    BY <1>4 DEF Collected, At
  <1>5. Collecting'
    BY <1>1, <1>4, KeepsCommands
  <1> QED
    BY <1>1, <1>2, <1>3, <1>5 DEF IInv

\* A redirection ends the text collected before it
LEMMA PassesRedirection ==
  ASSUME TypeOK, TypeOK', Sizes', BarsCounted, Collecting,
         \E S : CommArray \in Seq(S), UNCHANGED <<line, com, CommArray>>,
         pc = "loop", At(i) \in Special, i' \in Nat, i' >= i,
         pc' = "rejected" \/ (pc' = "loop" /\ end')
  PROVE  IInv'
  <1>1. Parsing
    BY DEF Parsing
  <1>2. BarsCounted'
    BY <1>1, CountKept
  <1>3. ASSUME Parsing', NEW own \in {0} \cup Bars, Collected(own) PROVE Collected(own)'
    <2>1. pc' = "loop" /\ end'
      BY <1>3 DEF Parsing
    <2>2. At(own + Len(com) + 1) \in Special \cup {"end"}
      BY <1>3 DEF Collected
    <2>3. own < i' /\ own \in Nat
      BY <1>3 DEF Collected, Bars, TypeOK
    <2> QED
      BY <1>3, <2>1, <2>2, <2>3 DEF Collected, At
  <1>4. Collecting'
    BY <1>1, <1>3, KeepsCommands
  <1> QED
    BY <1>2, <1>4 DEF IInv

LEMMA NextIInv == IInv /\ [Next]_vars => IInv'
  <1> SUFFICES ASSUME IInv, [Next]_vars PROVE IInv'
    OBVIOUS
  <1>t. /\ TypeOK /\ Sizes /\ BarsCounted /\ Collecting
        /\ \E S : CommArray \in Seq(S)
    BY DEF IInv
  <1>l. line \in Seq(Symbols) /\ Len(line) \in Nat /\ i \in 1 .. Len(line) + 1 /\ i \in Nat \ {0}
    BY <1>t DEF TypeOK, Sizes
  <1>b. Bars' = Bars
    BY DEF Next, vars, EndOfLine, Background, RedirectIn, RedirectOut, Pipe, Text,
           LastCommand, Bars
  <1>1. CASE EndOfLine
    <2>1. /\ pc = "loop" /\ pc' = "last" /\ At(i) = "end"
          /\ UNCHANGED <<line, i, com, end, redirections, boolBackground, CommArray>>
      BY <1>1 DEF EndOfLine, Sees
    <2>2. boolBackground' \in BOOLEAN
      BY <1>t, <2>1 DEF TypeOK
    <2> QED
      BY <1>b, <1>l, <1>t, <2>1, <2>2, GoesToLast
  <1>2. CASE Background
    <2>1. /\ pc = "loop" /\ pc' = "last" /\ At(i) = "&" /\ boolBackground' = TRUE
          /\ UNCHANGED <<line, i, com, end, redirections, CommArray>>
      BY <1>2 DEF Background, Sees
    <2> QED
      BY <1>b, <1>l, <1>t, <2>1, GoesToLast DEF Special
  <1>3. CASE RedirectIn
    <2>1. PICK start \in i + 1 .. Len(line) + 1, stop \in i + 1 .. Len(line) + 1,
               next \in i + 1 .. Len(line) + 1 :
            /\ FileName(start, stop, next)
            /\ IF TooLong(start, stop)
                 THEN pc' = "rejected" /\ UNCHANGED <<i, end, inFile, outFile>>
                 ELSE /\ inFile' = SubSeq(line, start, stop - 1)
                      /\ outFile' = IF stop - start = FILE_MAX_SIZE THEN <<>> ELSE outFile
                      /\ end' = TRUE
                      /\ i' = next
                      /\ UNCHANGED pc
      BY <1>3 DEF RedirectIn
    <2>2. /\ SubSeq(line, start, stop - 1) \in Seq(Letters \cup Special)
          /\ Len(SubSeq(line, start, stop - 1)) = stop - start
      BY <2>1, <1>t, <1>l, NameType DEF FileName, NameBehind
    <2>3. /\ inFile' \in Seq(Letters \cup Special) /\ outFile' \in Seq(Letters \cup Special)
          /\ Len(inFile') <= FILE_MAX_SIZE /\ Len(outFile') <= FILE_MAX_SIZE
          /\ i' \in 1 .. Len(line) + 1 /\ end' \in BOOLEAN
      <3>1. CASE TooLong(start, stop)
        BY <1>t, <1>l, <2>1, <3>1 DEF TypeOK, Sizes
      <3>2. CASE ~TooLong(start, stop)
        <4>0. /\ inFile' = SubSeq(line, start, stop - 1)
              /\ outFile' = IF stop - start = FILE_MAX_SIZE THEN <<>> ELSE outFile
              /\ i' = next /\ end' = TRUE
          BY <2>1, <3>2
        <4>1. inFile' \in Seq(Letters \cup Special) /\ Len(inFile') <= FILE_MAX_SIZE
          BY <2>2, <3>2, <4>0 DEF TooLong
        <4>2. outFile' \in Seq(Letters \cup Special) /\ Len(outFile') <= FILE_MAX_SIZE
          <5> <<>> \in Seq(Letters \cup Special) /\ Len(<<>>) = 0
            OBVIOUS
          <5> QED
            BY <1>t, <4>0 DEF TypeOK, Sizes
        <4> QED
          BY <1>l, <4>0, <4>1, <4>2
      <3> QED
        BY <3>1, <3>2
    <2>4. TypeOK' /\ Sizes'
      BY <1>3, <1>b, <1>t, <2>1, <2>3
      DEF RedirectIn, Sees, TypeOK, Sizes, Ended
    <2>5. /\ UNCHANGED <<line, com, CommArray>> /\ pc = "loop" /\ At(i) \in Special
          /\ i' \in Nat /\ i' >= i
          /\ pc' = "rejected" \/ (pc' = "loop" /\ end')
      BY <1>3, <1>l, <2>1, <2>3 DEF RedirectIn, Sees, Special
    <2> QED
      BY <1>t, <2>4, <2>5, PassesRedirection
  <1>4. CASE RedirectOut
    <2>1. PICK start \in i + 1 .. Len(line) + 1, stop \in i + 1 .. Len(line) + 1,
               next \in i + 1 .. Len(line) + 1 :
            /\ FileName(start, stop, next)
            /\ IF TooLong(start, stop)
                 THEN pc' = "rejected" /\ UNCHANGED <<i, end, outFile>>
                 ELSE /\ outFile' = SubSeq(line, start, stop - 1)
                      /\ end' = TRUE
                      /\ i' = next
                      /\ UNCHANGED pc
      BY <1>4 DEF RedirectOut
    <2>2. /\ SubSeq(line, start, stop - 1) \in Seq(Letters \cup Special)
          /\ Len(SubSeq(line, start, stop - 1)) = stop - start
      BY <2>1, <1>t, <1>l, NameType DEF FileName, NameBehind
    <2>3. /\ outFile' \in Seq(Letters \cup Special) /\ Len(outFile') <= FILE_MAX_SIZE
          /\ i' \in 1 .. Len(line) + 1 /\ end' \in BOOLEAN
      <3>1. CASE TooLong(start, stop)
        BY <1>t, <1>l, <2>1, <3>1 DEF TypeOK, Sizes
      <3>2. CASE ~TooLong(start, stop)
        <4>1. outFile' = SubSeq(line, start, stop - 1) /\ i' = next /\ end' = TRUE
          BY <2>1, <3>2
        <4>2. outFile' \in Seq(Letters \cup Special) /\ Len(outFile') <= FILE_MAX_SIZE
          BY <2>2, <3>2, <4>1 DEF TooLong
        <4> QED
          BY <1>l, <4>1, <4>2
      <3> QED
        BY <3>1, <3>2
    <2>4. TypeOK' /\ Sizes'
      BY <1>4, <1>b, <1>t, <2>1, <2>3
      DEF RedirectOut, Sees, TypeOK, Sizes, Ended
    <2>5. /\ UNCHANGED <<line, com, CommArray>> /\ pc = "loop" /\ At(i) \in Special
          /\ i' \in Nat /\ i' >= i
          /\ pc' = "rejected" \/ (pc' = "loop" /\ end')
      BY <1>4, <1>l, <2>1, <2>3 DEF RedirectOut, Sees, Special
    <2> QED
      BY <1>t, <2>4, <2>5, PassesRedirection
  <1>5. CASE Pipe
    <2>0. /\ pc = "loop" /\ Parsing /\ At(i) = "|" /\ StoreCommand("loop")
          /\ UNCHANGED <<line, redirections, boolBackground>>
      BY <1>5 DEF Pipe, Sees, Parsing
    <2>1. /\ pc' \in {"loop", "rejected", "overflow"}
          /\ \E S : CommArray' \in Seq(S)
          /\ Len(CommArray') \in 0 .. PIPE_MAX_NUM
          /\ pc' = "overflow" => Cardinality(Bars) >= PIPE_MAX_NUM
          /\ Len(CommArray') <= Len(CommArray) + 1
      BY <2>0, StoreLemma
    <2>2. i \in 1 .. Len(line) /\ line[i] = "|" /\ i \in Bars
      BY <1>t, <1>l, <2>0, ReadInside DEF Bars
    <2>3. CASE pc' = "loop"
      <3>1. com' = <<>> /\ end' = FALSE /\ i' = i + 1 /\ Len(com') = 0
        BY <1>5, <2>3 DEF Pipe
      <3>2. com' \in Seq(Letters \cup {Space}) /\ i' \in 1 .. Len(line) + 1
        BY <1>l, <2>2, <3>1
      <3>3. TypeOK'
        <4>1. UNCHANGED <<line, inFile, outFile, boolInfile, boolOutfile, boolBackground>>
          BY <2>0 DEF redirections
        <4>2. /\ line' \in Seq(Symbols) /\ inFile' \in Seq(Letters \cup Special)
              /\ outFile' \in Seq(Letters \cup Special)
              /\ boolInfile' \in Nat /\ boolOutfile' \in Nat
              /\ boolBackground' \in BOOLEAN
          BY <1>t, <4>1 DEF TypeOK
        <4>3. i' \in Nat
          BY <1>l, <3>1
        <4>4. end' \in BOOLEAN
          BY <3>1
        <4>5. pc' \in {"loop", "last"} \cup Ended
          BY <2>3
        <4> QED
          BY <2>1, <3>2, <4>2, <4>3, <4>4, <4>5 DEF TypeOK
      <3>4. Sizes'
        <4> Len(com') <= MAXLINE - 1
          BY <3>1
        <4> QED
          BY <1>t, <2>0, <2>3, <3>2 DEF redirections, Sizes
      <3>5. BarsCounted'
        <4>1. /\ Cardinality(PassedBars') \in Nat /\ Cardinality(PassedBars) \in Nat
              /\ Cardinality(PassedBars) + 1 <= Cardinality(PassedBars')
          BY <1>l, <1>t, <2>0, <2>2, <3>1, BarsFinite, MoveOn
        <4> QED
          BY <1>t, <2>0, <2>1, <4>1 DEF BarsCounted, TypeOK
      <3>6. Collecting'
        <4>1. PICK S : CommArray \in Seq(S)
          BY <1>t
        <4>2. CommArray' = Append(CommArray, Command(com))
          BY <2>0, <2>3, StoreLemma
        <4>3. PICK bar \in [1 .. Len(CommArray) -> {0} \cup Bars], own \in {0} \cup Bars :
                CommandsBehind(bar) /\ Collected(own) /\ Follows(own, bar)
          BY <1>t, <2>0 DEF Collecting
        <4>4. At(own + Len(com) + 1) \in Special \cup {"end"} /\ own < i
          BY <2>0, <4>3 DEF Collected, Special
        <4>5. PICK b \in [1 .. Len(CommArray') -> {0} \cup Bars] :
                CommandsBehind(b)' /\ \A k \in 1 .. Len(CommArray') : b[k] <= own
          BY <1>t, <2>0, <4>1, <4>2, <4>3, <4>4, StoresSegment
        <4>6. PICK next : next = i
          OBVIOUS
        <4>7. Collected(next)'
          BY <1>l, <2>0, <2>2, <2>3, <3>1, <4>6 DEF Collected
        <4>8. Follows(next, b)'
          <5>1. Len(CommArray') # 0
            <6> CommArray \in Seq(S \cup {Command(com)})
              BY <4>1
            <6> QED
              BY <4>2, AppendProperties
          <5>2. \A k \in 1 .. Len(CommArray') : b[k] \in Nat
            BY <4>5 DEF Bars
          <5>3. own \in Nat /\ own < next
            BY <4>3, <4>4, <4>6 DEF Bars
          <5>4. \A k \in 1 .. Len(CommArray') : b[k] < next
            BY <1>l, <4>5, <4>6, <5>2, <5>3
          <5> QED
            BY <5>1, <5>4 DEF Follows
        <4> QED
          BY <1>b, <2>2, <4>5, <4>6, <4>7, <4>8 DEF Collecting
      <3> QED
        BY <2>1, <3>3, <3>4, <3>5, <3>6 DEF IInv
    <2>4. CASE pc' # "loop"
      <3>1. UNCHANGED <<line, com, end, i, redirections, boolBackground>>
        BY <1>5, <2>4 DEF Pipe
      <3>2. UNCHANGED CommArray /\ pc' \in {"rejected", "overflow"}
        BY <2>0, <2>1, <2>4, StoreLemma
      <3> QED
        BY <1>b, <1>t, <2>1, <3>1, <3>2, Stops
    <2> QED
      BY <2>3, <2>4
  <1>6. CASE Text
    <2>1. i \in 1 .. Len(line) /\ At(i) = line[i] /\ At(i) \in Letters \cup {Space}
      BY <1>6, <1>t, <1>l, ReadInside, LettersAssumption DEF Text, Space
    <2>2. CASE end \/ Len(com) = MAXLINE - 1
      <3>1. /\ pc' = "rejected"
            /\ UNCHANGED <<line, com, end, i, redirections, boolBackground, CommArray>>
        BY <1>6, <2>2 DEF Text
      <3> QED
        BY <1>b, <1>t, <3>1, Stops
    <2>3. CASE ~(end \/ Len(com) = MAXLINE - 1)
      <3>1. /\ com' = Append(com, line[i]) /\ i' = i + 1 /\ pc = "loop"
            /\ UNCHANGED <<line, pc, end, redirections, boolBackground, CommArray>>
        BY <1>6, <2>1, <2>3 DEF Text
      <3>2. /\ com' \in Seq(Letters \cup {Space}) /\ Len(com') = Len(com) + 1
            /\ \A k \in 1 .. Len(com) : com'[k] = com[k]
            /\ com'[Len(com) + 1] = line[i] /\ Len(com) \in Nat
        BY <1>t, <2>1, <3>1, AppendProperties DEF TypeOK
      <3>3. TypeOK' /\ Sizes'
        BY <1>t, <1>l, <2>1, <2>3, <3>1, <3>2
        DEF redirections, TypeOK, Sizes
      <3>4. Collecting'
        <4>1. ASSUME NEW own \in {0} \cup Bars, Collected(own) PROVE Collected(own)'
          <5>1. /\ own \in Nat /\ own + Len(com) <= Len(line) /\ i = own + Len(com) + 1
                /\ \A k \in 1 .. Len(com) :
                      com[k] = line[own + k] /\ line[own + k] \notin Special
            BY <2>3, <3>1, <4>1 DEF Collected, Bars
          <5>2. line[i] \notin Special
            BY <2>1, LettersAssumption DEF Special, Space
          <5>3. ASSUME NEW k \in 1 .. Len(com')
                PROVE  com'[k] = line[own + k] /\ line[own + k] \notin Special
            <6>1. CASE k \in 1 .. Len(com)
              BY <3>2, <5>1, <6>1
            <6>2. CASE k = Len(com) + 1
              <7> own + k = i
                BY <3>2, <5>1, <6>2
              <7> QED
                BY <3>2, <5>2, <6>2
            <6> QED
              BY <3>2, <6>1, <6>2
          <5>4. /\ own < i' /\ own + Len(com') <= Len(line)
                /\ i' = own + Len(com') + 1
            BY <1>l, <2>1, <3>1, <3>2, <5>1
          <5> QED
            BY <2>3, <3>1, <5>3, <5>4 DEF Collected
        <4>2. Parsing /\ UNCHANGED <<line, CommArray>>
          BY <3>1 DEF Parsing
        <4> QED
          BY <1>t, <4>1, <4>2, KeepsCommands
      <3>5. BarsCounted'
        <4> i' \in Nat /\ i' >= i /\ Parsing
          BY <1>l, <3>1 DEF Parsing
        <4> QED
          BY <1>t, <3>1, CountKept
      <3> QED
        BY <1>t, <3>1, <3>3, <3>4, <3>5 DEF IInv
    <2> QED
      BY <2>2, <2>3
  <1>7. CASE LastCommand
    <2>0. /\ pc = "last" /\ Parsing /\ StoreCommand("accepted")
          /\ UNCHANGED <<line, i, com, end, redirections, boolBackground>>
      BY <1>7 DEF LastCommand, Parsing
    <2>1. /\ pc' \in {"accepted", "rejected", "overflow"}
          /\ \E S : CommArray' \in Seq(S)
          /\ Len(CommArray') \in 0 .. PIPE_MAX_NUM
          /\ pc' = "overflow" => Cardinality(Bars) >= PIPE_MAX_NUM
      BY <2>0, StoreLemma
    <2>2. CASE pc' = "accepted"
      <3>1. TypeOK' /\ Sizes'
        BY <1>b, <1>t, <2>0, <2>1, <2>2
        DEF redirections, TypeOK, Sizes, Ended
      <3>2. BarsCounted'
        BY <2>2 DEF BarsCounted, Parsing
      <3>3. Collecting'
        <4>1. PICK S : CommArray \in Seq(S)
          BY <1>t
        <4>2. CommArray' = Append(CommArray, Command(com))
          BY <2>0, <2>2, StoreLemma
        <4>3. PICK bar \in [1 .. Len(CommArray) -> {0} \cup Bars], own \in {0} \cup Bars :
                CommandsBehind(bar) /\ Collected(own) /\ Follows(own, bar)
          BY <1>t, <2>0 DEF Collecting
        <4>4. At(own + Len(com) + 1) \in Special \cup {"end"}
          BY <2>0, <4>3 DEF Collected
        <4>5. PICK b \in [1 .. Len(CommArray') -> {0} \cup Bars] : CommandsBehind(b)'
          BY <1>t, <2>0, <4>1, <4>2, <4>3, <4>4, StoresSegment
        <4> QED
          BY <1>b, <2>2, <4>5 DEF Collecting, Parsing
      <3> QED
        BY <2>1, <3>1, <3>2, <3>3 DEF IInv
    <2>3. CASE pc' # "accepted"
      <3>1. UNCHANGED CommArray /\ pc' \in {"rejected", "overflow"}
        BY <2>0, <2>1, <2>3, StoreLemma
      <3> QED
        BY <1>b, <1>t, <2>0, <2>1, <3>1, Stops
    <2> QED
      BY <2>2, <2>3
  <1>8. CASE UNCHANGED vars
    <2>1. TypeOK' /\ Sizes'
      BY <1>8, <1>b, <1>t DEF vars, TypeOK, Sizes
    <2>2. BarsCounted'
      BY <1>8, <1>b, <1>t DEF vars, BarsCounted, PassedBars, Parsing
    <2>3. Collecting'
      <3>1. ASSUME NEW own \in {0} \cup Bars, Collected(own) PROVE Collected(own)'
        BY <1>8, <3>1 DEF vars, Collected, At
      <3> QED
        BY <1>8, <1>t, <3>1, KeepsCommands DEF vars, Parsing
    <2> QED
      BY <1>8, <1>t, <2>1, <2>2, <2>3 DEF vars, IInv
  <1> QED
    BY <1>1, <1>2, <1>3, <1>4, <1>5, <1>6, <1>7, <1>8 DEF Next

THEOREM Inductive == Spec => []IInv
  BY InitIInv, NextIInv, PTL DEF Spec

\* Every variable of parse() has its type (parse.c:109-249).
THEOREM TypeCorrect == Spec => []TypeOK
  <1>1. IInv => TypeOK
    BY DEF IInv
  <1> QED
    BY <1>1, Inductive, PTL

-----------------------------------------------------------------------------
(* What the stores past an array cost *)

\* A command that is not rejected has at most MAX_VAR_NUM words, and VarNum is
\* their number unless it is MAX_VAR_NUM
LEMMA CommandCounted ==
  ASSUME NEW t \in Seq(Letters \cup {Space}), ~TooManyWords(t)
  PROVE  LET words == Len(Command(t).VarList)
         IN /\ words <= MAX_VAR_NUM
            /\ Command(t).VarNum = IF words = MAX_VAR_NUM THEN 0 ELSE words
  <1>1. Len(t) \in Nat /\ WordStarts(t) \in SUBSET (1 .. Len(t))
    BY DEF WordStarts
  <1>2. IsFiniteSet(WordStarts(t)) /\ Cardinality(WordStarts(t)) \in Nat
    <2>1. IsFiniteSet(1 .. Len(t))
      BY <1>1, FS_Interval
    <2>2. IsFiniteSet(WordStarts(t))
      BY <1>1, <2>1, FS_Subset
    <2> QED
      BY <2>2, FS_CardinalityType
  <1>3. PICK m \in Nat : m = Cardinality(WordStarts(t))
    BY <1>2
  <1>4. PICK words : words = Words(t)
    OBVIOUS
  <1>5. words = [k \in 1 .. m |-> words[k]]
    BY <1>3, <1>4 DEF Words
  <1>6. words \in Seq({words[k] : k \in 1 .. m}) /\ Len(words) = m
    <2>1. PICK S : S = {words[k] : k \in 1 .. m}
      OBVIOUS
    <2>2. words \in [1 .. m -> S]
      BY <1>5, <2>1
    <2>3. words \in Seq(S) /\ Len(words) = m
      BY <1>3, <2>2
    <2> QED
      BY <2>1, <2>3
  <1>7. m <= MAX_VAR_NUM
    BY <1>3 DEF TooManyWords
  <1> QED
    BY <1>4, <1>6, <1>7 DEF Command

LEMMA StoreCounted ==
  ASSUME IInv, WordCounts, NEW ok, StoreCommand(ok)
  PROVE  WordCounts'
  <1>1. CASE UNCHANGED CommArray
    BY <1>1 DEF WordCounts
  <1>2. CASE CommArray' = Append(CommArray, Command(com)) /\ ~TooManyWords(com)
    <2>1. PICK S : CommArray \in Seq(S)
      BY DEF IInv
    <2>2. CommArray \in Seq(S \cup {Command(com)})
      BY <2>1
    <2>3. /\ Len(CommArray') = Len(CommArray) + 1 /\ Len(CommArray) \in Nat
          /\ CommArray'[Len(CommArray) + 1] = Command(com)
          /\ \A k \in 1 .. Len(CommArray) : CommArray'[k] = CommArray[k]
      BY <1>2, <2>2, AppendProperties
    <2>4. com \in Seq(Letters \cup {Space})
      BY DEF IInv, TypeOK
    <2>5. ASSUME NEW k \in 1 .. Len(CommArray')
          PROVE  LET words == Len(CommArray'[k].VarList)
                 IN /\ words <= MAX_VAR_NUM
                    /\ CommArray'[k].VarNum = IF words = MAX_VAR_NUM THEN 0 ELSE words
      <3>1. CASE k \in 1 .. Len(CommArray)
        BY <2>3, <3>1 DEF WordCounts
      <3>2. CASE k = Len(CommArray) + 1
        BY <1>2, <2>3, <2>4, <3>2, CommandCounted
      <3> QED
        BY <2>3, <3>1, <3>2
    <2> QED
      BY <2>5 DEF WordCounts
  <1> QED
    BY <1>1, <1>2 DEF StoreCommand

LEMMA NextCounts == IInv /\ WordCounts /\ [Next]_vars => WordCounts'
  <1> SUFFICES ASSUME IInv, WordCounts, [Next]_vars PROVE WordCounts'
    OBVIOUS
  <1>1. CASE Pipe \/ LastCommand
    BY <1>1, StoreCounted DEF Pipe, LastCommand
  <1>2. CASE UNCHANGED CommArray
    BY <1>2 DEF WordCounts
  <1> QED
    BY <1>1, <1>2 DEF Next, EndOfLine, Background, RedirectIn, RedirectOut, Text, vars

\* The file names of the line do not change
LEMMA SameNames ==
  ASSUME line' = line, NEW c, NEW length
  PROVE  NameOfLength(c, length)' <=> NameOfLength(c, length)
  BY DEF NameOfLength, NameBehind, OnlySpaces, NoSpace, At

LEMMA NextName == IInv /\ OutputNameKept /\ [Next]_vars => OutputNameKept'
  <1> SUFFICES ASSUME IInv, OutputNameKept, [Next]_vars,
                      boolOutfile' > 0, outFile' = <<>>, pc' # "rejected"
               PROVE  (NameOfLength("<", FILE_MAX_SIZE) \/ NameOfLength(">", 0))'
    BY DEF OutputNameKept
  <1>l. line' = line /\ line \in Seq(Symbols) /\ Len(line) \in Nat /\ i \in 1 .. Len(line) + 1
    BY DEF IInv, TypeOK, Sizes, Next, vars, EndOfLine, Background, RedirectIn, RedirectOut,
           Pipe, Text, LastCommand
  <1> SUFFICES NameOfLength("<", FILE_MAX_SIZE) \/ NameOfLength(">", 0)
    BY <1>l, SameNames
  <1>1. CASE boolOutfile > 0 /\ outFile = <<>> /\ pc # "rejected"
    BY <1>1 DEF OutputNameKept
  <1>2. CASE RedirectIn
    <2>1. PICK start \in i + 1 .. Len(line) + 1, stop \in i + 1 .. Len(line) + 1,
               next \in i + 1 .. Len(line) + 1 :
            /\ FileName(start, stop, next)
            /\ outFile' = IF stop - start = FILE_MAX_SIZE THEN <<>> ELSE outFile
      BY <1>2 DEF RedirectIn
    <2>2. At(i) = "<" /\ pc = "loop" /\ UNCHANGED boolOutfile
      BY <1>2 DEF RedirectIn, Sees
    <2>3. CASE stop - start = FILE_MAX_SIZE
      <3>1. start \in 1 .. Len(line) + 1 /\ stop \in 1 .. Len(line) + 1
        BY <1>l, <2>1
      <3> QED
        BY <1>l, <2>1, <2>2, <2>3, <3>1 DEF FileName, NameOfLength
    <2>4. CASE stop - start # FILE_MAX_SIZE
      BY <1>1, <2>1, <2>2, <2>4
    <2> QED
      BY <2>3, <2>4
  <1>3. CASE RedirectOut
    <2>1. PICK start \in i + 1 .. Len(line) + 1, stop \in i + 1 .. Len(line) + 1,
               next \in i + 1 .. Len(line) + 1 :
            FileName(start, stop, next) /\ outFile' = SubSeq(line, start, stop - 1)
      BY <1>3 DEF RedirectOut
    <2>2. Len(outFile') = stop - start
      BY <1>l, <2>1, NameType DEF IInv, FileName, NameBehind
    <2>3. stop - start = 0
      BY <2>2
    <2>4. At(i) = ">" /\ start \in 1 .. Len(line) + 1 /\ stop \in 1 .. Len(line) + 1
      BY <1>3, <1>l, <2>1 DEF RedirectOut, Sees
    <2> QED
      BY <1>l, <2>1, <2>3, <2>4 DEF FileName, NameOfLength
  <1>4. CASE UNCHANGED <<boolOutfile, outFile>> /\ pc # "rejected"
    BY <1>1, <1>4
  <1>5. CASE UNCHANGED vars
    BY <1>1, <1>5 DEF vars
  <1> QED
    BY <1>2, <1>3, <1>4, <1>5
    DEF Next, EndOfLine, Background, Pipe, Text, LastCommand, redirections, Sees

\* For a line of any length the stores of parse() leave their arrays in four places
\* only: behind CommArray with PIPE_MAX_NUM bars, behind VarList with MAX_VAR_NUM
\* words, whose count is lost, and behind inFile and outFile with names of
\* FILE_MAX_SIZE characters.  The name of the output file is lost behind such an
\* inFile and in no other way (parse.c:90, 130-240).
THEOREM OverrunsAreKnown == Spec => []Overruns
  <1>1. Init => WordCounts /\ OutputNameKept
    <2> SUFFICES ASSUME Init PROVE WordCounts /\ OutputNameKept
      OBVIOUS
    <2>1. Len(CommArray) = 0 /\ boolOutfile = 0
      BY DEF Init
    <2> QED
      BY <2>1 DEF WordCounts, OutputNameKept
  <1>2. IInv => Sizes
    BY DEF IInv
  <1>3. Spec => []WordCounts
    BY <1>1, NextCounts, Inductive, PTL DEF Spec
  <1>4. Spec => []OutputNameKept
    BY <1>1, NextName, Inductive, PTL DEF Spec
  <1>5. Sizes /\ WordCounts /\ OutputNameKept => Overruns
    BY DEF Overruns
  <1> QED
    BY <1>2, <1>3, <1>4, <1>5, Inductive, PTL

\* The commands of a line of any length are its texts between bars, whole and in
\* order: no word of one command enters another, and no file name enters a
\* command (parse.c:144-215, 234-240).
THEOREM CommandsComeFromLine == Spec => []CommandsAreSegments
  <1>1. IInv => CommandsAreSegments
    BY DEF IInv, Collecting, CommandsAreSegments
  <1> QED
    BY <1>1, Inductive, PTL
=============================================================================
