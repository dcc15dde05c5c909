------------------------------- MODULE Parser ------------------------------
(***************************************************************************)
(* parse() of parse.c: one pass over a command line, one action per        *)
(* iteration of its loop, and parse_command(), which splits the text       *)
(* collected for one command into words.                                   *)
(*                                                                         *)
(* A line is a sequence of symbols: the four characters parse() tests for, *)
(* a space, and ordinary characters.  Position Len(line) + 1 holds the     *)
(* terminating zero.  The limits are constants; the code's are in parse.h  *)
(* and at the top of parse.c.                                              *)
(***************************************************************************)
EXTENDS Integers, Sequences, FiniteSets

CONSTANTS
  Letters,        \* ordinary characters
  Lines,          \* the lines given to parse()
  MAXLINE,        \* 81: length of the buffer command[]
  MAX_VAR_NUM,    \* 11: length of VarList[]
  PIPE_MAX_NUM,   \* 11: length of CommArray[]
  FILE_MAX_SIZE   \* 41: length of inFile[] and of outFile[]

Space == " "
Special == {"<", ">", "|", "&"}
Symbols == Letters \cup Special \cup {Space}

ASSUME LettersAssumption == Letters \cap (Special \cup {Space, "end"}) = {}
ASSUME LinesAssumption == Lines \subseteq Seq(Symbols)
ASSUME LimitsAssumption ==
  /\ MAXLINE \in Nat \ {0} /\ MAX_VAR_NUM \in Nat \ {0}
  /\ PIPE_MAX_NUM \in Nat \ {0} /\ FILE_MAX_SIZE \in Nat \ {0}

VARIABLES
  line,         \* cmdline
  i,            \* the index of the outer loop, from 1
  pc,           \* "loop", "last", or how parse() ended
  com,          \* command[0 .. com_pos - 1]
  end,          \* the flag end: a redirection was read for this command
  inFile, outFile,
  boolInfile, boolOutfile, boolBackground,
  CommArray     \* the commands stored so far; pipeNum is the number of them

vars == <<line, i, pc, com, end, inFile, outFile,
          boolInfile, boolOutfile, boolBackground, CommArray>>
redirections == <<inFile, outFile, boolInfile, boolOutfile>>

\* "overflow" is a store past CommArray, whose effect is undefined
Ended == {"accepted", "rejected", "overflow"}

Init ==
  /\ line \in Lines /\ i = 1 /\ pc = "loop"
  /\ com = <<>> /\ end = FALSE
  /\ inFile = <<>> /\ outFile = <<>>
  /\ boolInfile = 0 /\ boolOutfile = 0 /\ boolBackground = FALSE
  /\ CommArray = <<>>

-----------------------------------------------------------------------------
(* parse_command *)

\* The positions where a word of t starts, and the word at a start
WordStarts(t) == {k \in 1 .. Len(t) : t[k] # Space /\ (k = 1 \/ t[k - 1] = Space)}
WordAt(t, k) ==
  SubSeq(t, k, CHOOSE e \in k .. Len(t) :
                 /\ e = Len(t) \/ t[e + 1] = Space
                 /\ \A m \in k .. e : t[m] # Space)

\* VarList of a text: its words from left to right
Words(t) ==
  LET starts == WordStarts(t)
      Nth(k) == CHOOSE p \in starts : Cardinality({q \in starts : q < p}) = k - 1
  IN [k \in 1 .. Cardinality(starts) |-> WordAt(t, Nth(k))]

TooManyWords(t) == Cardinality(WordStarts(t)) > MAX_VAR_NUM

\* A text without a word is a command that is NULL, and is no error.  With
\* MAX_VAR_NUM words the NULL that ends VarList is stored over VarNum.
Command(t) ==
  LET words == Words(t)
  IN [VarList |-> words,
      VarNum  |-> IF Len(words) = MAX_VAR_NUM THEN 0 ELSE Len(words)]

\* parse_command(command, &Result->CommArray[pipeNum]), then ok
StoreCommand(ok) ==
  IF Len(CommArray) >= PIPE_MAX_NUM
    THEN pc' = "overflow" /\ UNCHANGED CommArray
    ELSE IF TooManyWords(com)
      THEN pc' = "rejected" /\ UNCHANGED CommArray
      ELSE pc' = ok /\ CommArray' = Append(CommArray, Command(com))

-----------------------------------------------------------------------------
(* The loop over the line *)

At(k) == IF k <= Len(line) THEN line[k] ELSE "end"

Sees(c) == pc = "loop" /\ At(i) = c

\* Between two positions there are only spaces, or no space
OnlySpaces(from, to) == \A k \in from .. to - 1 : At(k) = Space
NoSpace(from, to) == \A k \in from .. to - 1 : At(k) # Space

\* The file name behind a redirection character at p is [start, stop): it goes on
\* to the next space, whatever else comes behind it
NameBehind(p, start, stop) ==
  /\ p < start /\ start <= stop
  /\ OnlySpaces(p + 1, start) /\ At(start) # Space
  /\ NoSpace(start, stop) /\ At(stop) \in {Space, "end"}

\* next is the first position after it that is not a space
FileName(start, stop, next) ==
  /\ NameBehind(i, start, stop) /\ stop <= next
  /\ OnlySpaces(stop, next) /\ At(next) # Space

TooLong(start, stop) == stop - start > FILE_MAX_SIZE

EndOfLine ==
  /\ Sees("end")
  /\ pc' = "last"
  /\ UNCHANGED <<line, i, com, end, redirections, boolBackground, CommArray>>

\* Anything beyond & is ignored
Background ==
  /\ Sees("&")
  /\ boolBackground' = TRUE
  /\ pc' = "last"
  /\ UNCHANGED <<line, i, com, end, redirections, CommArray>>

\* The zero that ends a name of FILE_MAX_SIZE characters is stored in the
\* byte after inFile, which is outFile[0]
RedirectIn ==
  /\ Sees("<")
  /\ boolInfile' = boolInfile + 1
  /\ \E start, stop, next \in i + 1 .. Len(line) + 1 :
       /\ FileName(start, stop, next)
       /\ IF TooLong(start, stop)
            THEN /\ pc' = "rejected"
                 /\ UNCHANGED <<i, end, inFile, outFile>>
            ELSE /\ inFile' = SubSeq(line, start, stop - 1)
                 /\ outFile' = IF stop - start = FILE_MAX_SIZE THEN <<>> ELSE outFile
                 /\ end' = TRUE
                 /\ i' = next
                 /\ UNCHANGED pc
  /\ UNCHANGED <<line, com, boolOutfile, boolBackground, CommArray>>

\* The byte after outFile is padding
RedirectOut ==
  /\ Sees(">")
  /\ boolOutfile' = boolOutfile + 1
  /\ \E start, stop, next \in i + 1 .. Len(line) + 1 :
       /\ FileName(start, stop, next)
       /\ IF TooLong(start, stop)
            THEN pc' = "rejected" /\ UNCHANGED <<i, end, outFile>>
            ELSE /\ outFile' = SubSeq(line, start, stop - 1)
                 /\ end' = TRUE
                 /\ i' = next
                 /\ UNCHANGED pc
  /\ UNCHANGED <<line, com, inFile, boolInfile, boolBackground, CommArray>>

\* Mutants of Pipe: the flag end is not reset; the text is not reset
PipeKeepsEnd ==
  /\ Sees("|")
  /\ StoreCommand("loop")
  /\ IF pc' = "loop" THEN com' = <<>> /\ i' = i + 1 ELSE UNCHANGED <<com, i>>
  /\ UNCHANGED <<line, end, redirections, boolBackground>>

PipeKeepsText ==
  /\ Sees("|")
  /\ StoreCommand("loop")
  /\ IF pc' = "loop" THEN end' = FALSE /\ i' = i + 1 ELSE UNCHANGED <<end, i>>
  /\ UNCHANGED <<line, com, redirections, boolBackground>>

Pipe ==
  /\ Sees("|")
  /\ StoreCommand("loop")
  /\ IF pc' = "loop"
       THEN com' = <<>> /\ end' = FALSE /\ i' = i + 1
       ELSE UNCHANGED <<com, end, i>>
  /\ UNCHANGED <<line, redirections, boolBackground>>

\* Mutants of Text: a character after a redirection is passed over without
\* moving on; the text is not bounded by its buffer
TextStuck ==
  /\ pc = "loop" /\ At(i) \in Letters \cup {Space}
  /\ ~end
  /\ IF Len(com) = MAXLINE - 1
       THEN pc' = "rejected" /\ UNCHANGED <<com, i>>
       ELSE com' = Append(com, At(i)) /\ i' = i + 1 /\ UNCHANGED pc
  /\ UNCHANGED <<line, end, redirections, boolBackground, CommArray>>

TextOneMore ==
  /\ pc = "loop" /\ At(i) \in Letters \cup {Space}
  /\ IF end \/ Len(com) = MAXLINE
       THEN pc' = "rejected" /\ UNCHANGED <<com, i>>
       ELSE com' = Append(com, At(i)) /\ i' = i + 1 /\ UNCHANGED pc
  /\ UNCHANGED <<line, end, redirections, boolBackground, CommArray>>

\* Text after a redirection is an error, and so is more text than fits
Text ==
  /\ pc = "loop" /\ At(i) \in Letters \cup {Space}
  /\ IF end \/ Len(com) = MAXLINE - 1
       THEN pc' = "rejected" /\ UNCHANGED <<com, i>>
       ELSE com' = Append(com, At(i)) /\ i' = i + 1 /\ UNCHANGED pc
  /\ UNCHANGED <<line, end, redirections, boolBackground, CommArray>>

LastCommand ==
  /\ pc = "last"
  /\ StoreCommand("accepted")
  /\ UNCHANGED <<line, i, com, end, redirections, boolBackground>>

Next == EndOfLine \/ Background \/ RedirectIn \/ RedirectOut \/ Pipe \/ Text
          \/ LastCommand

Spec == Init /\ [][Next]_vars

\* parse() runs to its end without waiting for anything
FairSpec == Spec /\ WF_vars(Next)

-----------------------------------------------------------------------------
(* Properties *)

Bars == {k \in 1 .. Len(line) : line[k] = "|"}

\* Every variable has its type; file names hold no space and command texts no
\* special character (parse.c:130-236).
TypeOK ==
  /\ line \in Seq(Symbols) /\ i \in Nat /\ pc \in {"loop", "last"} \cup Ended
  /\ com \in Seq(Letters \cup {Space}) /\ end \in BOOLEAN
  /\ inFile \in Seq(Letters \cup Special) /\ outFile \in Seq(Letters \cup Special)
  /\ boolInfile \in Nat /\ boolOutfile \in Nat /\ boolBackground \in BOOLEAN
  /\ Len(CommArray) \in 0 .. PIPE_MAX_NUM

\* The text of a command fits command[] with its zero; a file name fits its array,
\* but its zero only if it is shorter than FILE_MAX_SIZE; the index stays on the
\* line; and only a line of PIPE_MAX_NUM bars makes pipeNum pass CommArray
Sizes ==
  /\ Len(com) <= MAXLINE - 1
  /\ Len(inFile) <= FILE_MAX_SIZE /\ Len(outFile) <= FILE_MAX_SIZE
  /\ i \in 1 .. Len(line) + 1
  /\ pc = "overflow" => Cardinality(Bars) >= PIPE_MAX_NUM

\* VarList is filled up by commands of MAX_VAR_NUM words only, and the NULL stored
\* behind it costs those, and no others, the count of their words
WordCounts ==
  \A k \in 1 .. Len(CommArray) :
    LET words == Len(CommArray[k].VarList)
    IN /\ words <= MAX_VAR_NUM
       /\ CommArray[k].VarNum = IF words = MAX_VAR_NUM THEN 0 ELSE words

\* The line names a file of this length behind a c
NameOfLength(c, length) ==
  \E p, start, stop \in 1 .. Len(line) + 1 :
    At(p) = c /\ NameBehind(p, start, stop) /\ stop - start = length

\* The zero stored behind inFile costs the name of the output file, which is lost
\* in no other way: it is empty only if the line has nothing behind a >
OutputNameKept ==
  boolOutfile > 0 /\ outFile = <<>> /\ pc # "rejected" =>
    NameOfLength("<", FILE_MAX_SIZE) \/ NameOfLength(">", 0)

\* The stores of parse() that leave their arrays, and what they cost.  A text and
\* its zero fit command[] (parse.c:226-238).  CommArray is passed by a line of
\* PIPE_MAX_NUM bars only (parse.c:203, 240).  The NULL behind MAX_VAR_NUM words
\* takes the place of their count (parse.c:90).  The zero behind a file name of
\* FILE_MAX_SIZE characters, one more than the message of parse.c:153 allows, is
\* stored outside; behind inFile it wipes out outFile (parse.c:151-161).
Overruns == Sizes /\ WordCounts /\ OutputNameKept

\* The text behind position p of the line, up to to: it ends where the line
\* does or at a special character
IsText(p, to) ==
  /\ \A k \in p + 1 .. to : line[k] \notin Special
  /\ At(to + 1) \in Special \cup {"end"}

\* Command k is made of the text behind bar[k]; the line has a bar before it
CommandsBehind(bar) ==
  \A k \in 1 .. Len(CommArray) :
    /\ k = 1 => bar[k] = 0
    /\ \A m \in 1 .. k - 1 : bar[m] < bar[k]
    /\ \E to \in bar[k] .. Len(line) :
         /\ IsText(bar[k], to)
         /\ CommArray[k] = Command(SubSeq(line, bar[k] + 1, to))

\* Each stored command is made of the whole text behind a bar of its own, the
\* first of the text the line begins with, and the commands are in the order of
\* their bars: no text is stored twice, none is cut short, and no file name
\* enters a command's words (parse.c:144-215, 234-240).
CommandsAreSegments ==
  \E bar \in [1 .. Len(CommArray) -> {0} \cup Bars] : CommandsBehind(bar)

\* Every line comes to an end of the parse: no iteration of the loop leaves the
\* index where it was (parse.c:130-236).
Terminates == <>(pc \in Ended)
=============================================================================
