---------------------------- MODULE ParserGrammar --------------------------
(***************************************************************************)
(* The syntax that parse.c states in its header,                           *)
(*    command1 [< infile] [| command]* [> outfile] [&]                     *)
(* as a set of structures and the lines that spell them, and the claim     *)
(* that parse() recovers from such a line the structure it spells.         *)
(***************************************************************************)
EXTENDS Parser

CONSTANTS
  WordLists,            \* the commands, each a list of words
  InNames, OutNames,    \* the names of input and of output files
  Beyond                \* what may follow &

\* A command with spaces around it or without, and a file name: with a space on
\* either side ("wide"), behind it only ("set off") or on neither ("tight")
Spellings == [words : WordLists, padded : BOOLEAN]

NoName == [name |-> <<>>, gap |-> "wide"]
Redirections(names) ==
  {NoName} \cup [name : names, gap : {"wide", "set off", "tight"}]

Structures ==
  [commands : UNION {[1 .. n -> Spellings] : n \in 1 .. PIPE_MAX_NUM},
   infile : Redirections(InNames), outfile : Redirections(OutNames),
   tail : {<<>>} \cup {<<"&">> \o b : b \in Beyond}]

\* The line a structure spells: infile follows the first command
Spell(c) ==
  LET joined[k \in 1 .. Len(c.words)] ==
        IF k = 1 THEN c.words[1] ELSE joined[k - 1] \o <<Space>> \o c.words[k]
      text == joined[Len(c.words)]
  IN IF c.padded THEN <<Space>> \o text \o <<Space>> ELSE text

Redirect(c, f) ==
  CASE f = NoName -> <<>>
    [] f # NoName /\ f.gap = "wide" -> <<c, Space>> \o f.name \o <<Space>>
    [] f # NoName /\ f.gap = "set off" -> <<c>> \o f.name \o <<Space>>
    [] f # NoName /\ f.gap = "tight" -> <<c>> \o f.name

Render(s) ==
  LET upTo[n \in 1 .. Len(s.commands)] ==
        IF n = 1 THEN Spell(s.commands[1]) \o Redirect("<", s.infile)
                 ELSE upTo[n - 1] \o <<"|">> \o Spell(s.commands[n])
  IN upTo[Len(s.commands)] \o Redirect(">", s.outfile) \o s.tail

\* What comes right behind the redirections of a line, and whether a file name
\* runs on into it
BehindOut(s) == IF s.tail = <<>> THEN "end" ELSE "&"
BehindIn(s) ==
  IF Len(s.commands) > 1 THEN "|" ELSE IF s.outfile # NoName THEN ">" ELSE BehindOut(s)

RunsOn(f, behind) == f # NoName /\ f.gap = "tight" /\ behind # "end"

Rendered == {[line |-> Render(s), structure |-> s] : s \in Structures}
RenderedLines == {r.line : r \in Rendered}

\* What the parse of a line yields is what s spells; only the number of words of a
\* command of MAX_VAR_NUM words reads 0
Yields(s) ==
  /\ pc = "accepted"
  /\ [k \in DOMAIN CommArray |-> CommArray[k].VarList]
       = [k \in DOMAIN s.commands |-> s.commands[k].words]
  /\ \A k \in DOMAIN CommArray :
       LET words == Len(CommArray[k].VarList)
       IN CommArray[k].VarNum = IF words = MAX_VAR_NUM THEN 0 ELSE words
  /\ inFile = s.infile.name /\ outFile = s.outfile.name
  /\ boolInfile = (IF s.infile = NoName THEN 0 ELSE 1)
  /\ boolOutfile = (IF s.outfile = NoName THEN 0 ELSE 1)
  /\ boolBackground = (s.tail # <<>>)

\* A file name has taken in the character behind it
Grown(file, f, behind) ==
  RunsOn(f, behind) /\ SubSeq(file, 1, Len(f.name) + 1) = Append(f.name, behind)

\* A line of the documented syntax with up to MAX_VAR_NUM words in a command yields
\* the commands, words, file names and background flag that it spells, with or
\* without spaces around commands and before file names and whatever follows &,
\* and loses a command's word count just at MAX_VAR_NUM (parse.c:5, 90, 128-248).
\* The exception is a file name with |, > or & right behind it: it takes that
\* character in, or the line is rejected (parse.c:149-159, 177-188).
ParsesGrammar ==
  pc \in Ended /\ line \in RenderedLines =>
    \A r \in Rendered : r.line = line =>
      LET s == r.structure
      IN IF RunsOn(s.infile, BehindIn(s)) \/ RunsOn(s.outfile, BehindOut(s))
           THEN \/ pc = "rejected"
                \/ Grown(inFile, s.infile, BehindIn(s))
                \/ Grown(outFile, s.outfile, BehindOut(s))
           ELSE Yields(s)
=============================================================================
