---------------------------- MODULE FileTransfer ---------------------------
(***************************************************************************)
(* The file transfer of sendClient.c and recServer.c.                      *)
(*                                                                         *)
(* The client sends the name of the file on one connection, then starts    *)
(* NUM_THREAD threads.  Each opens a connection of its own and sends one   *)
(* piece of the file.  Which piece it is depends on two shared variables,  *)
(* threadNum and extraBytes; the lock around them is commented out         *)
(* (sendClient.c:123,129), so every access is a step of its own, in the    *)
(* order of the program text.                                              *)
(*                                                                         *)
(* The server takes the first connection for the name and the next         *)
(* NUM_THREAD for pieces, numbers the pieces in the order of the accepts   *)
(* and writes them one after the other.  A byte of the file is its index,  *)
(* a piece is an interval of the file.  The server is started first, in a  *)
(* directory without files of an earlier transfer; one client runs.  Of    *)
(* the name, of at most 19 characters, only its second part counts.        *)
(***************************************************************************)
EXTENDS Integers, Sequences

CONSTANTS
  NUM_THREAD,   \* 5: the threads of the client, MAX_THREAD of the server
  Sizes,        \* sizes of the file, not less than NUM_THREAD bytes
  Capacity      \* 62: the bytes the server reads of a piece

ASSUME NumThreadAssumption == NUM_THREAD \in Nat \ {0}
ASSUME SizesAssumption == Sizes \subseteq Nat /\ \A n \in Sizes : n >= NUM_THREAD
ASSUME CapacityAssumption == Capacity \in Nat \ {0}

Threads == 0 .. NUM_THREAD - 1

VARIABLES
  size,        \* the size of the file
  name,        \* the part of its name behind the first dot: see Names
  main,        \* the statement main() of the client executes next
  created,     \* the threads it has created
  tpc,         \* the statement each thread executes next
  chunk,       \* as in the code, one per thread
  offset,      \* where the thread's descriptor points
  loaded,      \* threadNum, loaded to be incremented
  threadNum,   \* as in the code
  extraBytes,  \* as in the code
  sent,        \* the piece each thread has written to its socket
  conns,       \* the threads in the order of their connects
  server,      \* the statement the server executes next
  pieces,      \* the files sf0, sf1, ...
  copied,      \* how many of them have been copied, i of the last loop
  merged       \* the merge file

threadVars == <<chunk, offset, loaded, threadNum, extraBytes, sent>>
clientVars == <<main, created, tpc, threadVars, conns>>
serverVars == <<server, pieces, copied, merged>>
vars == <<size, name, clientVars, serverVars>>

\* It has up to three characters, so that it fits file_format, more, or it is none
Names == {"short", "long", "none"}

Piece == [from : Nat, len : Nat]
NoPiece == [from |-> 0, len |-> 0]
Bytes(p) == [k \in 1 .. p.len |-> p.from + k - 1]

Init ==
  /\ size \in Sizes /\ name \in Names
  /\ main = "connect" /\ created = 0
  /\ tpc = [t \in Threads |-> "none"]
  /\ chunk = [t \in Threads |-> 0]
  /\ offset = [t \in Threads |-> 0]
  /\ loaded = [t \in Threads |-> 0]
  /\ threadNum = 0 /\ extraBytes = 0
  /\ sent = [t \in Threads |-> NoPiece]
  /\ conns = <<>>
  /\ server = "listen" /\ pieces = <<>> /\ copied = 0 /\ merged = <<>>

-----------------------------------------------------------------------------
(* main() of the client *)

MainGoes(from, to) == main = from /\ main' = to

\* The socket for the name
ConnectMain ==
  /\ MainGoes("connect", "open")
  /\ UNCHANGED <<size, name, created, tpc, threadVars, conns, serverVars>>

\* The file can be opened: its name is written to the socket
SendName ==
  /\ MainGoes("open", "create")
  /\ UNCHANGED <<size, name, created, tpc, threadVars, conns, serverVars>>

\* It cannot: exit, with the connection already made
NoSuchFile ==
  /\ MainGoes("open", "failed")
  /\ UNCHANGED <<size, name, created, tpc, threadVars, conns, serverVars>>

CreateThread ==
  /\ main = "create"
  /\ tpc' = [tpc EXCEPT ![created] = "connect"]
  /\ created' = created + 1
  /\ main' = IF created' = NUM_THREAD THEN "join" ELSE "create"
  /\ UNCHANGED <<size, name, threadVars, conns, serverVars>>

\* All threads are joined and the process exits, which closes its sockets
JoinThreads ==
  /\ MainGoes("join", "finished")
  /\ \A t \in Threads : tpc[t] = "exited"
  /\ UNCHANGED <<size, name, created, tpc, threadVars, conns, serverVars>>

\* A thread finds the server gone: exit(1) when its connect is refused, SIGPIPE
\* when its connection was reset before it writes
ServerGone ==
  /\ server = "crashed" /\ main # "failed"
  /\ \E t \in Threads : tpc[t] \in {"connect", "send"}
  /\ main' = "failed"
  /\ UNCHANGED <<size, name, created, tpc, threadVars, conns, serverVars>>

-----------------------------------------------------------------------------
(* chunkin() of the client *)

\* A thread runs on while its process does
Goes(t, from, to) ==
  /\ tpc[t] = from /\ main # "failed"
  /\ tpc' = [tpc EXCEPT ![t] = to]
  /\ UNCHANGED <<size, name, main, created, serverVars>>

createSock(t) ==
  /\ Goes(t, "connect", "size") /\ server # "crashed"
  /\ conns' = Append(conns, t)
  /\ UNCHANGED threadVars

pieceSize(t) ==
  /\ Goes(t, "size", "last")
  /\ chunk' = [chunk EXCEPT ![t] = size \div NUM_THREAD]
  /\ extraBytes' = IF size % NUM_THREAD # 0 THEN size % NUM_THREAD ELSE extraBytes
  /\ UNCHANGED <<offset, loaded, threadNum, sent, conns>>

\* Mutant of IsLast: the two last threads
IsLastTwo == threadNum \in {NUM_THREAD - 2, NUM_THREAD - 1}

\* threadNum == 4
IsLast == threadNum = NUM_THREAD - 1

TestLast(t) ==
  /\ Goes(t, "last", IF IsLast THEN "extend" ELSE "seek")
  /\ UNCHANGED <<threadVars, conns>>

Extend(t) ==
  /\ Goes(t, "extend", "seek")
  /\ chunk' = [chunk EXCEPT ![t] = @ + extraBytes]
  /\ UNCHANGED <<offset, loaded, threadNum, extraBytes, sent, conns>>

\* Mutant of Seek: the piece is placed by its size before it was extended
SeekBySize(t) ==
  /\ Goes(t, "seek", "load")
  /\ offset' = [offset EXCEPT ![t] = (size \div NUM_THREAD) * threadNum]
  /\ UNCHANGED <<chunk, loaded, threadNum, extraBytes, sent, conns>>

Seek(t) ==
  /\ Goes(t, "seek", "load")
  /\ offset' = [offset EXCEPT ![t] = chunk[t] * threadNum]
  /\ UNCHANGED <<chunk, loaded, threadNum, extraBytes, sent, conns>>

\* threadNum++ loads ...
LoadThreadNum(t) ==
  /\ Goes(t, "load", "store")
  /\ loaded' = [loaded EXCEPT ![t] = threadNum]
  /\ UNCHANGED <<chunk, offset, threadNum, extraBytes, sent, conns>>

\* ... and stores
StoreThreadNum(t) ==
  /\ Goes(t, "store", "clear")
  /\ threadNum' = loaded[t] + 1
  /\ UNCHANGED <<chunk, offset, loaded, extraBytes, sent, conns>>

ClearExtra(t) ==
  /\ Goes(t, "clear", "send")
  /\ extraBytes' = 0
  /\ UNCHANGED <<chunk, offset, loaded, threadNum, sent, conns>>

\* read() up to the end of the file and write() what it got
SendPiece(t) ==
  LET rest == IF offset[t] < size THEN size - offset[t] ELSE 0
      len  == IF chunk[t] < rest THEN chunk[t] ELSE rest
  IN  /\ Goes(t, "send", "exited")
      /\ sent' = [sent EXCEPT ![t] = [from |-> offset[t], len |-> len]]
      /\ UNCHANGED <<chunk, offset, loaded, threadNum, extraBytes, conns>>

-----------------------------------------------------------------------------
(* The server *)

\* The first connection: the name, and its part behind the dot.  Without one the
\* second strtok returns NULL, which strcpy dereferences
AcceptName ==
  /\ server = "listen" /\ main \notin {"connect", "open", "failed"}
  /\ server' = IF name = "none" THEN "crashed" ELSE "accept"
  /\ UNCHANGED <<size, name, clientVars, pieces, copied, merged>>

\* A part of four characters and more outgrows file_format and, the longer it is,
\* the file names built from it: the server may die of it
NameOverflow ==
  /\ name = "long" /\ server \in {"accept", "merge"}
  /\ server' = "crashed"
  /\ UNCHANGED <<size, name, clientVars, pieces, copied, merged>>

\* Or it goes on: file_format then ends in newSd, so that the pieces are in files
\* that main() does not find.  open and read return -1, which is not 0, for ever
MergeNothing ==
  /\ server = "merge" /\ name = "long"
  /\ server' = "looping"
  /\ UNCHANGED <<size, name, clientVars, pieces, copied, merged>>

\* No name arrives: strcpy of a NULL pointer
NameMissing ==
  /\ server = "listen" /\ main = "failed"
  /\ server' = "crashed"
  /\ UNCHANGED <<size, name, clientVars, pieces, copied, merged>>

\* Mutant of Arrived: the end of the connection is not taken for an answer
ArrivedData(t) == sent[t].len > 0

\* read() returns: with data, or with 0 when the client has closed the socket,
\* which only its exit does
Arrived(t) == sent[t].len > 0 \/ main = "finished"

\* Accept a connection and read from it once, in a thread that is joined at
\* once.  A piece is written in one call, so one read gets up to Capacity bytes
ReceivePiece ==
  LET k == Len(pieces) + 1 IN
  /\ server = "accept" /\ k <= Len(conns)
  /\ Arrived(conns[k])
  /\ LET p == sent[conns[k]] IN
     pieces' = Append(pieces, [p EXCEPT !.len = IF @ < Capacity THEN @ ELSE Capacity])
  /\ server' = IF k = NUM_THREAD THEN "merge" ELSE "accept"
  /\ UNCHANGED <<size, name, clientVars, copied, merged>>

\* Mutant of MergePiece: the last piece first
MergeBackwards ==
  /\ server = "merge" /\ name # "long"
  /\ merged' = merged \o Bytes(pieces[NUM_THREAD - copied])
  /\ copied' = copied + 1
  /\ server' = IF copied' = NUM_THREAD THEN "merged" ELSE "merge"
  /\ UNCHANGED <<size, name, clientVars, pieces>>

\* sf0, sf1, ... are copied to the end of the merge file, one after the other
MergePiece ==
  /\ server = "merge" /\ name # "long"
  /\ merged' = merged \o Bytes(pieces[copied + 1])
  /\ copied' = copied + 1
  /\ server' = IF copied' = NUM_THREAD THEN "merged" ELSE "merge"
  /\ UNCHANGED <<size, name, clientVars, pieces>>

-----------------------------------------------------------------------------
Main ==
  \/ ConnectMain \/ SendName \/ NoSuchFile \/ CreateThread \/ JoinThreads \/ ServerGone

chunkin(t) ==
  \/ createSock(t) \/ pieceSize(t) \/ TestLast(t) \/ Extend(t) \/ Seek(t)
  \/ LoadThreadNum(t) \/ StoreThreadNum(t) \/ ClearExtra(t) \/ SendPiece(t)

Server ==
  \/ AcceptName \/ NameMissing \/ NameOverflow \/ ReceivePiece \/ MergePiece
  \/ MergeNothing

Next == Main \/ (\E t \in Threads : chunkin(t)) \/ Server

Spec == Init /\ [][Next]_vars

\* Every thread and process that can go on is scheduled
Fairness ==
  /\ WF_vars(Main) /\ WF_vars(Server)
  /\ \A t \in Threads : WF_vars(chunkin(t))

FairSpec == Spec /\ Fairness

-----------------------------------------------------------------------------
(* Properties *)

\* Every variable has its type; threadNum never passes the number of threads
\* and extraBytes is smaller than it (sendClient.c:20-22, 95-127).
TypeOK ==
  /\ size \in Sizes /\ name \in Names
  /\ main \in {"connect", "open", "create", "join", "finished", "failed"}
  /\ created \in 0 .. NUM_THREAD
  /\ tpc \in [Threads -> {"none", "connect", "size", "last", "extend", "seek", "load",
                          "store", "clear", "send", "exited"}]
  /\ chunk \in [Threads -> Nat] /\ offset \in [Threads -> Nat]
  /\ loaded \in [Threads -> Threads]
  /\ threadNum \in 0 .. NUM_THREAD /\ extraBytes \in 0 .. NUM_THREAD - 1
  /\ sent \in [Threads -> Piece]
  /\ conns \in Seq(Threads) /\ Len(conns) <= NUM_THREAD
  /\ server \in {"listen", "accept", "merge", "merged", "looping", "crashed"}
  /\ pieces \in Seq(Piece) /\ Len(pieces) <= NUM_THREAD
  /\ copied \in 0 .. NUM_THREAD /\ merged \in Seq(Nat)

\* However the threads interleave, at most one of them adds the remainder to its
\* piece: it has seen all others increment threadNum (sendClient.c:115-126).
AtMostOneExtends ==
  \A t, u \in Threads :
    chunk[t] > size \div NUM_THREAD /\ chunk[u] > size \div NUM_THREAD => t = u

\* A file that NUM_THREAD does not divide never arrives complete, with or
\* without a race: the thread that adds the remainder seeks to a multiple of its
\* longer piece (sendClient.c:115-124, recServer.c:70,186).
RemainderIsLost ==
  server = "merged" /\ size % NUM_THREAD # 0 => Len(merged) < size

\* The k-th thread to connect sends the k-th piece
InOrder == \A k \in 1 .. NUM_THREAD : sent[conns[k]].from = (k - 1) * (size \div NUM_THREAD)

\* The merge file is the file just if NUM_THREAD divides the size, no piece exceeds
\* one read, and the threads happened to connect in the order in which they took
\* their places: any race for threadNum, and any thread that is overtaken between
\* its connect and its seek, ruins it (sendClient.c:106-141, recServer.c:46-75,
\* 117-195).
CompleteJustInOrder ==
  server = "merged" =>
    (merged = [k \in 1 .. size |-> k - 1]
       <=> InOrder /\ size % NUM_THREAD = 0 /\ size <= NUM_THREAD * Capacity)

\* Once a name with one to three characters behind its dot is sent the server
\* writes its merge file, whatever the threads do: no read waits for ever, for the
\* client's exit ends it (recServer.c:117-195).  With any other name it crashes or
\* reads for ever from a file it could not open (recServer.c:136-137, 181-186).
TransferEnds == main = "create" /\ name = "short" ~> server = "merged"
=============================================================================
