--------------------------- MODULE ListingService --------------------------
(***************************************************************************)
(* The listing service: tcpServer.c and tcpClient.c of the LS assignment.  *)
(*                                                                         *)
(* The server takes one client at a time: it reads a line of credentials,  *)
(* then a line per command.  The client types a line of credentials and a  *)
(* first line without reading, then reads once after every further line.   *)
(*                                                                         *)
(* A connection is a stream: lines or replies that were written one after  *)
(* the other may be read together or apart.  A write to a peer that is     *)
(* gone is lost; the next one, or already the first when the peer's reset  *)
(* is there, kills the writer with SIGPIPE or makes it exit.  A read from  *)
(* a peer that is gone returns what is left, then 0, or -1 after a reset.  *)
(* What the listings contain is left out.                                  *)
(***************************************************************************)
EXTENDS Naturals, Sequences

CONSTANTS
  Clients,   \* runs of the client program
  NoClient   \* the value of conn while no client is served

ASSUME ClientsAssumption == NoClient \notin Clients

VARIABLES
  client,    \* the statement each client executes next
  toServer,  \* lines written to the server and not read yet
  toClient,  \* replies written to the client and not read yet
  pending,   \* the connections not accepted yet, in their order
  server,    \* the statement the server executes next
  conn,      \* newSd
  isInvalid, \* the global of the same name
  closed,    \* the connections the server has closed
  broken,    \* the clients whose reset has reached the server
  offered,   \* history: what each client's first lines are as credentials
  listed     \* history: the clients a listing was written to

streams == <<toServer, toClient>>
serverVars == <<pending, server, conn, isInvalid, closed, broken, listed>>
vars == <<client, streams, serverVars, offered>>

\* A line is what the server makes of it when it reads it alone: the right
\* credentials, `ls` phrases, `ls -l` of a directory that cannot be opened,
\* exit, spaces only, anything else; of the latter, front and rest are the
\* credentials cut in two, as in "Huzaifa" and " 1234"
Lines == {"good", "front", "rest", "list", "missing", "exit", "blank", "bad"}

\* The lines that the server takes for the credentials when it reads them
\* together: the client strips the newlines, so nothing separates them
Credentials == {<<"good">>, <<"front", "rest">>}

\* The texts the server writes
Replies == {"Incorrect credentials, closing client connection",
            "Credentials verified. Enter your ls command.",
            "Client closed the connection",
            "Invalid argument. Closing client connection",
            "listing", "newline"}

Gone(c) == client[c] \in {"finished", "gone"}

Init ==
  /\ client = [c \in Clients |-> "connect"]
  /\ toServer = [c \in Clients |-> <<>>]
  /\ toClient = [c \in Clients |-> <<>>]
  /\ pending = <<>>
  /\ server = "accept" /\ conn = NoClient
  /\ isInvalid = FALSE
  /\ closed = {} /\ broken = {}
  /\ offered = [c \in Clients |-> "none"]
  /\ listed = {}

-----------------------------------------------------------------------------
(* The client *)

\* The first n entries of the stream of c have been read
Consume(stream, c, n) == [stream EXCEPT ![c] = SubSeq(@, n + 1, Len(@))]

Goes(c, next) == client' = [client EXCEPT ![c] = next]

\* The process ends; what it has not read is discarded
Exits(c) == Goes(c, "gone") /\ toClient' = [toClient EXCEPT ![c] = <<>>]

\* The connection is made before it is accepted; without a server it fails
Connect(c) ==
  /\ client[c] = "connect"
  /\ IF server = "dead"
       THEN Exits(c) /\ UNCHANGED pending
       ELSE Goes(c, "login") /\ pending' = Append(pending, c) /\ UNCHANGED toClient
  /\ UNCHANGED <<toServer, server, conn, isInvalid, closed, broken, listed, offered>>

\* What the lines of a client are as credentials with one more line: the first
\* one counts, and the second if the first is the front part
Offer(lines, line) ==
  IF <<lines, line>> \in {<<"none", "good">>, <<"part", "rest">>} THEN "right"
  ELSE IF lines = "none" /\ line = "front" THEN "part"
  ELSE IF lines \in {"none", "part"} THEN "wrong" ELSE lines

\* fgets and write.  The write fails or is lost if the server has closed
Write(c, next) ==
  \/ /\ c \notin closed
     /\ Goes(c, next)
     /\ \E line \in Lines :
          /\ toServer' = [toServer EXCEPT ![c] = Append(@, line)]
          /\ offered' = [offered EXCEPT ![c] = Offer(@, line)]
     /\ UNCHANGED toClient
  \/ /\ c \in closed
     /\ Exits(c) /\ UNCHANGED <<toServer, offered>>
  \/ \* an empty line, or, after the close, one that is lost
     Goes(c, next) /\ UNCHANGED <<streams, offered>>

TypeCredentials(c) ==
  /\ client[c] = "login"
  /\ Write(c, "line")
  /\ UNCHANGED serverVars

TypeLine(c) ==
  /\ client[c] = "line"
  /\ Write(c, "read")
  /\ UNCHANGED serverVars

\* The strncmp tests that end the client's loop; a text counts from its start.
\* The server writes none of these texts
Ends(reply) == reply \in {"Client closed the connection.",
                          "Closing client connection, incorrect credentials.",
                          "Invalid argument, closing client connection"}

ReadReply(c) ==
  /\ client[c] = "read"
  /\ \E n \in 1 .. Len(toClient[c]) : toClient' = Consume(toClient, c, n)
  /\ Goes(c, IF Ends(Head(toClient[c])) THEN "finished" ELSE "line")
  /\ UNCHANGED <<toServer, serverVars, offered>>

\* 0 bytes, after which the loop goes on, or an error, which ends the client
ReadClosed(c) ==
  /\ client[c] = "read"
  /\ c \in closed
  /\ \/ toClient[c] = <<>> /\ Goes(c, "line") /\ UNCHANGED toClient
     \/ Exits(c)
  /\ UNCHANGED <<toServer, serverVars, offered>>

\* The user kills the client
Interrupt(c) ==
  /\ client[c] \in {"login", "line", "read"}
  /\ Exits(c)
  /\ UNCHANGED <<toServer, serverVars, offered>>

Client(c) == \/ Connect(c) \/ TypeCredentials(c) \/ TypeLine(c)
             \/ ReadReply(c) \/ ReadClosed(c) \/ Interrupt(c)

-----------------------------------------------------------------------------
(* The server *)

\* Mutant of Accept: the connections left open are closed
AcceptClosing ==
  /\ server = "accept" /\ pending # <<>>
  /\ conn' = Head(pending) /\ pending' = Tail(pending)
  /\ server' = "login"
  /\ closed' = closed \cup {c \in Clients : /\ offered[c] = "wrong"
                                          /\ \A i \in DOMAIN pending : pending[i] # c}
  /\ UNCHANGED <<client, streams, isInvalid, broken, listed, offered>>

Accept ==
  /\ server = "accept" /\ pending # <<>>
  /\ conn' = Head(pending) /\ pending' = Tail(pending)
  /\ server' = "login"
  /\ UNCHANGED <<client, streams, isInvalid, closed, broken, listed, offered>>

\* The server ends and the kernel closes its sockets
Die ==
  /\ server' = "dead" /\ conn' = NoClient
  /\ closed' = Clients /\ pending' = <<>>

\* accept() fails
AcceptFails ==
  /\ server = "accept"
  /\ Die
  /\ UNCHANGED <<client, streams, isInvalid, broken, listed, offered>>

Stay(next) == server' = next /\ UNCHANGED <<conn, closed, pending>>

\* Back to accept, with newSd closed or left open
Leave(close) ==
  /\ server' = "accept" /\ conn' = NoClient
  /\ closed' = IF close THEN closed \cup {conn} ELSE closed
  /\ UNCHANGED pending

\* Mutant of Reply: a write to a client that is gone is always lost
ReplyLost(text, After) ==
  /\ toClient' = IF Gone(conn) THEN toClient ELSE [toClient EXCEPT ![conn] = Append(@, text)]
  /\ After /\ UNCHANGED broken

\* write(newSd, text), then After
Reply(text, After) ==
  \/ /\ ~Gone(conn)
     /\ toClient' = [toClient EXCEPT ![conn] = Append(@, text)]
     /\ After /\ UNCHANGED broken
  \/ /\ Gone(conn) /\ conn \notin broken
     /\ broken' = broken \cup {conn}
     /\ After /\ UNCHANGED toClient
  \/ Gone(conn) /\ Die /\ UNCHANGED <<toClient, broken>>

\* read(newSd, ...) of n >= 1 lines, or of 0 or -1 bytes
ReadLines(n) ==
  /\ n \in 1 .. Len(toServer[conn])
  /\ toServer' = Consume(toServer, conn, n)

ReadNothing == Gone(conn) /\ toServer[conn] = <<>> /\ UNCHANGED toServer

\* error(): perror and exit
ReadError ==
  /\ server \in {"login", "command"}
  /\ ReadNothing
  /\ Die
  /\ UNCHANGED <<client, toClient, isInvalid, broken, listed, offered>>

\* Mutants of Reject: the connection is closed, as the text says; and the
\* `continue` is missing
RejectClosing == Reply("Incorrect credentials, closing client connection", Leave(TRUE))
RejectGoingOn == Reply("Incorrect credentials, closing client connection", Stay("command"))

Reject == Reply("Incorrect credentials, closing client connection", Leave(FALSE))

Verify == Reply("Credentials verified. Enter your ls command.", Stay("command"))

Login ==
  /\ server = "login"
  /\ \/ \E n \in 1 .. Len(toServer[conn]) :
          /\ ReadLines(n)
          /\ IF SubSeq(toServer[conn], 1, n) \in Credentials THEN Verify ELSE Reject
     \/ ReadNothing /\ Reject
  /\ UNCHANGED <<client, isInvalid, listed, offered>>

\* What n lines mean as a command when they are read at once; the credentials
\* and their parts are none
Commands == Lines \ {"good", "front", "rest"}
Meanings(n) ==
  IF n > 1 THEN Commands
  ELSE {IF Head(toServer[conn]) \in Commands THEN Head(toServer[conn]) ELSE "bad"}

\* exit, or a word that is no command
Refuse(text) ==
  /\ isInvalid' = TRUE
  /\ Reply(text, Leave(TRUE))
  /\ UNCHANGED listed

\* Mutant of Answer: isInvalid is not consulted
AnswerAlways(text) ==
  /\ Reply(text, Stay("command"))
  /\ listed' = IF text = "listing" THEN listed \cup {conn} ELSE listed
  /\ UNCHANGED isInvalid

\* After the commands of a line: isInvalid may stem from an earlier client
Answer(text) ==
  /\ IF isInvalid
       THEN Leave(TRUE) /\ UNCHANGED <<toClient, broken, listed>>
       ELSE /\ Reply(text, Stay("command"))
            /\ listed' = IF text = "listing" THEN listed \cup {conn} ELSE listed
  /\ UNCHANGED isInvalid

\* The listing reads through a NULL directory
Crash == Die /\ UNCHANGED <<toClient, isInvalid, broken, listed>>

Execute(meaning) ==
  \/ meaning = "list" /\ Answer("listing")
  \/ meaning = "blank" /\ Answer("newline")
  \/ meaning = "exit" /\ Refuse("Client closed the connection")
  \/ meaning = "bad" /\ Refuse("Invalid argument. Closing client connection")
  \/ meaning = "missing" /\ Crash

Command ==
  /\ server = "command"
  /\ \/ \E n \in 1 .. Len(toServer[conn]) :
          ReadLines(n) /\ \E meaning \in Meanings(n) : Execute(meaning)
     \/ ReadNothing /\ Execute("blank")
  /\ UNCHANGED <<client, offered>>

Server == Accept \/ AcceptFails \/ Login \/ Command \/ ReadError

Next == Server \/ \E c \in Clients : Client(c)

\* The server runs; no read has to fail, and nothing obliges a client or its user
Spec == Init /\ [][Next]_vars
FairSpec == Spec /\ WF_vars(Accept \/ Login \/ Command)

-----------------------------------------------------------------------------
(* Properties *)

\* Every variable has its type.  A connection waits to be accepted, is served or
\* was left; a client that has not connected is none of these (230-316).
TypeOK ==
  /\ client \in [Clients -> {"connect", "login", "line", "read", "finished", "gone"}]
  /\ toServer \in [Clients -> Seq(Lines)]
  /\ toClient \in [Clients -> Seq(Replies)]
  /\ pending \in Seq(Clients)
  /\ server \in {"accept", "login", "command", "dead"}
  /\ conn \in Clients \cup {NoClient}
  /\ (conn = NoClient) = (server \in {"accept", "dead"})
  /\ isInvalid \in BOOLEAN
  /\ closed \subseteq Clients /\ broken \subseteq Clients /\ listed \subseteq Clients
  /\ offered \in [Clients -> {"none", "part", "right", "wrong"}]

\* Whatever is read together or apart, a listing goes only to a client whose
\* first line, or whose first two lines joined, are the right credentials: lines
\* that follow a wrong first line do not help (tcpServer.c:239-254).
ListingAfterLogin == \A c \in listed : offered[c] = "right"

\* The server closes only connections whose first line, or first two lines joined,
\* are the right credentials: the others are told "closing client connection" and
\* stay open (tcpServer.c:245-248, 309).
ClosedAfterLogin == server # "dead" => \A c \in closed : offered[c] = "right"

\* A client that was told that its connection is closed, or whose line the server
\* waits for, while it waits for a reply itself
Stuck(c) ==
  /\ client[c] = "read" /\ toClient[c] = <<>> /\ c \notin closed
  /\ IF conn = c THEN toServer[c] = <<>>
     ELSE \A i \in DOMAIN pending : pending[i] # c

\* Such a client stays there until it is killed or the server ends: after wrong
\* credentials nobody reads newSd and nobody closes it (tcpServer.c:243-249), and
\* after an empty line both sides read (tcpClient.c:81-87, tcpServer.c:259).
StuckForGood ==
  [][\A c \in Clients : Stuck(c) => Stuck(c)' \/ Gone(c)' \/ server' = "dead"]_vars

\* One exit or invalid line ends the service for all later clients: isInvalid is
\* never reset, and each is left at its first command (tcpServer.c:36, 309).
NoListingAfterInvalid == [][isInvalid => listed' = listed /\ isInvalid']_vars

\* A client that is gone does not keep the server: it ends the conversation, or
\* the write it answers the end of the input with ends the server (tcpServer.c:311).
GoneClientIsLeft == \A c \in Clients : conn = c /\ Gone(c) ~> conn # c
=============================================================================
