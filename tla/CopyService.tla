----------------------------- MODULE CopyService ----------------------------
(***************************************************************************)
(* The copy service: tcpServer.c and tcpClient.c of the CP assignment.     *)
(*                                                                         *)
(* A client sends its source file byte by byte.  The server opens one      *)
(* destination file before it serves anybody, takes up to Capacity bytes   *)
(* at a time and writes one of them; when a client is done it closes the   *)
(* file and the connection, and serves the next client, for which accept() *)
(* returns the lowest free descriptor: the number that dfd still holds.    *)
(*                                                                         *)
(* A byte is a pair of the client that sends it and its place in the       *)
(* source, 0 if the source could not be opened.  A client never reads: one *)
(* that ends with unread bytes resets its connection, and so does one that *)
(* is written to after its end.  read_line() is never called.              *)
(***************************************************************************)
EXTENDS Integers, Sequences

CONSTANTS
  Clients,    \* runs of the client program
  NoClient,   \* the value of first before the first connection
  Free, File, \* a descriptor that is closed, one of the destination file
  SourceLen,  \* the length of source.txt
  OldLen,     \* lengths of a destination.txt left by an earlier run
  Capacity    \* the length passed to recv, 20

ASSUME ClientsAssumption == {NoClient, Free, File} \cap Clients = {}
ASSUME FilesAssumption == Free # File /\ SourceLen \in Nat /\ OldLen \subseteq Nat
ASSUME CapacityAssumption == Capacity \in Nat \ {0}

VARIABLES
  client,    \* the statement each client executes next
  opened,    \* the clients whose source.txt could be opened
  sent,      \* the bytes each client has sent
  taken,     \* how many of them the server has received
  pending,   \* the connections not accepted yet, in their order
  server,    \* the statement the server executes next
  dfd, newSd,
  table,     \* what the server's descriptors stand for
  written,   \* the bytes written to the destination file
  old,       \* the length of the file before
  echoed,    \* the clients that bytes were written back to
  reset,     \* what became of each connection
  told,      \* history: the clients "Data written in file" was printed for
  first,     \* history: the first client to connect
  joined     \* history: the clients some of whose bytes were received together

clientVars == <<client, opened, sent>>
history == <<told, first, joined>>
vars == <<clientVars, taken, pending, server, dfd, newSd, table, written, old,
          echoed, reset, history>>

\* Descriptor 3 is the listening socket; no descriptor above 5 is ever reached
Fds == {4, 5}
NoFd == -1
Byte == Clients \X (0 .. SourceLen)

Gone(c) == client[c] \in {"finished", "gone"}

\* The server was ended by SIGPIPE, or has returned ERROR
Ended == server \in {"dead", "failed"}

\* open(O_CREAT | O_WRONLY) may fail, which is reported and forgotten
Init ==
  /\ client = [c \in Clients |-> "connect"]
  /\ opened = {} /\ sent = [c \in Clients |-> <<>>]
  /\ taken = [c \in Clients |-> 0]
  /\ pending = <<>> /\ server = "accept"
  /\ dfd \in {4, NoFd} /\ newSd = NoFd
  /\ table = [fd \in Fds |-> IF fd = dfd THEN File ELSE Free]
  /\ written = <<>> /\ old \in OldLen
  /\ echoed = {} /\ reset = [c \in Clients |-> "none"]
  /\ told = {} /\ first = NoClient /\ joined = {}

-----------------------------------------------------------------------------
(* The client *)

Goes(c, next) == client' = [client EXCEPT ![c] = next]

\* exit, or the user's ^C: the kernel closes the socket
Exits(c, how) ==
  /\ Goes(c, how)
  /\ reset' = [reset EXCEPT ![c] = IF c \in echoed THEN "abort" ELSE @]

\* connect() succeeds before the connection is accepted; source.txt is opened
\* or not, and the loop is entered anyway
Connect(c) ==
  /\ client[c] = "connect"
  /\ IF Ended
       THEN Goes(c, "gone") /\ UNCHANGED <<opened, pending, first>>
       ELSE /\ Goes(c, "send")
            /\ opened' \in {opened, opened \cup {c}}
            /\ pending' = Append(pending, c)
            /\ first' = IF first = NoClient THEN c ELSE first
  /\ UNCHANGED <<sent, taken, server, dfd, newSd, table, written, old, echoed,
                 reset, told, joined>>

Unfinished(c) == client[c] = "send" /\ Len(sent[c]) < SourceLen

\* read() of one byte and send().  Of a source that is not open read() returns
\* -1, which is not 0: a byte of the buffer is sent.  SourceLen bounds what
\* such a client sends in a run
SendByte(c) ==
  /\ Unfinished(c)
  /\ ~Ended
  /\ sent' = [sent EXCEPT ![c] =
                Append(@, <<c, IF c \in opened THEN Len(@) + 1 ELSE 0>>)]
  /\ UNCHANGED <<client, opened, taken, pending, server, dfd, newSd, table,
                 written, old, echoed, reset, history>>

\* A send to a server that is gone is lost, or ends the client with SIGPIPE
SendFails(c) ==
  /\ Unfinished(c) /\ Ended
  /\ Goes(c, "gone")
  /\ UNCHANGED <<opened, sent, taken, pending, server, dfd, newSd, table, written,
                 old, echoed, reset, history>>

\* read() returns 0
FinishSource(c) ==
  /\ client[c] = "send" /\ c \in opened /\ Len(sent[c]) = SourceLen
  /\ Exits(c, "finished")
  /\ UNCHANGED <<opened, sent, taken, pending, server, dfd, newSd, table, written,
                 old, echoed, history>>

Interrupt(c) ==
  /\ client[c] = "send"
  /\ Exits(c, "gone")
  /\ UNCHANGED <<opened, sent, taken, pending, server, dfd, newSd, table, written,
                 old, echoed, history>>

Client(c) ==
  Connect(c) \/ SendByte(c) \/ SendFails(c) \/ FinishSource(c) \/ Interrupt(c)

-----------------------------------------------------------------------------
(* The server *)

LowestFree == IF table[4] = Free THEN 4 ELSE 5

\* The kernel closes every descriptor
Ends(how) ==
  /\ server' = how /\ pending' = <<>>
  /\ table' = [fd \in Fds |-> Free]

\* accept() fails, which ends the server
AcceptFails ==
  /\ server = "accept"
  /\ Ends("failed")
  /\ UNCHANGED <<clientVars, taken, dfd, newSd, written, old, echoed, reset, history>>

Accept ==
  /\ server = "accept" /\ pending # <<>>
  /\ newSd' = LowestFree
  /\ table' = [table EXCEPT ![LowestFree] = Head(pending)]
  /\ pending' = Tail(pending)
  /\ server' = "recv"
  /\ UNCHANGED <<clientVars, taken, dfd, written, old, echoed, reset, history>>

Peer == table[newSd]
Unread(c) == Len(sent[c]) - taken[c]

\* Mutant of Target: the byte is written to the connection
TargetIsPeer == Peer

\* What dfd stands for by now
Target == IF dfd = NoFd THEN Free ELSE table[dfd]

Stay == UNCHANGED <<server, pending, table>>

\* write() to a connection whose state is r.  To a client that is gone it is
\* lost and answered by a reset; after a reset it is lost or fails once, and
\* then ends the server
Echo(c, r) ==
  \/ /\ ~Gone(c) \/ r = "none"
     /\ echoed' = echoed \cup {c}
     /\ reset' = [reset EXCEPT ![c] = IF Gone(c) THEN "refused" ELSE @]
     /\ Stay
  \/ /\ Gone(c) /\ r \in {"abort", "refused"}
     /\ \E s \in {r, "reported"} : reset' = [reset EXCEPT ![c] = s]
     /\ UNCHANGED echoed /\ Stay
  \/ /\ Gone(c) /\ r # "none"
     /\ UNCHANGED <<echoed, reset>> /\ Ends("dead")

\* Mutant of ToFile: the buffer is zeroed before it is written
ToFileZeroed(byte) == written' = Append(written, <<byte[1], 0>>)

ToFile(byte) == written' = Append(written, byte)

\* write(dfd, buffer, 1) after a recv that left the connection in state r
Write(byte, r) ==
  \/ /\ Target = File
     /\ ToFile(byte)
     /\ reset' = [reset EXCEPT ![Peer] = r]
     /\ UNCHANGED echoed /\ Stay
  \/ /\ Target = Free
     /\ reset' = [reset EXCEPT ![Peer] = r]
     /\ UNCHANGED <<written, echoed>> /\ Stay
  \/ /\ Target \in Clients
     /\ Echo(Target, r)
     /\ UNCHANGED written

\* recv() returns n > 0 bytes, of which the first is written
Receive ==
  /\ server = "recv"
  /\ \E n \in 1 .. Unread(Peer) :
       /\ n <= Capacity
       /\ taken' = [taken EXCEPT ![Peer] = @ + n]
       /\ joined' = IF n > 1 THEN joined \cup {Peer} ELSE joined
  /\ Write(sent[Peer][taken[Peer] + 1], reset[Peer])
  /\ UNCHANGED <<clientVars, dfd, newSd, old, told, first>>

\* recv() returns -1, which is not 0: the zeroed buffer is written
ReceiveError ==
  /\ server = "recv" /\ Unread(Peer) = 0
  /\ reset[Peer] \in {"abort", "refused"}
  /\ Write(<<Peer, 0>>, "reported")
  /\ UNCHANGED <<clientVars, taken, dfd, newSd, old, history>>

\* Mutant of AtEnd: the loop is left on an error only
AtEndOnError(c) == Unread(c) = 0 /\ reset[c] = "reported"

\* recv() returns 0 when the client has closed the connection, or when the
\* error of a reset was reported before
AtEnd(c) == Unread(c) = 0 /\ Gone(c) /\ reset[c] # "abort"

\* Mutants of Closed: newSd, or dfd, is left open
ClosedFile == {dfd}
ClosedConnection == {newSd}

Closed == {dfd, newSd}

\* close(dfd) and close(newSd), both for the second client and the later ones
ReceiveEnd ==
  /\ server = "recv" /\ AtEnd(Peer)
  /\ told' = told \cup {Peer}
  /\ table' = [fd \in Fds |-> IF fd \in Closed THEN Free ELSE table[fd]]
  /\ server' = "accept"
  /\ UNCHANGED <<clientVars, taken, pending, dfd, newSd, written, old, echoed, reset,
                 first, joined>>

Server == Accept \/ Receive \/ ReceiveError \/ ReceiveEnd

Next == Server \/ AcceptFails \/ \E c \in Clients : Client(c)

\* The server runs; no accept has to fail, and nothing obliges a client or its user
Spec == Init /\ [][Next]_vars
FairSpec == Spec /\ WF_vars(Server)

-----------------------------------------------------------------------------
(* Properties *)

Serves(c) == server = "recv" /\ Peer = c

\* Every variable has its type; between two clients no connection is open, and
\* from the first client on dfd names no file (tcpServer.c:64-75).
TypeOK ==
  /\ client \in [Clients -> {"connect", "send", "finished", "gone"}]
  /\ opened \subseteq Clients /\ sent \in [Clients -> Seq(Byte)]
  /\ taken \in [Clients -> Nat] /\ pending \in Seq(Clients)
  /\ server \in {"accept", "recv", "dead", "failed"}
  /\ dfd \in {4, NoFd} /\ newSd \in Fds \cup {NoFd}
  /\ table \in [Fds -> Clients \cup {Free, File}]
  /\ written \in Seq(Byte) /\ old \in Nat
  /\ echoed \subseteq Clients /\ told \subseteq Clients /\ joined \subseteq Clients
  /\ reset \in [Clients -> {"none", "abort", "refused", "reported"}]
  /\ first \in Clients \cup {NoClient}
  /\ server = "accept" => \A fd \in Fds : table[fd] \notin Clients
  /\ told # {} => \A fd \in Fds : table[fd] # File

\* However many clients come, the file holds bytes of the first one only, in
\* their order, one for each recv: the later ones' bytes never reach it, though
\* dfd is written for each of them (tcpServer.c:53, 70-78).
Lossy == INSTANCE LossyCopy WITH
           Bytes <- Byte,
           writable <- dfd # NoFd,
           source <- IF first = NoClient THEN <<>> ELSE sent[first],
           taken <- IF first = NoClient THEN 0 ELSE taken[first],
           copy <- written,
           ended <- first \in told

ImplementsLossyCopy == Lossy!Spec

\* The file after the run: what was written, then the rest of the old file
Content == written \o [i \in 1 .. IF Len(written) < old THEN old - Len(written) ELSE 0 |-> "old"]

\* What the service does deliver: if the file could be opened, the first client
\* sent all its source, no two bytes of it were received together and the old file
\* was no longer, then the file is the source (tcpServer.c:71-77, tcpClient.c:78-82).
ApartIsComplete ==
  first \in told /\ dfd # NoFd /\ client[first] = "finished" /\ first \notin joined
      /\ old <= SourceLen
    => Content = [i \in 1 .. SourceLen |-> <<first, i>>]

\* The first client is never written to, and the server is ended by nothing but a
\* failing accept() and the bytes it writes back to later ones, whose connection
\* has the number that dfd still holds (tcpServer.c:53, 64-68, 74-77).
DeathNeedsEcho == first \notin echoed /\ (server = "dead" => echoed # {})

\* A client that is gone does not keep the server, whatever it sent before: the
\* loop is left at the end of its bytes, or the server ends (tcpServer.c:70-79).
GoneClientIsLeft == \A c \in Clients : Serves(c) /\ Gone(c) ~> ~Serves(c)
=============================================================================
