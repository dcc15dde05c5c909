------------------------ MODULE ListingServiceProofs -----------------------
(***************************************************************************)
(* Theorems about ListingService, for every set of clients and all streams *)
(* they may write.                                                         *)
(*                                                                         *)
(* Who is served is decided by the lines the server reads first.  That     *)
(* they are the first the client wrote needs that nothing was read from a  *)
(* connection that still waits (Unread), hence that a connection waits at  *)
(* most once and not while it is served (Queue).                           *)
(***************************************************************************)
EXTENDS ListingService, SequenceTheorems, TLAPS

Waits(c) == \E i \in DOMAIN pending : pending[i] = c

\* What the first lines of a stream are as credentials
Offered(lines) ==
  IF lines = <<>> THEN "none"
  ELSE IF lines[1] = "good" THEN "right"
  ELSE IF lines[1] # "front" THEN "wrong"
  ELSE IF Len(lines) = 1 THEN "part"
  ELSE IF lines[2] = "rest" THEN "right" ELSE "wrong"

\* Of these nothing was read yet, so the stream begins with the first line
Fresh(c) == client[c] = "connect" \/ Waits(c) \/ (server = "login" /\ conn = c)

Unread ==
  \A c \in Clients : Fresh(c) => offered[c] = Offered(toServer[c])

Queue ==
  /\ \A i, j \in DOMAIN pending : pending[i] = pending[j] => i = j
  /\ \A i \in DOMAIN pending : pending[i] # conn /\ client[pending[i]] # "connect"
  /\ conn \in Clients => client[conn] # "connect"

\* The server reads commands of a client with the right credentials
Verified == server = "command" => offered[conn] = "right"

IInv ==
  /\ TypeOK /\ Unread /\ Queue /\ Verified
  /\ ListingAfterLogin /\ ClosedAfterLogin

-----------------------------------------------------------------------------
(* Lemmas about streams and about the steps *)

LEMMA ConsumeType ==
  ASSUME NEW S, NEW stream \in [Clients -> Seq(S)], NEW c \in Clients,
         NEW n \in 1 .. Len(stream[c])
  PROVE  Consume(stream, c, n) \in [Clients -> Seq(S)]
  <1>1. SubSeq(stream[c], n + 1, Len(stream[c])) \in Seq(S)
    OBVIOUS
  <1> QED
    BY <1>1 DEF Consume

LEMMA TailSeq ==
  ASSUME NEW S, NEW s \in Seq(S), s # <<>>
  PROVE  /\ Tail(s) \in Seq(S) /\ Head(s) = s[1] /\ 1 \in DOMAIN s
         /\ \A i \in DOMAIN Tail(s) : i + 1 \in DOMAIN s /\ Tail(s)[i] = s[i + 1]
  OBVIOUS

\* One more line changes what the lines are as credentials as Offer says
LEMMA OfferedAppend ==
  ASSUME NEW lines \in Seq(Lines), NEW line \in Lines
  PROVE  Offered(Append(lines, line)) = Offer(Offered(lines), line)
  <1>1. /\ Append(lines, line) # <<>> /\ Len(Append(lines, line)) = Len(lines) + 1
        /\ Len(lines) \in Nat /\ (lines = <<>>) = (Len(lines) = 0)
        /\ Append(lines, line)[Len(lines) + 1] = line
        /\ \A i \in 1 .. Len(lines) : Append(lines, line)[i] = lines[i]
    OBVIOUS
  <1>2. CASE Len(lines) = 0
    BY <1>1, <1>2 DEF Offered, Offer
  <1>3. CASE Len(lines) = 1
    <2>1. Append(lines, line)[1] = lines[1] /\ Append(lines, line)[2] = line
      BY <1>1, <1>3
    <2> QED
      BY <1>1, <1>3, <2>1 DEF Offered, Offer
  <1>4. CASE Len(lines) > 1
    <2>1. /\ Append(lines, line)[1] = lines[1] /\ Append(lines, line)[2] = lines[2]
          /\ Len(Append(lines, line)) # 1 /\ Len(lines) # 1
      BY <1>1, <1>4
    <2> QED
      BY <1>1, <1>4, <2>1 DEF Offered, Offer
  <1>5. Len(lines) = 0 \/ Len(lines) = 1 \/ Len(lines) > 1
    <2>1. Len(lines) \in Nat
      OBVIOUS
    <2>2. \A k \in Nat : k = 0 \/ k = 1 \/ k > 1
      OBVIOUS
    <2> QED
      BY <2>1, <2>2
  <1> QED
    BY <1>2, <1>3, <1>4, <1>5

\* Lines taken for the credentials are so from the start of a stream
LEMMA CredentialsOffered ==
  ASSUME NEW lines \in Seq(Lines), NEW n \in 1 .. Len(lines),
         SubSeq(lines, 1, n) \in Credentials
  PROVE  Offered(lines) = "right"
  <1> DEFINE read == SubSeq(lines, 1, n)
  <1>1. lines # <<>> /\ Len(lines) \in Nat /\ n >= 1 /\ n <= Len(lines) /\ n \in Nat
    OBVIOUS
  <1>2. Len(read) = n /\ \A i \in 1 .. n : read[i] = lines[i]
    OBVIOUS
  <1> HIDE DEF read
  <1>3. CASE read = <<"good">>
    <2>1. read[1] = "good"
      BY <1>3
    <2>2. lines[1] = "good"
      BY <1>1, <1>2, <2>1
    <2> QED
      BY <1>1, <2>2 DEF Offered
  <1>4. CASE read = <<"front", "rest">>
    <2>1. Len(read) = 2 /\ read[1] = "front" /\ read[2] = "rest"
      BY <1>4
    <2>2. n = 2 /\ lines[1] = "front" /\ lines[2] = "rest"
      BY <1>2, <2>1
    <2>3. Len(lines) # 1
      BY <1>1, <2>2
    <2> QED
      BY <1>1, <2>2, <2>3 DEF Offered
  <1> QED
    BY <1>3, <1>4 DEF Credentials, read

LEMMA AppendSeq ==
  ASSUME NEW S, NEW s \in Seq(S), NEW e \in S
  PROVE  /\ Append(s, e) \in Seq(S)
         /\ \A i \in DOMAIN Append(s, e) :
              \/ i \in DOMAIN s /\ Append(s, e)[i] = s[i]
              \/ i = Len(s) + 1 /\ Append(s, e)[i] = e
  OBVIOUS

LEMMA Texts ==
  {"Incorrect credentials, closing client connection",
   "Credentials verified. Enter your ls command.", "listing", "newline",
   "Client closed the connection", "Invalid argument. Closing client connection"} \subseteq Replies
  BY DEF Replies

LEMMA ReplyType ==
  ASSUME TypeOK, conn \in Clients
  PROVE  \A text \in Replies :
           [toClient EXCEPT ![conn] = Append(@, text)] \in [Clients -> Seq(Replies)]
  <1>1. toClient \in [Clients -> Seq(Replies)]
    BY DEF TypeOK
  <1>2. \A text \in Replies : Append(toClient[conn], text) \in Seq(Replies)
    BY <1>1
  <1> QED
    BY <1>1, <1>2

\* What a read of credentials does
LEMMA LoginLemma ==
  ASSUME IInv, Login
  PROVE  /\ server = "login" /\ conn \in Clients
         /\ UNCHANGED <<client, isInvalid, listed, offered>>
         /\ toServer' \in [Clients -> Seq(Lines)]
         /\ \A c \in Clients : c # conn => toServer'[c] = toServer[c]
         /\ toClient' \in [Clients -> Seq(Replies)] /\ broken' \subseteq Clients
         /\ (Stay("command") /\ offered[conn] = "right") \/ Leave(FALSE) \/ Die
  <1>1. TypeOK /\ Unread /\ server = "login" /\ conn \in Clients
    BY DEF IInv, Login, TypeOK
  <1>2. CASE \E n \in 1 .. Len(toServer[conn]) :
               /\ ReadLines(n)
               /\ IF SubSeq(toServer[conn], 1, n) \in Credentials THEN Verify ELSE Reject
    <2>1. PICK n \in 1 .. Len(toServer[conn]) :
               /\ ReadLines(n)
               /\ IF SubSeq(toServer[conn], 1, n) \in Credentials THEN Verify ELSE Reject
      BY <1>2
    <2>2. toServer' = Consume(toServer, conn, n)
      BY <2>1 DEF ReadLines
    <2>3. toServer' \in [Clients -> Seq(Lines)]
      BY <1>1, <2>2, ConsumeType DEF TypeOK
    <2>4. \A c \in Clients : c # conn => toServer'[c] = toServer[c]
      BY <1>1, <2>2 DEF Consume, TypeOK
    <2>5. CASE Verify /\ SubSeq(toServer[conn], 1, n) \in Credentials
      <3>1. toServer[conn] \in Seq(Lines)
        BY <1>1 DEF TypeOK
      <3>4. Offered(toServer[conn]) = "right"
        BY <2>1, <2>5, <3>1, CredentialsOffered
      <3>2. offered[conn] = "right"
        BY <1>1, <3>4 DEF Unread, Fresh
      <3>3. /\ toClient' \in [Clients -> Seq(Replies)] /\ broken' \subseteq Clients
            /\ Stay("command") \/ Die
        BY <1>1, <2>5, ReplyType, Texts DEF Verify, Reply, TypeOK
      <3> QED
        BY <1>1, <2>3, <2>4, <3>2, <3>3 DEF Login
    <2>6. CASE Reject
      <3>1. /\ toClient' \in [Clients -> Seq(Replies)] /\ broken' \subseteq Clients
            /\ Leave(FALSE) \/ Die
        BY <1>1, <2>6, ReplyType, Texts DEF Reject, Reply, TypeOK
      <3> QED
        BY <1>1, <2>3, <2>4, <3>1 DEF Login
    <2> QED
      BY <2>1, <2>5, <2>6
  <1>3. CASE ReadNothing /\ Reject
    <2>1. /\ toClient' \in [Clients -> Seq(Replies)] /\ broken' \subseteq Clients
          /\ Leave(FALSE) \/ Die
      BY <1>1, <1>3, ReplyType, Texts DEF Reject, Reply, TypeOK
    <2> QED
      BY <1>1, <1>3, <2>1 DEF Login, ReadNothing, TypeOK
  <1> QED
    BY <1>2, <1>3 DEF Login

\* What the execution of a line does
LEMMA ExecuteLemma ==
  ASSUME TypeOK, conn \in Clients, NEW meaning, Execute(meaning)
  PROVE  /\ isInvalid' \in BOOLEAN /\ (isInvalid => isInvalid' /\ listed' = listed)
         /\ listed' \in {listed, listed \cup {conn}}
         /\ toClient' \in [Clients -> Seq(Replies)] /\ broken' \subseteq Clients
         /\ Stay("command") \/ Leave(TRUE) \/ Die
  <1>1. CASE \E text \in {"listing", "newline"} : Answer(text)
    <2>1. CASE isInvalid
      BY <1>1, <2>1 DEF Answer, TypeOK
    <2>2. CASE ~isInvalid
      <3>1. PICK text \in {"listing", "newline"} : Answer(text)
        BY <1>1
      <3>3. text \in Replies /\ Reply(text, Stay("command"))
        BY <2>2, <3>1, Texts DEF Answer
      <3>2. /\ toClient' \in [Clients -> Seq(Replies)] /\ broken' \subseteq Clients
            /\ Stay("command") \/ Die
        BY <3>3, ReplyType DEF Reply, TypeOK
      <3> QED
        BY <2>2, <3>1, <3>2 DEF Answer, TypeOK
    <2> QED
      BY <2>1, <2>2
  <1>2. CASE \E text \in {"Client closed the connection",
                          "Invalid argument. Closing client connection"} : Refuse(text)
    <2>1. PICK text \in {"Client closed the connection",
                         "Invalid argument. Closing client connection"} : Refuse(text)
      BY <1>2
    <2>3. text \in Replies /\ Reply(text, Leave(TRUE))
      BY <2>1, Texts DEF Refuse
    <2>2. /\ toClient' \in [Clients -> Seq(Replies)] /\ broken' \subseteq Clients
          /\ Leave(TRUE) \/ Die
      BY <2>3, ReplyType DEF Reply, TypeOK
    <2> QED
      BY <2>1, <2>2 DEF Refuse
  <1>3. CASE Crash
    BY <1>3 DEF Crash, TypeOK
  <1> QED
    BY <1>1, <1>2, <1>3 DEF Execute

\* What a read of a command does
LEMMA CommandLemma ==
  ASSUME IInv, Command
  PROVE  /\ server = "command" /\ conn \in Clients
         /\ UNCHANGED <<client, offered>>
         /\ toServer' \in [Clients -> Seq(Lines)]
         /\ \A c \in Clients : c # conn => toServer'[c] = toServer[c]
         /\ isInvalid' \in BOOLEAN /\ (isInvalid => isInvalid' /\ listed' = listed)
         /\ listed' \in {listed, listed \cup {conn}}
         /\ toClient' \in [Clients -> Seq(Replies)] /\ broken' \subseteq Clients
         /\ Stay("command") \/ Leave(TRUE) \/ Die
  <1>1. TypeOK /\ server = "command" /\ conn \in Clients
    BY DEF IInv, Command, TypeOK
  <1>2. \E meaning : Execute(meaning)
    BY DEF Command
  <1>3. /\ toServer' \in [Clients -> Seq(Lines)]
        /\ \A c \in Clients : c # conn => toServer'[c] = toServer[c]
    <2>1. CASE \E n \in 1 .. Len(toServer[conn]) : ReadLines(n)
      <3>1. PICK n \in 1 .. Len(toServer[conn]) : toServer' = Consume(toServer, conn, n)
        BY <2>1 DEF ReadLines
      <3>2. toServer' \in [Clients -> Seq(Lines)]
        BY <1>1, <3>1, ConsumeType DEF TypeOK
      <3> QED
        BY <1>1, <3>1, <3>2 DEF Consume, TypeOK
    <2>2. CASE ReadNothing
      BY <1>1, <2>2 DEF ReadNothing, TypeOK
    <2> QED
      BY <2>1, <2>2 DEF Command
  <1> QED
    BY <1>1, <1>2, <1>3, ExecuteLemma DEF Command

\* What a step of a client does to what the server sees
Writes(c) ==
  \/ UNCHANGED <<toServer, offered>>
  \/ \E line \in Lines :
       /\ toServer' = [toServer EXCEPT ![c] = Append(@, line)]
       /\ offered' = [offered EXCEPT ![c] = Offer(@, line)]

Connects(c) ==
  \/ pending' = pending
  \/ pending' = Append(pending, c) /\ client[c] = "connect" /\ server # "dead"

LEMMA ClientLemma ==
  ASSUME TypeOK, NEW c \in Clients, Client(c)
  PROVE  /\ UNCHANGED <<server, conn, isInvalid, closed, broken, listed>>
         /\ client' \in [Clients -> {"connect", "login", "line", "read", "finished", "gone"}]
         /\ client'[c] # "connect" /\ \A d \in Clients : d # c => client'[d] = client[d]
         /\ toClient' \in [Clients -> Seq(Replies)]
         /\ Connects(c) /\ Writes(c)
  <1>1. \E next \in {"login", "line", "read", "finished", "gone"} :
          client' = [client EXCEPT ![c] = next]
    BY DEF Client, Connect, TypeCredentials, TypeLine, Write, ReadReply, ReadClosed,
           Interrupt, Exits, Goes
  <1>2. toClient' \in [Clients -> Seq(Replies)]
    <2> <<>> \in Seq(Replies)
      OBVIOUS
    <2>1. CASE toClient' = [toClient EXCEPT ![c] = <<>>] \/ toClient' = toClient
      BY <2>1 DEF TypeOK
    <2>2. CASE \E n \in 1 .. Len(toClient[c]) : toClient' = Consume(toClient, c, n)
      <3>1. toClient \in [Clients -> Seq(Replies)]
        BY DEF TypeOK
      <3> QED
        BY <2>2, <3>1, ConsumeType
    <2> QED
      BY <2>1, <2>2 DEF Client, Connect, TypeCredentials, TypeLine, Write, ReadReply,
                        ReadClosed, Interrupt, Exits, streams
  <1>3. Connects(c) /\ UNCHANGED <<server, conn, isInvalid, closed, broken, listed>>
    BY DEF Client, Connect, TypeCredentials, TypeLine, ReadReply, ReadClosed, Interrupt,
           serverVars, Connects
  <1>4. Writes(c)
    BY DEF Client, Connect, TypeCredentials, TypeLine, Write, ReadReply, ReadClosed,
           Interrupt, streams, Writes
  <1> QED
    BY <1>1, <1>2, <1>3, <1>4 DEF TypeOK

\* A read of nothing or an accept that fails
LEMMA ErrorLemma ==
  ReadError \/ AcceptFails => Die /\ UNCHANGED <<client, streams, isInvalid, broken, listed, offered>>
  BY DEF ReadError, ReadNothing, AcceptFails, streams

-----------------------------------------------------------------------------
(* Each part of the invariant *)

LEMMA InitIInv == Init => IInv
  <1> SUFFICES ASSUME Init PROVE IInv
    OBVIOUS
  <1> <<>> \in Seq(Lines) /\ <<>> \in Seq(Replies) /\ <<>> \in Seq(Clients)
    OBVIOUS
  <1>1. TypeOK
    BY ClientsAssumption DEF Init, TypeOK
  <1>2. DOMAIN pending = {}
    BY DEF Init
  <1>3. Queue /\ Verified /\ ListingAfterLogin /\ ClosedAfterLogin
    BY <1>2, ClientsAssumption DEF Init, Queue, Verified, ListingAfterLogin, ClosedAfterLogin
  <1>4. Unread
    BY DEF Init, Unread, Offered
  <1> QED
    BY <1>1, <1>3, <1>4 DEF IInv

LEMMA TypeStep == IInv /\ [Next]_vars => TypeOK'
  <1> SUFFICES ASSUME IInv, [Next]_vars PROVE TypeOK'
    OBVIOUS
  <1>t. TypeOK
    BY DEF IInv
  <1>e. <<>> \in Seq(Clients)
    OBVIOUS
  <1>1. CASE Accept
    <2>1. Tail(pending) \in Seq(Clients) /\ Head(pending) \in Clients
      BY <1>1, <1>t, TailSeq DEF Accept, TypeOK
    <2> QED
      BY <1>1, <1>t, <2>1, ClientsAssumption DEF Accept, TypeOK, streams
  <1>2. CASE Login
    <2>1. (Stay("command") /\ conn \in Clients) \/ Leave(FALSE) \/ Die
      BY <1>2, LoginLemma
    <2>2. /\ pending' \in Seq(Clients) /\ closed' \subseteq Clients
          /\ server' \in {"accept", "command", "dead"} /\ conn' \in Clients \cup {NoClient}
          /\ (conn' = NoClient) = (server' \in {"accept", "dead"})
      <3>1. CASE Stay("command") /\ conn \in Clients
        BY <3>1, <1>t, ClientsAssumption DEF TypeOK, Stay
      <3>2. CASE Leave(FALSE)
        BY <3>2, <1>t DEF TypeOK, Leave
      <3>3. CASE Die
        BY <3>3, <1>t, <1>e DEF TypeOK, Die
      <3> QED
        BY <2>1, <3>1, <3>2, <3>3
    <2> QED
      BY <1>2, <1>t, <2>2, LoginLemma DEF TypeOK
  <1>3. CASE Command
    BY <1>3, <1>t, <1>e, CommandLemma, ClientsAssumption DEF TypeOK, Stay, Leave, Die
  <1>4. CASE ReadError \/ AcceptFails
    BY <1>4, <1>t, <1>e, ErrorLemma DEF TypeOK, Die, streams
  <1>5. ASSUME NEW c \in Clients, Client(c) PROVE TypeOK'
    <2> USE <1>t, <1>5, ClientLemma
    <2>1. pending' \in Seq(Clients)
      <3>1. Append(pending, c) \in Seq(Clients) /\ pending \in Seq(Clients)
        BY DEF TypeOK
      <3> QED
        BY <3>1 DEF Connects
    <2>2. toServer' \in [Clients -> Seq(Lines)] /\ offered' \in [Clients -> {"none", "part", "right", "wrong"}]
      <3>1. \A line \in Lines : Append(toServer[c], line) \in Seq(Lines)
        BY DEF TypeOK
      <3>3. /\ toServer \in [Clients -> Seq(Lines)]
            /\ offered \in [Clients -> {"none", "part", "right", "wrong"}]
        BY DEF TypeOK
      <3>4. CASE UNCHANGED <<toServer, offered>>
        BY <3>3, <3>4
      <3>5. ASSUME NEW line \in Lines,
                   toServer' = [toServer EXCEPT ![c] = Append(@, line)],
                   offered' = [offered EXCEPT ![c] = Offer(@, line)]
            PROVE  /\ toServer' \in [Clients -> Seq(Lines)]
                   /\ offered' \in [Clients -> {"none", "part", "right", "wrong"}]
        <4>1. toServer' \in [Clients -> Seq(Lines)]
          BY <3>1, <3>3, <3>5
        <4>2. Offer(offered[c], line) \in {"none", "part", "right", "wrong"}
          BY <3>3 DEF Offer
        <4>3. offered' \in [Clients -> {"none", "part", "right", "wrong"}]
          BY <3>3, <3>5, <4>2
        <4> QED
          BY <4>1, <4>3
      <3> QED
        BY <3>4, <3>5 DEF Writes
    <2> QED
      BY <2>1, <2>2 DEF TypeOK
  <1>6. CASE UNCHANGED vars
    BY <1>t, <1>6 DEF TypeOK, vars, streams, serverVars
  <1> QED
    BY <1>1, <1>2, <1>3, <1>4, <1>5, <1>6 DEF Next, Server

LEMMA QueueStep == IInv /\ [Next]_vars => Queue'
  <1> SUFFICES ASSUME IInv, [Next]_vars PROVE Queue'
    OBVIOUS
  <1>t. TypeOK /\ Queue
    BY DEF IInv
  <1>1. CASE Accept
    <2>1. pending \in Seq(Clients) /\ pending # <<>>
      BY <1>1, <1>t DEF Accept, TypeOK
    <2>2. /\ Head(pending) = pending[1] /\ 1 \in DOMAIN pending
          /\ \A i \in DOMAIN Tail(pending) :
               i + 1 \in DOMAIN pending /\ Tail(pending)[i] = pending[i + 1] /\ i \in Nat \ {0}
      BY <2>1, TailSeq
    <2> QED
      BY <1>1, <1>t, <2>2 DEF Accept, Queue
  <1>2. CASE Login \/ Command \/ ReadError \/ AcceptFails
    <2>1. client' = client /\ (pending' = pending \/ pending' = <<>>)
      BY <1>2, LoginLemma, CommandLemma, ErrorLemma DEF Stay, Leave, Die
    <2>2. conn' \in {conn, NoClient}
      BY <1>2, LoginLemma, CommandLemma, ErrorLemma DEF Stay, Leave, Die
    <2>3. \A i \in DOMAIN pending : pending[i] \in Clients
      BY <1>t DEF TypeOK
    <2> QED
      BY <1>t, <2>1, <2>2, <2>3, ClientsAssumption DEF Queue
  <1>3. ASSUME NEW c \in Clients, Client(c) PROVE Queue'
    <2> USE <1>t, <1>3, ClientLemma
    <2>1. CASE pending' = pending
      BY <2>1 DEF Queue, TypeOK
    <2>2. CASE pending' = Append(pending, c) /\ client[c] = "connect"
      <3>1. \A i \in DOMAIN pending' :
              \/ i \in DOMAIN pending /\ pending'[i] = pending[i] /\ pending[i] # c
              \/ i = Len(pending) + 1 /\ pending'[i] = c
        BY <2>2, AppendSeq DEF TypeOK, Queue
      <3>2. conn' = conn /\ conn # c
        BY <2>2 DEF Queue
      <3>3. \A i, j \in DOMAIN pending' : pending'[i] = pending'[j] => i = j
        BY <3>1 DEF Queue
      <3>4. \A i \in DOMAIN pending : pending[i] \in Clients
        BY DEF TypeOK
      <3>5. \A i \in DOMAIN pending' : pending'[i] # conn' /\ client'[pending'[i]] # "connect"
        BY <3>1, <3>2, <3>4 DEF Queue
      <3>6. conn' \in Clients => client'[conn'] # "connect"
        BY <3>2 DEF Queue
      <3> QED
        BY <3>3, <3>5, <3>6 DEF Queue
    <2> QED
      BY <2>1, <2>2 DEF Connects
  <1>4. CASE UNCHANGED vars
    BY <1>t, <1>4 DEF Queue, vars, serverVars
  <1> QED
    BY <1>1, <1>2, <1>3, <1>4 DEF Next, Server

LEMMA UnreadStep == IInv /\ [Next]_vars => Unread'
  <1> SUFFICES ASSUME IInv, [Next]_vars, NEW d \in Clients, Fresh(d)'
               PROVE  offered'[d] = Offered(toServer'[d])
    BY DEF Unread
  <1>t. TypeOK /\ Queue /\ Unread
    BY DEF IInv
  <1>1. CASE Accept
    <2>1. Head(pending) = pending[1] /\ 1 \in DOMAIN pending
          /\ \A i \in DOMAIN Tail(pending) :
               i + 1 \in DOMAIN pending /\ Tail(pending)[i] = pending[i + 1]
      BY <1>1, <1>t, TailSeq DEF Accept, TypeOK
    <2>2. Fresh(d)
      BY <1>1, <2>1 DEF Accept, Fresh, Waits
    <2> QED
      BY <1>1, <1>t, <2>2 DEF Unread, Accept, streams
  <1>2. CASE Login \/ Command
    <2>1. /\ client' = client /\ offered' = offered /\ conn \in Clients
          /\ \A c \in Clients : c # conn => toServer'[c] = toServer[c]
          /\ server' # "login" /\ (pending' = pending \/ pending' = <<>>)
      BY <1>2, LoginLemma, CommandLemma DEF Stay, Leave, Die
    <2>2. Fresh(d) /\ d # conn
      BY <1>t, <2>1 DEF Fresh, Waits, Queue
    <2> QED
      BY <1>t, <2>1, <2>2 DEF Unread
  <1>3. CASE ReadError \/ AcceptFails
    <2>1. UNCHANGED <<client, toServer, offered>> /\ server' = "dead" /\ pending' = <<>>
      BY <1>3, ErrorLemma DEF streams, Die
    <2>2. Fresh(d)
      BY <2>1 DEF Fresh, Waits
    <2> QED
      BY <1>t, <2>1, <2>2 DEF Unread
  <1>4. ASSUME NEW c \in Clients, Client(c)
        PROVE  offered'[d] = Offered(toServer'[d])
    <2> USE <1>t, <1>4, ClientLemma
    <2>1. Fresh(d)
      <3>1. CASE pending' = pending
        BY <3>1 DEF Fresh, Waits
      <3>2. CASE pending' = Append(pending, c) /\ client[c] = "connect"
        <4>1. \A i \in DOMAIN pending' :
                (i \in DOMAIN pending /\ pending'[i] = pending[i]) \/ pending'[i] = c
          BY <3>2, AppendSeq DEF TypeOK
        <4> QED
          BY <3>2, <4>1 DEF Fresh, Waits
      <3> QED
        BY <3>1, <3>2 DEF Connects
    <2>2. CASE UNCHANGED <<toServer, offered>>
      BY <2>1, <2>2 DEF Unread
    <2>3. ASSUME NEW line \in Lines,
                 toServer' = [toServer EXCEPT ![c] = Append(@, line)],
                 offered' = [offered EXCEPT ![c] = Offer(@, line)]
          PROVE  offered'[d] = Offered(toServer'[d])
      <3>1. CASE d # c
        BY <2>1, <2>3, <3>1 DEF Unread, TypeOK
      <3>2. CASE d = c
        <4>1. /\ toServer'[d] = Append(toServer[d], line) /\ toServer[d] \in Seq(Lines)
              /\ offered'[d] = Offer(offered[d], line)
          BY <2>3, <3>2 DEF TypeOK
        <4>2. offered[d] = Offered(toServer[d])
          BY <2>1 DEF Unread
        <4> QED
          BY <2>3, <4>1, <4>2, OfferedAppend
      <3> QED
        BY <3>1, <3>2
    <2> QED
      BY <2>2, <2>3 DEF Writes
  <1>5. CASE UNCHANGED vars
    BY <1>t, <1>5 DEF Unread, Fresh, Waits, vars, streams, serverVars
  <1> QED
    BY <1>1, <1>2, <1>3, <1>4, <1>5 DEF Next, Server

\* Credentials that are right stay so
LEMMA OfferStep ==
  IInv /\ [Next]_vars => \A d \in Clients : offered[d] = "right" => offered'[d] = "right"
  <1> SUFFICES ASSUME IInv, [Next]_vars, NEW d \in Clients, offered[d] = "right"
               PROVE  offered'[d] = "right"
    OBVIOUS
  <1>t. TypeOK
    BY DEF IInv
  <1>1. CASE Server
    BY <1>1 DEF Server, Accept, AcceptFails, Login, Command, ReadError
  <1>2. ASSUME NEW c \in Clients, Client(c) PROVE offered'[d] = "right"
    BY <1>t, <1>2, ClientLemma DEF Writes, Offer, TypeOK
  <1>3. CASE UNCHANGED vars
    BY <1>3 DEF vars
  <1> QED
    BY <1>1, <1>2, <1>3 DEF Next

LEMMA LoginStep ==
  IInv /\ [Next]_vars => Verified' /\ ListingAfterLogin' /\ ClosedAfterLogin'
  <1> SUFFICES ASSUME IInv, [Next]_vars
               PROVE  Verified' /\ ListingAfterLogin' /\ ClosedAfterLogin'
    OBVIOUS
  <1>t. /\ TypeOK /\ Verified /\ ListingAfterLogin /\ ClosedAfterLogin
        /\ \A d \in Clients : offered[d] = "right" => offered'[d] = "right"
    BY OfferStep DEF IInv
  <1> USE <1>t DEF TypeOK, Verified, ListingAfterLogin, ClosedAfterLogin
  <1>1. CASE Accept
    BY <1>1 DEF Accept
  <1>2. CASE Login
    BY <1>2, LoginLemma DEF Stay, Leave, Die
  <1>3. CASE Command
    BY <1>3, CommandLemma DEF Stay, Leave, Die
  <1>4. CASE ReadError \/ AcceptFails
    BY <1>4, ErrorLemma DEF Die
  <1>5. CASE \E c \in Clients : Client(c)
    BY <1>5, ClientLemma
  <1>6. CASE UNCHANGED vars
    BY <1>6 DEF vars, serverVars
  <1> QED
    BY <1>1, <1>2, <1>3, <1>4, <1>5, <1>6 DEF Next, Server

-----------------------------------------------------------------------------
(* Theorems *)

THEOREM Inductive == Spec => []IInv
  <1>1. IInv /\ [Next]_vars => IInv'
    BY TypeStep, UnreadStep, QueueStep, LoginStep DEF IInv
  <1> QED
    BY <1>1, InitIInv, PTL DEF Spec

\* Types of all variables, whatever the clients write and whenever they end
\* (tcpServer.c:230-316, tcpClient.c:70-96).
THEOREM TypeCorrect == Spec => []TypeOK
  <1>1. IInv => TypeOK
    BY DEF IInv
  <1> QED
    BY <1>1, Inductive, PTL

\* No client gets a listing unless its first line, or its first two lines joined,
\* were the right credentials (tcpServer.c:239-254).
THEOREM ListingNeedsLogin == Spec => []ListingAfterLogin
  <1>1. IInv => ListingAfterLogin
    BY DEF IInv
  <1> QED
    BY <1>1, Inductive, PTL

\* A connection with wrong credentials is never closed by a running server
\* (tcpServer.c:245-248).
THEOREM ClosedNeedsLogin == Spec => []ClosedAfterLogin
  <1>1. IInv => ClosedAfterLogin
    BY DEF IInv
  <1> QED
    BY <1>1, Inductive, PTL

\* After one exit or invalid line nobody is sent a listing (tcpServer.c:309).
THEOREM InvalidEndsListings == Spec => NoListingAfterInvalid
  <1>1. IInv /\ [Next]_vars => [isInvalid => listed' = listed /\ isInvalid']_vars
    <2> SUFFICES ASSUME IInv, [Next]_vars, isInvalid
                 PROVE  listed' = listed /\ isInvalid'
      OBVIOUS
    <2>t. TypeOK
      BY DEF IInv
    <2>1. CASE Accept
      BY <2>1 DEF Accept
    <2>2. CASE Login
      BY <2>2, LoginLemma
    <2>3. CASE Command
      BY <2>3, CommandLemma
    <2>4. CASE ReadError \/ AcceptFails
      BY <2>4, ErrorLemma
    <2>5. CASE \E c \in Clients : Client(c)
      BY <2>t, <2>5, ClientLemma
    <2>6. CASE UNCHANGED vars
      BY <2>6 DEF vars, serverVars
    <2> QED
      BY <2>1, <2>2, <2>3, <2>4, <2>5, <2>6 DEF Next, Server
  <1> QED
    BY <1>1, Inductive, PTL DEF Spec, NoListingAfterInvalid

\* The server writes to the client it serves, which it does not do while there is
\* nothing to read
LEMMA ServesOne ==
  ASSUME IInv, Login \/ Command, NEW c \in Clients
  PROVE  /\ c # conn => toClient'[c] = toClient[c]
         /\ c = conn => toServer[c] # <<>> \/ Gone(c)
  <1>1. conn \in Clients /\ toServer \in [Clients -> Seq(Lines)] /\ toClient \in [Clients -> Seq(Replies)]
    BY LoginLemma, CommandLemma DEF IInv, TypeOK
  <1>2. toServer[conn] # <<>> \/ Gone(conn)
    BY <1>1 DEF Login, Command, ReadLines, ReadNothing
  <1>3. \/ toClient' = toClient
        \/ \E text : toClient' = [toClient EXCEPT ![conn] = Append(@, text)]
    <2>1. CASE Login
      BY <2>1 DEF Login, Verify, Reject, Reply
    <2>2. CASE Command
      BY <2>2 DEF Command, Execute, Answer, Refuse, Crash, Reply
    <2> QED
      BY <2>1, <2>2
  <1> QED
    BY <1>1, <1>2, <1>3

\* A client that was left with its connection open, or that waits for an answer to
\* an empty line, waits until it is killed or the server ends, whatever all others do
\* (tcpServer.c:243-249, 259, tcpClient.c:81-87).
THEOREM StuckStays == Spec => StuckForGood
  <1>1. ASSUME IInv, [Next]_vars, NEW c \in Clients, Stuck(c)
        PROVE  Stuck(c)' \/ Gone(c)' \/ server' = "dead"
    <2>t. /\ TypeOK /\ client[c] = "read" /\ toClient[c] = <<>> /\ c \notin closed /\ ~Gone(c)
          /\ conn = c => toServer[c] = <<>>
          /\ conn # c => \A k \in DOMAIN pending : pending[k] # c
      BY <1>1 DEF IInv, Stuck, Gone
    <2>1. CASE Accept
      <3>1. conn # c /\ pending # <<>> /\ pending \in Seq(Clients)
        BY <2>t, <2>1, ClientsAssumption DEF Accept, TypeOK
      <3>2. conn' # c /\ \A k \in DOMAIN pending' : pending'[k] # c
        BY <2>t, <2>1, <3>1, TailSeq DEF Accept
      <3> QED
        BY <2>t, <2>1, <3>2 DEF Accept, streams, Stuck
    <2>2. CASE Login \/ Command
      <3>1. conn # c /\ toClient'[c] = toClient[c]
        BY <1>1, <2>t, <2>2, ServesOne
      <3>2. /\ client' = client /\ conn \in Clients
            /\ Stay("command") \/ Leave(FALSE) \/ Leave(TRUE) \/ Die
        BY <1>1, <2>2, LoginLemma, CommandLemma
      <3>3. server' = "dead" \/ (conn' # c /\ c \notin closed' /\ pending' = pending)
        BY <2>t, <3>1, <3>2, ClientsAssumption DEF Stay, Leave, Die
      <3> QED
        <4>1. ASSUME conn' # c, c \notin closed', pending' = pending
              PROVE  Stuck(c)'
          BY <2>t, <3>1, <3>2, <4>1 DEF Stuck
        <4> QED
          BY <3>3, <4>1
    <2>3. CASE ReadError \/ AcceptFails
      BY <2>3, ErrorLemma DEF Die
    <2>4. CASE Client(c)
      <3>1. Interrupt(c)
        BY <2>t, <2>4 DEF Client, Connect, TypeCredentials, TypeLine, ReadReply, ReadClosed
      <3> QED
        BY <2>t, <3>1 DEF Interrupt, Exits, Goes, Gone, TypeOK
    <2>5. ASSUME NEW d \in Clients, d # c, Client(d)
          PROVE  Stuck(c)'
      <3>1. client'[c] = client[c] /\ closed' = closed /\ conn' = conn
        BY <2>t, <2>5, ClientLemma
      <3>2. toServer'[c] = toServer[c]
        BY <2>t, <2>5, ClientLemma DEF Writes, TypeOK
      <3>3. toClient'[c] = toClient[c]
        BY <2>t, <2>5 DEF Client, Connect, TypeCredentials, TypeLine, Write, ReadReply, ReadClosed,
          Interrupt, Exits, Consume, streams, TypeOK
      <3>4. conn # c => \A k \in DOMAIN pending' : pending'[k] # c
        <4>1. Connects(d) /\ pending \in Seq(Clients)
          BY <2>t, <2>5, ClientLemma DEF TypeOK
        <4> QED
          BY <2>t, <2>5, <4>1, AppendSeq DEF Connects
      <3> QED
        BY <2>t, <3>1, <3>2, <3>3, <3>4 DEF Stuck
    <2>6. CASE UNCHANGED vars
      BY <1>1, <2>6 DEF vars, serverVars, streams, Stuck
    <2> QED
      BY <1>1, <2>1, <2>2, <2>3, <2>4, <2>5, <2>6 DEF Next, Server
  <1>2. IInv /\ [Next]_vars =>
          [\A c \in Clients : Stuck(c) => Stuck(c)' \/ Gone(c)' \/ server' = "dead"]_vars
    BY <1>1
  <1> QED
    BY <1>2, Inductive, PTL DEF Spec, StuckForGood
=============================================================================
