-------------------------- MODULE CopyServiceProofs -------------------------
(***************************************************************************)
(* Theorems about CopyService, for every set of clients, every length of   *)
(* the source and of the old file, and every length passed to recv.        *)
(*                                                                         *)
(* What dfd stands for depends on whether a client was served: before, it  *)
(* is the file and the client served is the first one (Before); after, it  *)
(* is the number that every accept() returns (Later).                      *)
(*                                                                         *)
(* While every recv takes a single byte, the file followed by the unread   *)
(* bytes is what the first client has sent (Bytewise).                     *)
(***************************************************************************)
EXTENDS CopyService, SequenceTheorems, TLAPS

\* A client that has not connected has sent nothing
Unborn ==
  \A c \in Clients : client[c] = "connect" => sent[c] = <<>> /\ taken[c] = 0 /\ c # first

Resets == \A c \in Clients : reset[c] # "none" => c \in echoed

Queue ==
  /\ \A i, j \in DOMAIN pending : pending[i] = pending[j] => i = j
  /\ \A i \in DOMAIN pending :
       /\ client[pending[i]] # "connect" /\ pending[i] \notin told
       /\ server = "recv" => pending[i] # Peer

Serving ==
  server = "recv" =>
    /\ newSd \in Fds /\ Peer \in Clients /\ Peer \notin told /\ client[Peer] # "connect"
    /\ \A fd \in Fds \ {newSd, dfd} : table[fd] = Free

Before ==
  told = {} =>
    /\ echoed = {} /\ server # "dead"
    /\ server = "accept" =>
         /\ \A fd \in Fds : table[fd] = IF fd = dfd THEN File ELSE Free
         /\ IF first = NoClient THEN pending = <<>> ELSE pending # <<>> /\ pending[1] = first
    /\ server = "recv" =>
         first = Peer /\ newSd # dfd /\ Target = IF dfd = NoFd THEN Free ELSE File

Later ==
  told # {} =>
    /\ first \in told /\ \A c \in told : Gone(c)
    /\ server = "accept" => \A fd \in Fds : table[fd] = Free
    /\ server = "recv" => newSd = 4 /\ Target = IF dfd = NoFd THEN Free ELSE Peer

IInv ==
  /\ TypeOK /\ Unborn /\ Resets /\ Queue /\ Serving /\ Before /\ Later /\ DeathNeedsEcho

-----------------------------------------------------------------------------
(* Lemmas *)

LEMMA Constants ==
  NoClient \notin Clients /\ Free \notin Clients /\ File \notin Clients /\ Free # File
  BY ClientsAssumption, FilesAssumption

LEMMA TailSeq ==
  ASSUME NEW S, NEW s \in Seq(S), s # <<>>
  PROVE  /\ Tail(s) \in Seq(S) /\ Head(s) = s[1] /\ 1 \in DOMAIN s
         /\ \A i \in DOMAIN Tail(s) : i \in Nat \ {0} /\ i + 1 \in DOMAIN s /\ Tail(s)[i] = s[i + 1]
  OBVIOUS

LEMMA AppendSeq ==
  ASSUME NEW S, NEW s \in Seq(S), NEW e \in S
  PROVE  /\ Append(s, e) \in Seq(S)
         /\ Append(s, e) # <<>> /\ Append(s, e)[1] = IF s = <<>> THEN e ELSE s[1]
         /\ \A i \in DOMAIN Append(s, e) :
              \/ i \in DOMAIN s /\ Append(s, e)[i] = s[i]
              \/ i = Len(s) + 1 /\ Append(s, e)[i] = e
  OBVIOUS

LEMMA ElementType ==
  ASSUME NEW S, NEW s \in Seq(S), NEW i \in 1 .. Len(s)
  PROVE  s[i] \in S
  OBVIOUS

\* What a write to the descriptor dfd does, for the first client and for the others
LEMMA WriteLemma ==
  ASSUME IInv, server = "recv", NEW byte \in Byte,
         NEW r \in {"none", "abort", "refused", "reported"},
         r # "none" => reset[Peer] # "none", Write(byte, r)
  PROVE  /\ told = {} => /\ reset' = [reset EXCEPT ![Peer] = r]
                         /\ written' = IF dfd = NoFd THEN written ELSE Append(written, byte)
                         /\ UNCHANGED echoed /\ Stay
         /\ told # {} => /\ \E s \in {"none", "abort", "refused", "reported"} :
                              /\ reset' = [reset EXCEPT ![Peer] = s]
                              /\ s # "none" => Peer \in echoed'
                         /\ echoed' \in {echoed, echoed \cup {Peer}} /\ UNCHANGED written
                         /\ Stay \/ (Ends("dead") /\ echoed # {})
  <1>t. /\ TypeOK /\ Resets /\ Serving /\ Before /\ Later
        /\ Peer \in Clients
    BY DEF IInv, Serving
  <1>1. CASE told = {}
    <2>1. Target = IF dfd = NoFd THEN Free ELSE File
      BY <1>1, <1>t DEF Before
    <2> QED
      BY <1>1, <2>1, Constants DEF Write, ToFile
  <1>2. CASE told # {}
    <2>1. Target = IF dfd = NoFd THEN Free ELSE Peer
      BY <1>2, <1>t DEF Later
    <2>2. r # "none" => Peer \in echoed
      BY <1>t DEF Resets
    <2>3. CASE dfd = NoFd
      <3>1. reset' = [reset EXCEPT ![Peer] = r] /\ UNCHANGED <<written, echoed>> /\ Stay
        BY <2>1, <2>3, Constants DEF Write
      <3> QED
        BY <1>2, <2>2, <3>1
    <2>4. CASE dfd # NoFd
      <3>1. Echo(Peer, r) /\ UNCHANGED written
        BY <1>t, <2>1, <2>4, Constants DEF Write
      <3>2. CASE /\ ~Gone(Peer) \/ r = "none"
                 /\ echoed' = echoed \cup {Peer}
                 /\ reset' = [reset EXCEPT ![Peer] = IF Gone(Peer) THEN "refused" ELSE @]
                 /\ Stay
        <4>1. PICK s \in {"none", "abort", "refused", "reported"} :
                 s = IF Gone(Peer) THEN "refused" ELSE reset[Peer]
          BY <1>t DEF TypeOK
        <4> QED
          BY <1>2, <1>t, <3>1, <3>2, <4>1
      <3>3. CASE /\ Gone(Peer) /\ r \in {"abort", "refused"}
                 /\ \E s \in {r, "reported"} : reset' = [reset EXCEPT ![Peer] = s]
                 /\ UNCHANGED echoed /\ Stay
        BY <1>2, <2>2, <3>1, <3>3
      <3>4. CASE Gone(Peer) /\ r # "none" /\ UNCHANGED <<echoed, reset>> /\ Ends("dead")
        <4>1. reset' = [reset EXCEPT ![Peer] = reset[Peer]]
          BY <1>t, <3>4 DEF TypeOK
        <4>2. reset[Peer] \in {"none", "abort", "refused", "reported"}
          BY <1>t DEF TypeOK
        <4> QED
          BY <1>2, <2>2, <3>1, <3>4, <4>1, <4>2
      <3> QED
        BY <3>1, <3>2, <3>3, <3>4 DEF Echo
    <2> QED
      BY <2>3, <2>4
  <1> QED
    BY <1>1, <1>2

\* What a recv that returns bytes or an error does
LEMMA ReceiveLemma ==
  ASSUME IInv, Receive \/ ReceiveError
  PROVE  /\ server = "recv" /\ UNCHANGED <<clientVars, dfd, newSd, old, told, first>>
         /\ taken' \in [Clients -> Nat] /\ \A c \in Clients : c # Peer => taken'[c] = taken[c]
         /\ joined' \subseteq Clients /\ written' \in Seq(Byte)
         /\ reset' \in [Clients -> {"none", "abort", "refused", "reported"}]
         /\ \A c \in Clients : reset'[c] # "none" => c \in echoed'
         /\ echoed' \subseteq Clients /\ first \notin echoed'
         /\ told = {} => echoed' = {} /\ Stay
         /\ told # {} => written' = written
         /\ Stay \/ (Ends("dead") /\ echoed' # {})
  <1>t. /\ TypeOK /\ Resets /\ Serving /\ Before /\ Later /\ DeathNeedsEcho
        /\ server = "recv" /\ Peer \in Clients
        /\ reset[Peer] \in {"none", "abort", "refused", "reported"}
    BY DEF IInv, Serving, Receive, ReceiveError, TypeOK
  <1>1. PICK byte \in Byte, r \in {"none", "abort", "refused", "reported"} :
           /\ Write(byte, r) /\ (r # "none" => reset[Peer] # "none")
           /\ UNCHANGED <<clientVars, dfd, newSd, old, told, first>>
           /\ taken' \in [Clients -> Nat] /\ \A c \in Clients : c # Peer => taken'[c] = taken[c]
           /\ joined' \subseteq Clients
           /\ told = {} => r = reset[Peer]
    <2>1. CASE Receive
      <3>1. PICK n \in 1 .. Unread(Peer) :
              /\ taken' = [taken EXCEPT ![Peer] = @ + n]
              /\ joined' = IF n > 1 THEN joined \cup {Peer} ELSE joined
        BY <2>1 DEF Receive
      <3>2. taken[Peer] + 1 \in 1 .. Len(sent[Peer]) /\ taken[Peer] \in Nat
        BY <1>t, <3>1 DEF TypeOK, Unread
      <3>3. sent[Peer][taken[Peer] + 1] \in Byte
        BY <1>t, <3>2, ElementType DEF TypeOK
      <3>4. taken' \in [Clients -> Nat] /\ joined' \subseteq Clients
            /\ \A c \in Clients : c # Peer => taken'[c] = taken[c]
        BY <1>t, <3>1, <3>2 DEF TypeOK
      <3> QED
        BY <1>t, <2>1, <3>3, <3>4 DEF Receive
    <2>2. CASE ReceiveError
      <3>1. <<Peer, 0>> \in Byte
        BY <1>t, FilesAssumption DEF Byte
      <3>2. told # {}
        BY <1>t, <2>2 DEF ReceiveError, Resets, Before
      <3> QED
        BY <1>t, <2>2, <3>1, <3>2 DEF ReceiveError, TypeOK, history
    <2> QED
      BY <2>1, <2>2
  <1>2. CASE told = {}
    <2>1. /\ reset' = [reset EXCEPT ![Peer] = reset[Peer]] /\ UNCHANGED echoed /\ Stay
          /\ written' = IF dfd = NoFd THEN written ELSE Append(written, byte)
      BY <1>t, <1>1, <1>2, WriteLemma
    <2>2. written' \in Seq(Byte)
      BY <1>t, <1>1, <2>1, AppendSeq DEF TypeOK
    <2>3. reset' = reset
      BY <1>t, <2>1 DEF TypeOK
    <2> QED
      BY <1>t, <1>1, <1>2, <2>1, <2>2, <2>3 DEF TypeOK, Resets, Before, DeathNeedsEcho
  <1>3. CASE told # {}
    <2>1. PICK s \in {"none", "abort", "refused", "reported"} :
            /\ reset' = [reset EXCEPT ![Peer] = s] /\ (s # "none" => Peer \in echoed')
            /\ echoed' \in {echoed, echoed \cup {Peer}} /\ UNCHANGED written
            /\ Stay \/ (Ends("dead") /\ echoed # {})
      BY <1>t, <1>1, <1>3, WriteLemma
    <2>2. first # Peer
      BY <1>t, <1>3 DEF Later, Serving
    <2> QED
      BY <1>t, <1>1, <1>3, <2>1, <2>2 DEF TypeOK, Resets, DeathNeedsEcho
  <1> QED
    BY <1>2, <1>3

-----------------------------------------------------------------------------
(* The inductive invariant *)

LEMMA InitIInv == Init => IInv
  <1> SUFFICES ASSUME Init PROVE IInv
    OBVIOUS
  <1>1. TypeOK
    BY FilesAssumption, Constants DEF Init, TypeOK, Fds
  <1> QED
    BY <1>1, Constants DEF Init, IInv, Unborn, Resets, Queue, Serving, Before, Later, DeathNeedsEcho

LEMMA ConnectStep ==
  ASSUME IInv, NEW c \in Clients, Connect(c)
  PROVE  IInv'
  <1>t. /\ TypeOK /\ Unborn /\ Resets /\ Queue /\ Serving /\ Before /\ Later /\ DeathNeedsEcho
        /\ client[c] = "connect" /\ c # first /\ c # NoClient
    BY Constants DEF IInv, Connect, Unborn
  <1>1. CASE Ended
    <2>1. /\ client' = [client EXCEPT ![c] = "gone"]
          /\ UNCHANGED <<opened, sent, taken, pending, server, dfd, newSd, table, written, old,
                          echoed, reset, told, first, joined>>
      BY <1>1 DEF Connect, Goes
    <2> QED
      BY <1>t, <1>1, <2>1 DEF IInv, TypeOK, Unborn, Resets, Queue, Serving, Before, Later,
         DeathNeedsEcho, Gone, Peer, Target
  <1>2. CASE ~Ended
    <2>1. /\ client' = [client EXCEPT ![c] = "send"]
          /\ opened' \in {opened, opened \cup {c}}
          /\ pending' = Append(pending, c)
          /\ first' = IF first = NoClient THEN c ELSE first
          /\ UNCHANGED <<sent, taken, server, dfd, newSd, table, written, old, echoed,
                          reset, told, joined>>
      BY <1>2 DEF Connect, Goes
    <2>2. /\ pending \in Seq(Clients) /\ pending' \in Seq(Clients) /\ pending' # <<>>
          /\ pending'[1] = IF pending = <<>> THEN c ELSE pending[1]
          /\ \A i \in DOMAIN pending' :
               \/ i \in DOMAIN pending /\ pending'[i] = pending[i]
               \/ i = Len(pending) + 1 /\ pending'[i] = c
      BY <1>t, <2>1, AppendSeq DEF TypeOK
    <2>3. \A i \in DOMAIN pending : pending[i] # c /\ pending[i] \in Clients
      BY <1>t, <2>2 DEF Queue
    <2>4. TypeOK'
      BY <1>t, <2>1, <2>2 DEF TypeOK
    <2>5. c \notin told /\ (server = "recv" => c # Peer)
      BY <1>t DEF Later, Gone, Serving
    <2>6. Queue'
      <3>1. \A i, j \in DOMAIN pending' : pending'[i] = pending'[j] => i = j
        BY <1>t, <2>2, <2>3 DEF Queue
      <3>2. \A i \in DOMAIN pending' :
              /\ client'[pending'[i]] # "connect" /\ pending'[i] \notin told'
              /\ server' = "recv" => pending'[i] # Peer'
        BY <1>t, <2>1, <2>2, <2>3, <2>5 DEF Queue, TypeOK, Peer
      <3> QED
        BY <3>1, <3>2 DEF Queue
    <2>7. Unborn' /\ Resets' /\ Serving'
      BY <1>t, <2>1 DEF TypeOK, Unborn, Resets, Serving, Peer
    <2>8. Before'
      BY <1>t, <2>1, <2>2, Constants DEF TypeOK, Before, Serving, Peer, Target
    <2>9. Later'
      BY <1>t, <2>1, <2>5, Constants DEF TypeOK, Later, Gone, Peer, Target
    <2>10. DeathNeedsEcho'
      BY <1>t, <2>1, Constants DEF DeathNeedsEcho, TypeOK, Before, Later
    <2> QED
      BY <2>4, <2>6, <2>7, <2>8, <2>9, <2>10 DEF IInv
  <1> QED
    BY <1>1, <1>2

LEMMA ClientStep ==
  ASSUME IInv, NEW c \in Clients, SendByte(c) \/ SendFails(c) \/ FinishSource(c) \/ Interrupt(c)
  PROVE  IInv'
  <1>t. /\ TypeOK /\ Unborn /\ Resets /\ Queue /\ Serving /\ Before /\ Later /\ DeathNeedsEcho
        /\ client[c] = "send"
    BY DEF IInv, SendByte, SendFails, Unfinished, FinishSource, Interrupt
  <1>1. /\ UNCHANGED <<opened, taken, pending, server, dfd, newSd, table, written, old, echoed,
                        told, first, joined>>
        /\ client' = client \/ client' = [client EXCEPT ![c] = "gone"]
              \/ client' = [client EXCEPT ![c] = "finished"]
        /\ sent' \in [Clients -> Seq(Byte)] /\ \A d \in Clients : d # c => sent'[d] = sent[d]
        /\ reset' = reset \/ reset' = [reset EXCEPT ![c] = IF c \in echoed THEN "abort" ELSE @]
    <2>1. CASE SendByte(c)
      <3>1. Len(sent[c]) < SourceLen /\ Len(sent[c]) \in Nat
        BY <1>t, <2>1 DEF TypeOK, SendByte, Unfinished
      <3>2. <<c, IF c \in opened THEN Len(sent[c]) + 1 ELSE 0>> \in Byte
        BY <3>1, FilesAssumption DEF Byte
      <3>3. Append(sent[c], <<c, IF c \in opened THEN Len(sent[c]) + 1 ELSE 0>>) \in Seq(Byte)
        BY <1>t, <3>2, AppendSeq DEF TypeOK
      <3> QED
        BY <1>t, <2>1, <3>3 DEF SendByte, TypeOK, history
    <2>2. CASE SendFails(c) \/ FinishSource(c) \/ Interrupt(c)
      BY <1>t, <2>2 DEF TypeOK, SendFails, FinishSource, Interrupt, Exits, Goes, history
    <2> QED
      BY <2>1, <2>2
  <1>2. TypeOK'
    BY <1>t, <1>1 DEF TypeOK
  <1>3. /\ \A d \in Clients : (client'[d] = "connect") = (client[d] = "connect")
        /\ \A d \in Clients : Gone(d) => Gone(d)'
    BY <1>t, <1>1 DEF TypeOK, Gone
  <1>4. Queue'
    <2>1. \A i \in DOMAIN pending : pending[i] \in Clients
      BY <1>t DEF TypeOK
    <2> QED
      BY <1>t, <1>1, <1>3, <2>1 DEF Queue, Peer
  <1>5. Unborn' /\ Resets' /\ Serving'
    BY <1>t, <1>1, <1>3 DEF TypeOK, Unborn, Resets, Serving, Peer
  <1>6. Before' /\ Later' /\ DeathNeedsEcho'
    BY <1>t, <1>1, <1>3 DEF TypeOK, Before, Later, DeathNeedsEcho, Peer, Target
  <1> QED
    BY <1>2, <1>4, <1>5, <1>6 DEF IInv

LEMMA AcceptStep ==
  ASSUME IInv, Accept
  PROVE  IInv'
  <1>t. /\ TypeOK /\ Unborn /\ Resets /\ Queue /\ Serving /\ Before /\ Later /\ DeathNeedsEcho
        /\ server = "accept" /\ pending # <<>>
    BY DEF IInv, Accept
  <1> DEFINE c == pending[1]
  <1>1. /\ pending \in Seq(Clients) /\ pending' = Tail(pending) /\ pending' \in Seq(Clients)
        /\ c = Head(pending) /\ c \in Clients /\ 1 \in DOMAIN pending
        /\ \A i \in DOMAIN pending' : /\ i \in Nat \ {0} /\ i + 1 \in DOMAIN pending
                                     /\ pending'[i] = pending[i + 1]
    BY <1>t, TailSeq DEF TypeOK, Accept
  <1>2. /\ newSd' = LowestFree /\ newSd' \in Fds
        /\ table' = [table EXCEPT ![newSd'] = c] /\ Peer' = c /\ server' = "recv"
        /\ UNCHANGED <<client, opened, sent, taken, dfd, written, old, echoed, reset,
                        told, first, joined>>
    BY <1>t, <1>1 DEF Accept, LowestFree, Fds, Peer, TypeOK, clientVars, history
  <1>3. client[c] # "connect" /\ c \notin told
    BY <1>t, <1>1 DEF Queue
  <1>4. TypeOK'
    BY <1>t, <1>1, <1>2, Constants DEF TypeOK
  <1>5. Queue'
    <2>1. \A i \in DOMAIN pending' : pending'[i] # c
      BY <1>t, <1>1 DEF Queue
    <2> QED
      BY <1>t, <1>1, <1>2, <2>1 DEF Queue
  <1>6. CASE told = {}
    <2>1. /\ newSd' = IF dfd = 4 THEN 5 ELSE 4
          /\ \A fd \in Fds : table'[fd] = IF fd = newSd' THEN c ELSE IF fd = dfd THEN File ELSE Free
      BY <1>t, <1>1, <1>2, <1>6, Constants DEF Before, LowestFree, Fds, TypeOK
    <2>2. first = c
      BY <1>t, <1>1, <1>6 DEF Before
    <2>3. Serving'
      BY <1>2, <1>1, <1>3, <2>1 DEF Serving
    <2>4. Before'
      BY <1>t, <1>2, <1>6, <2>1, <2>2 DEF Before, Target, Fds, TypeOK
    <2> QED
      BY <1>t, <1>2, <1>4, <1>5, <1>6, <2>3, <2>4
      DEF IInv, Unborn, Resets, Later, DeathNeedsEcho
  <1>7. CASE told # {}
    <2>1. newSd' = 4 /\ table'[5] = Free
      BY <1>t, <1>1, <1>2, <1>7, Constants DEF Later, LowestFree, Fds, TypeOK
    <2>2. Serving'
      BY <1>2, <1>1, <1>3, <2>1 DEF Serving, Fds
    <2>3. Later'
      BY <1>t, <1>2, <1>7, <2>1 DEF Later, Target, Peer, Fds, TypeOK, Gone
    <2> QED
      BY <1>t, <1>2, <1>4, <1>5, <1>7, <2>2, <2>3
      DEF IInv, Unborn, Resets, Before, DeathNeedsEcho
  <1> QED
    BY <1>6, <1>7

LEMMA ReceiveStep ==
  ASSUME IInv, Receive \/ ReceiveError
  PROVE  IInv'
  <1>t. /\ TypeOK /\ Unborn /\ Resets /\ Queue /\ Serving /\ Before /\ Later /\ DeathNeedsEcho
    BY DEF IInv
  <1>1. /\ server = "recv" /\ UNCHANGED <<client, opened, sent, dfd, newSd, old, told, first>>
        /\ taken' \in [Clients -> Nat] /\ \A c \in Clients : c # Peer => taken'[c] = taken[c]
        /\ joined' \subseteq Clients /\ written' \in Seq(Byte)
        /\ reset' \in [Clients -> {"none", "abort", "refused", "reported"}]
        /\ Resets'
        /\ echoed' \subseteq Clients /\ first \notin echoed'
        /\ told = {} => echoed' = {} /\ Stay
        /\ Stay \/ (Ends("dead") /\ echoed' # {})
    BY ReceiveLemma DEF clientVars, Resets
  <1>2. Unborn'
    BY <1>t, <1>1 DEF Unborn, Serving
  <1>3. CASE Stay
    <2>1. UNCHANGED <<server, pending, table, Peer, Target>>
      BY <1>1, <1>3 DEF Stay, Peer, Target
    <2>2. TypeOK'
      BY <1>t, <1>1, <2>1 DEF TypeOK
    <2>3. Queue' /\ Serving'
      BY <1>t, <1>1, <2>1 DEF Queue, Serving
    <2>4. Before' /\ Later' /\ DeathNeedsEcho'
      BY <1>t, <1>1, <2>1 DEF Before, Later, DeathNeedsEcho, Gone
    <2> QED
      BY <1>1, <1>2, <2>2, <2>3, <2>4 DEF IInv
  <1>4. CASE Ends("dead") /\ echoed' # {} /\ told # {}
    <2>1. /\ server' = "dead" /\ pending' = <<>> /\ pending' \in Seq(Clients)
          /\ table' = [fd \in Fds |-> Free]
      BY <1>4 DEF Ends
    <2>2. TypeOK'
      BY <1>t, <1>1, <2>1, Constants DEF TypeOK
    <2>3. Queue' /\ Serving'
      BY <2>1 DEF Queue, Serving
    <2>4. Before' /\ Later' /\ DeathNeedsEcho'
      BY <1>t, <1>1, <1>4, <2>1 DEF Before, Later, DeathNeedsEcho, Gone
    <2> QED
      BY <1>1, <1>2, <2>2, <2>3, <2>4 DEF IInv
  <1> QED
    BY <1>1, <1>3, <1>4

LEMMA ReceiveEndStep ==
  ASSUME IInv, ReceiveEnd
  PROVE  IInv'
  <1>t. /\ TypeOK /\ Unborn /\ Resets /\ Queue /\ Serving /\ Before /\ Later /\ DeathNeedsEcho
        /\ server = "recv" /\ Peer \in Clients /\ Gone(Peer)
    BY DEF IInv, ReceiveEnd, AtEnd, Serving
  <1>1. /\ told' = told \cup {Peer} /\ server' = "accept"
        /\ table' = [fd \in Fds |-> IF fd \in {dfd, newSd} THEN Free ELSE table[fd]]
        /\ UNCHANGED <<client, opened, sent, taken, pending, dfd, newSd, written, old, echoed,
                        reset, first, joined>>
    BY DEF ReceiveEnd, Closed, clientVars
  <1>2. \A fd \in Fds : table'[fd] = Free
    BY <1>t, <1>1 DEF Serving
  <1>3. first \in told'
    BY <1>t, <1>1 DEF Before, Later
  <1>4. TypeOK'
    BY <1>t, <1>1, <1>2, Constants DEF TypeOK
  <1>5. Queue'
    BY <1>t, <1>1 DEF Queue
  <1>6. Later'
    BY <1>t, <1>1, <1>2, <1>3 DEF Later, Gone
  <1>7. Unborn' /\ Resets' /\ Serving' /\ Before' /\ DeathNeedsEcho'
    BY <1>t, <1>1 DEF Unborn, Resets, Serving, Before, DeathNeedsEcho
  <1> QED
    BY <1>4, <1>5, <1>6, <1>7 DEF IInv

\* An accept that fails leaves all but the server's own state as it is
LEMMA AcceptFailsStep ==
  ASSUME IInv, AcceptFails
  PROVE  IInv'
  <1>t. /\ TypeOK /\ Unborn /\ Resets /\ Queue /\ Serving /\ Before /\ Later /\ DeathNeedsEcho
    BY DEF IInv
  <1>1. /\ server' = "failed" /\ pending' = <<>> /\ table' = [fd \in Fds |-> Free]
        /\ UNCHANGED <<client, opened, sent, taken, dfd, newSd, written, old, echoed, reset,
                        told, first, joined>>
    BY DEF AcceptFails, Ends, clientVars, history
  <1>2. TypeOK'
    BY <1>t, <1>1, Constants DEF TypeOK
  <1>3. Queue' /\ Serving' /\ Unborn' /\ Resets'
    BY <1>t, <1>1 DEF Queue, Serving, Unborn, Resets
  <1>4. Before' /\ Later' /\ DeathNeedsEcho'
    BY <1>t, <1>1 DEF Before, Later, DeathNeedsEcho, Gone
  <1> QED
    BY <1>2, <1>3, <1>4 DEF IInv

LEMMA NextIInv == IInv /\ [Next]_vars => IInv'
  <1> SUFFICES ASSUME IInv, [Next]_vars PROVE IInv'
    OBVIOUS
  <1>1. CASE UNCHANGED vars
    BY <1>1 DEF vars, clientVars, history, IInv, TypeOK, Unborn, Resets, Queue, Serving, Before,
       Later, DeathNeedsEcho, Peer, Target, Gone
  <1>2. CASE Server
    BY <1>2, AcceptStep, ReceiveStep, ReceiveEndStep DEF Server
  <1>3. CASE \E c \in Clients : Client(c)
    BY <1>3, ConnectStep, ClientStep DEF Client
  <1> QED
    BY <1>1, <1>2, <1>3, AcceptFailsStep DEF Next

-----------------------------------------------------------------------------
(* The theorems *)

\* In every state the invariant holds.
THEOREM Invariance == Spec => []IInv
  BY InitIInv, NextIInv, PTL DEF Spec

\* Every variable has its type; between two clients no connection is open, and
\* from the first client on dfd names no file (tcpServer.c:64-75).
THEOREM TypeCorrect == Spec => []TypeOK
  <1>1. IInv => TypeOK
    BY DEF IInv
  <1> QED
    BY <1>1, Invariance, PTL

\* The first client is never written to, and only a failing accept() and the bytes
\* written back to later ones end the server (tcpServer.c:64-68, 74-77).
THEOREM DeathByEcho == Spec => []DeathNeedsEcho
  <1>1. IInv => DeathNeedsEcho
    BY DEF IInv
  <1> QED
    BY <1>1, Invariance, PTL

-----------------------------------------------------------------------------
(* The refinement *)

LEMMA InitLossy == Init => Lossy!Init
  <1> SUFFICES ASSUME Init PROVE Lossy!Init
    OBVIOUS
  <1>1. (dfd # NoFd) \in BOOLEAN /\ ~(first \in told)
    BY DEF Init
  <1> QED
    BY <1>1 DEF Init, Lossy!Init

\* The mapped variables
LEMMA LossyStutters ==
  ASSUME UNCHANGED <<dfd, written, first>>,
         first # NoClient => sent'[first] = sent[first] /\ taken'[first] = taken[first],
         (first \in told') = (first \in told)
  PROVE  UNCHANGED Lossy!vars
  BY DEF Lossy!vars

LEMMA NextLossy == IInv /\ [Next]_vars => [Lossy!Next]_Lossy!vars
  <1> SUFFICES ASSUME IInv, [Next]_vars PROVE [Lossy!Next]_Lossy!vars
    OBVIOUS
  <1>t. /\ TypeOK /\ Unborn /\ Resets /\ Serving /\ Before /\ Later
    BY DEF IInv
  <1>1. CASE UNCHANGED vars
    BY <1>1, LossyStutters DEF vars, clientVars, history
  <1>2. ASSUME NEW c \in Clients, Connect(c) PROVE UNCHANGED Lossy!vars
    <2>1. /\ UNCHANGED <<dfd, written, sent, taken, told>>
          /\ first' = first \/ (first = NoClient /\ first' = c)
          /\ client[c] = "connect"
      BY <1>2 DEF Connect
    <2>2. CASE first' = first
      BY <2>1, <2>2, LossyStutters
    <2>3. CASE first = NoClient /\ first' = c
      <3>1. sent[c] = <<>> /\ taken[c] = 0 /\ c # NoClient
        BY <1>t, <2>1, Constants DEF Unborn
      <3>2. told = {}
        BY <1>t, <2>3, Constants DEF Later, TypeOK
      <3> QED
        BY <2>1, <2>3, <3>1, <3>2 DEF Lossy!vars
    <2> QED
      BY <2>1, <2>2, <2>3
  <1>3. ASSUME NEW c \in Clients, SendByte(c) PROVE [Lossy!Next]_Lossy!vars
    <2> DEFINE byte == <<c, IF c \in opened THEN Len(sent[c]) + 1 ELSE 0>>
    <2>1. /\ sent' = [sent EXCEPT ![c] = Append(@, byte)] /\ client[c] = "send"
          /\ UNCHANGED <<dfd, written, taken, told, first>>
      BY <1>3 DEF SendByte, Unfinished, history
    <2>2. CASE first # c
      BY <1>t, <2>1, <2>2, LossyStutters DEF TypeOK
    <2>3. CASE first = c
      <3>1. Len(sent[c]) < SourceLen /\ Len(sent[c]) \in Nat
        BY <1>t, <1>3 DEF TypeOK, SendByte, Unfinished
      <3>2. byte \in Byte
        BY <3>1, FilesAssumption DEF Byte
      <3>3. first \notin told
        BY <1>t, <2>1, <2>3 DEF Later, Gone
      <3>4. sent'[c] = Append(sent[c], byte) /\ c # NoClient
        BY <1>t, <2>1, Constants DEF TypeOK
      <3>5. Lossy!Put
        BY <2>1, <2>3, <3>2, <3>3, <3>4 DEF Lossy!Put
      <3> QED
        BY <3>5 DEF Lossy!Next
    <2> QED
      BY <2>2, <2>3
  <1>4. ASSUME NEW c \in Clients, SendFails(c) \/ FinishSource(c) \/ Interrupt(c)
        PROVE UNCHANGED Lossy!vars
    BY <1>4, LossyStutters DEF SendFails, FinishSource, Interrupt, history
  <1>5. CASE Accept
    BY <1>5, LossyStutters DEF Accept, clientVars, history
  <1>6. CASE Receive
    <2>1. PICK n \in 1 .. Unread(Peer) :
            /\ n <= Capacity /\ taken' = [taken EXCEPT ![Peer] = @ + n]
      BY <1>6 DEF Receive
    <2>2. /\ UNCHANGED <<sent, dfd, told, first>> /\ server = "recv" /\ Peer \in Clients
          /\ Write(sent[Peer][taken[Peer] + 1], reset[Peer])
          /\ reset[Peer] \in {"none", "abort", "refused", "reported"}
      BY <1>t, <1>6 DEF Receive, clientVars, Serving, TypeOK
    <2>3. /\ taken[Peer] \in Nat /\ sent[Peer] \in Seq(Byte) /\ n \in Nat /\ n >= 1
          /\ taken[Peer] + n <= Len(sent[Peer]) /\ taken[Peer] + 1 \in 1 .. Len(sent[Peer])
          /\ taken'[Peer] = taken[Peer] + n
      BY <1>t, <2>1, <2>2 DEF TypeOK, Unread
    <2>4. sent[Peer][taken[Peer] + 1] \in Byte
      BY <2>3, ElementType
    <2>5. CASE told = {}
      <3>1. first = Peer /\ first # NoClient
        BY <1>t, <2>2, <2>5, Constants DEF Before
      <3>2. written' = IF dfd # NoFd THEN Append(written, sent[Peer][taken[Peer] + 1]) ELSE written
        BY <2>2, <2>4, <2>5, WriteLemma
      <3>3. Lossy!Take
        BY <2>1, <2>2, <2>3, <2>5, <3>1, <3>2 DEF Lossy!Take
      <3> QED
        BY <3>3 DEF Lossy!Next
    <2>6. CASE told # {}
      <3>1. written' = written
        BY <2>2, <2>4, <2>6, WriteLemma
      <3>2. first # Peer /\ first \in Clients
        BY <1>t, <2>2, <2>6 DEF Later, Serving, TypeOK
      <3> QED
        BY <1>t, <2>1, <2>2, <3>1, <3>2, LossyStutters DEF TypeOK
    <2> QED
      BY <2>5, <2>6
  <1>7. CASE ReceiveError
    <2>1. told # {}
      BY <1>t, <1>7 DEF ReceiveError, Resets, Before, Serving
    <2>2. written' = written
      BY <1>7, <2>1, ReceiveLemma
    <2> QED
      BY <1>7, <2>2, LossyStutters DEF ReceiveError, clientVars, history
  <1>8. CASE ReceiveEnd
    <2>1. /\ told' = told \cup {Peer} /\ UNCHANGED <<sent, taken, dfd, written, first>>
          /\ server = "recv" /\ Peer \in Clients /\ Unread(Peer) = 0
      BY <1>t, <1>8 DEF ReceiveEnd, clientVars, AtEnd, Serving
    <2>2. CASE told = {}
      <3>1. first = Peer /\ first # NoClient
        BY <1>t, <2>1, <2>2, Constants DEF Before
      <3>2. taken[first] = Len(sent[first])
        BY <1>t, <2>1, <3>1 DEF TypeOK, Unread
      <3>3. Lossy!End
        BY <2>1, <2>2, <3>1, <3>2 DEF Lossy!End
      <3> QED
        BY <3>3 DEF Lossy!Next
    <2>3. CASE told # {}
      <3>1. first \in told /\ first \in told'
        BY <1>t, <2>1, <2>3 DEF Later
      <3> QED
        BY <2>1, <3>1, LossyStutters
    <2> QED
      BY <2>2, <2>3
  <1>9. CASE AcceptFails
    BY <1>9, LossyStutters DEF AcceptFails, clientVars, history
  <1> QED
    BY <1>1, <1>2, <1>3, <1>4, <1>5, <1>6, <1>7, <1>8, <1>9 DEF Next, Server, Client

\* The service implements the lossy copy of the first client's source: no byte of
\* a later client reaches the file, however many there are (tcpServer.c:53, 70-78).
THEOREM RefinesLossyCopy == Spec => ImplementsLossyCopy
  BY InitLossy, NextLossy, Invariance, PTL DEF Spec, ImplementsLossyCopy, Lossy!Spec

-----------------------------------------------------------------------------
(* The bytes *)

\* What a client with an open source has sent is the first part of the source
Source ==
  \A c \in Clients :
    /\ c \in opened => \A i \in 1 .. Len(sent[c]) : sent[c][i] = <<c, i>>
    /\ client[c] = "finished" => c \in opened /\ Len(sent[c]) = SourceLen

\* The server has all bytes of the first client when it is done with it
Arrival ==
  /\ first = NoClient => told = {} /\ written = <<>>
  /\ first \in Clients => taken[first] <= Len(sent[first])
  /\ first \in told => taken[first] = Len(sent[first])

\* As long as no two bytes of it were received together, what is written is what
\* was received of the first client
Faithful ==
  first \in Clients \ joined /\ dfd # NoFd =>
    /\ Len(written) = taken[first]
    /\ \A i \in 1 .. Len(written) : written[i] = sent[first][i]

Bytewise == Source /\ Arrival /\ Faithful

LEMMA InitBytewise == Init => Bytewise
  <1> SUFFICES ASSUME Init PROVE Bytewise
    OBVIOUS
  <1>1. Source /\ Faithful
    BY Constants DEF Init, Source, Faithful
  <1> QED
    BY <1>1, Constants DEF Init, Bytewise, Arrival

\* A client sends its source in order, and is finished only at its end
LEMMA SourceStep ==
  ASSUME IInv, Source, NEW c \in Clients, Client(c)
  PROVE  Source'
  <1>t. TypeOK /\ Unborn
    BY DEF IInv
  <1>1. CASE Connect(c)
    BY <1>t, <1>1 DEF Connect, Goes, Source, Unborn, TypeOK
  <1>2. CASE SendByte(c)
    <2>1. /\ sent[c] \in Seq(Byte) /\ client[c] = "send" /\ UNCHANGED <<client, opened>>
          /\ sent' = [sent EXCEPT ![c] =
                        Append(@, <<c, IF c \in opened THEN Len(@) + 1 ELSE 0>>)]
      BY <1>t, <1>2 DEF SendByte, Unfinished, TypeOK
    <2>2. \A d \in Clients : d # c => sent'[d] = sent[d]
      BY <1>t, <2>1 DEF TypeOK
    <2>3. c \in opened => \A i \in 1 .. Len(sent'[c]) : sent'[c][i] = <<c, i>>
      <3>1. c \in opened => sent'[c] = Append(sent[c], <<c, Len(sent[c]) + 1>>)
        BY <1>t, <2>1 DEF TypeOK
      <3> QED
        BY <2>1, <3>1 DEF Source
    <2> QED
      BY <2>1, <2>2, <2>3 DEF Source
  <1>3. CASE SendFails(c) \/ FinishSource(c) \/ Interrupt(c)
    BY <1>t, <1>3 DEF SendFails, FinishSource, Interrupt, Exits, Goes, Source, TypeOK
  <1> QED
    BY <1>1, <1>2, <1>3 DEF Client

LEMMA ArrivalByClient ==
  ASSUME IInv, Bytewise, NEW c \in Clients, Client(c)
  PROVE  Arrival' /\ Faithful'
  <1>t. TypeOK /\ Unborn /\ Before /\ Later /\ Arrival /\ Faithful
    BY DEF IInv, Bytewise
  <1>1. CASE Connect(c)
    <2>1. /\ UNCHANGED <<sent, taken, dfd, written, told, joined>> /\ client[c] = "connect"
          /\ first' = first \/ (first = NoClient /\ first' = c)
      BY <1>1 DEF Connect
    <2>2. CASE first' = first
      BY <1>t, <2>1, <2>2 DEF Arrival, Faithful
    <2>3. CASE first = NoClient /\ first' = c
      <3>1. sent[c] = <<>> /\ taken[c] = 0 /\ written = <<>> /\ told = {} /\ c # NoClient
        BY <1>t, <2>1, <2>3, Constants DEF Unborn, Arrival
      <3> QED
        BY <2>1, <2>3, <3>1 DEF Arrival, Faithful
    <2> QED
      BY <2>1, <2>2, <2>3
  <1>2. CASE SendByte(c)
    <2> DEFINE byte == <<c, IF c \in opened THEN Len(sent[c]) + 1 ELSE 0>>
    <2>1. /\ sent' = [sent EXCEPT ![c] = Append(@, byte)] /\ client[c] = "send"
          /\ UNCHANGED <<dfd, written, taken, told, first, joined>> /\ sent[c] \in Seq(Byte)
      BY <1>t, <1>2 DEF SendByte, Unfinished, history, TypeOK
    <2>2. c \notin told
      BY <1>t, <2>1 DEF Later, Gone
    <2> HIDE DEF byte
    <2>3. /\ \A d \in Clients : d # c => sent'[d] = sent[d]
          /\ Len(sent'[c]) = Len(sent[c]) + 1
          /\ \A i \in 1 .. Len(sent[c]) : sent'[c][i] = sent[c][i]
      BY <1>t, <2>1 DEF TypeOK
    <2>4. Arrival'
      BY <1>t, <2>1, <2>2, <2>3 DEF Arrival, TypeOK
    <2>5. Faithful'
      BY <1>t, <2>1, <2>3 DEF Arrival, Faithful, TypeOK
    <2> QED
      BY <2>4, <2>5
  <1>3. CASE SendFails(c) \/ FinishSource(c) \/ Interrupt(c)
    BY <1>t, <1>3 DEF SendFails, FinishSource, Interrupt, history, Arrival, Faithful
  <1> QED
    BY <1>1, <1>2, <1>3 DEF Client

\* The byte written is the only one received, unless more are received together
LEMMA ReceiveBytewise ==
  ASSUME IInv, Bytewise, Receive
  PROVE  Arrival' /\ Faithful'
  <1>t. TypeOK /\ Serving /\ Before /\ Later /\ Arrival /\ Faithful
    BY DEF IInv, Bytewise
  <1>1. PICK n \in 1 .. Unread(Peer) :
          /\ n <= Capacity /\ taken' = [taken EXCEPT ![Peer] = @ + n]
          /\ joined' = IF n > 1 THEN joined \cup {Peer} ELSE joined
    BY DEF Receive
  <1>2. /\ UNCHANGED <<sent, dfd, told, first>> /\ server = "recv" /\ Peer \in Clients
        /\ Write(sent[Peer][taken[Peer] + 1], reset[Peer])
        /\ reset[Peer] \in {"none", "abort", "refused", "reported"} /\ Peer \notin told
    BY <1>t DEF Receive, clientVars, Serving, TypeOK
  <1>3. /\ taken[Peer] \in Nat /\ sent[Peer] \in Seq(Byte) /\ n \in Nat /\ n >= 1
        /\ taken[Peer] + n <= Len(sent[Peer]) /\ taken[Peer] + 1 \in 1 .. Len(sent[Peer])
        /\ taken'[Peer] = taken[Peer] + n
    BY <1>t, <1>1, <1>2 DEF TypeOK, Unread
  <1>4. sent[Peer][taken[Peer] + 1] \in Byte
    BY <1>3, ElementType
  <1>5. CASE told = {}
    <2>1. first = Peer
      BY <1>t, <1>2, <1>5 DEF Before
    <2>2. dfd # NoFd => written' = Append(written, sent[Peer][taken[Peer] + 1])
      BY <1>2, <1>4, <1>5, WriteLemma
    <2>3. Arrival'
      BY <1>2, <1>3, <1>5, <2>1, Constants DEF Arrival
    <2>4. ASSUME first \notin joined', dfd # NoFd
          PROVE  /\ Len(written') = taken'[first]
                 /\ \A i \in 1 .. Len(written') : written'[i] = sent[first][i]
      <3>1. n = 1 /\ first \notin joined
        BY <1>1, <1>3, <2>1, <2>4
      <3>2. /\ Len(written) = taken[first] /\ written \in Seq(Byte)
            /\ \A i \in 1 .. Len(written) : written[i] = sent[first][i]
        BY <1>t, <1>2, <2>1, <2>4, <3>1 DEF Faithful, TypeOK
      <3>3. written' = Append(written, sent[first][Len(written) + 1])
        BY <2>1, <2>2, <2>4, <3>2
      <3> QED
        BY <1>3, <2>1, <3>1, <3>2, <3>3
    <2> QED
      BY <1>2, <2>3, <2>4 DEF Faithful
  <1>6. CASE told # {}
    <2>1. written' = written
      BY <1>2, <1>4, <1>6, WriteLemma
    <2>2. first # Peer /\ first \in Clients
      BY <1>t, <1>2, <1>6 DEF Later, TypeOK
    <2>3. taken'[first] = taken[first] /\ (first \in joined') = (first \in joined)
      BY <1>t, <1>1, <2>2 DEF TypeOK
    <2> QED
      BY <1>t, <1>2, <2>1, <2>2, <2>3, Constants DEF Arrival, Faithful
  <1> QED
    BY <1>5, <1>6

LEMMA NextBytewise == IInv /\ Bytewise /\ [Next]_vars => Bytewise'
  <1> SUFFICES ASSUME IInv, Bytewise, [Next]_vars PROVE Bytewise'
    OBVIOUS
  <1>t. TypeOK /\ Resets /\ Serving /\ Before /\ Later /\ Source /\ Arrival /\ Faithful
    BY DEF IInv, Bytewise
  <1>1. CASE UNCHANGED vars
    BY <1>1 DEF vars, clientVars, history, Bytewise, Source, Arrival, Faithful
  <1>2. ASSUME NEW c \in Clients, Client(c) PROVE Bytewise'
    BY <1>2, SourceStep, ArrivalByClient DEF Bytewise
  <1>3. Server => Source'
    BY <1>t DEF Server, Accept, Receive, ReceiveError, ReceiveEnd, clientVars, Source
  <1>4. CASE Accept
    BY <1>t, <1>3, <1>4 DEF Accept, Server, clientVars, history, Bytewise, Arrival, Faithful
  <1>5. CASE Receive
    BY <1>3, <1>5, ReceiveBytewise DEF Server, Bytewise
  <1>6. CASE ReceiveError
    <2>1. told # {}
      BY <1>t, <1>6 DEF ReceiveError, Resets, Before, Serving
    <2>2. written' = written
      BY <1>6, <2>1, ReceiveLemma
    <2> QED
      BY <1>t, <1>3, <1>6, <2>2 DEF ReceiveError, Server, clientVars, history, Bytewise, Arrival, Faithful
  <1>7. CASE ReceiveEnd
    <2>1. /\ told' = told \cup {Peer} /\ UNCHANGED <<sent, taken, dfd, written, first, joined>>
          /\ server = "recv" /\ Peer \in Clients /\ Unread(Peer) = 0
      BY <1>t, <1>7 DEF ReceiveEnd, clientVars, AtEnd, Serving
    <2>2. taken[Peer] = Len(sent[Peer])
      BY <1>t, <2>1 DEF Unread, TypeOK
    <2>3. first # NoClient
      BY <1>t, <2>1, Constants DEF Before, Later, TypeOK
    <2> QED
      BY <1>t, <1>3, <1>7, <2>1, <2>2, <2>3 DEF Server, Bytewise, Arrival, Faithful
  <1>8. CASE AcceptFails
    BY <1>t, <1>8 DEF AcceptFails, clientVars, history, Bytewise, Source, Arrival, Faithful
  <1> QED
    BY <1>1, <1>2, <1>4, <1>5, <1>6, <1>7, <1>8 DEF Next, Server

\* If the file could be opened, the first client sent all its source, no two bytes
\* of it were received together and the old file was no longer, then the file is
\* the source, whatever later clients do (tcpServer.c:71-77, tcpClient.c:78-82).
THEOREM CompleteApart == Spec => []ApartIsComplete
  <1>1. IInv /\ Bytewise => ApartIsComplete
    <2> SUFFICES ASSUME IInv, Bytewise, first \in told, dfd # NoFd, client[first] = "finished",
                        first \notin joined, old <= SourceLen
                 PROVE  Content = [i \in 1 .. SourceLen |-> <<first, i>>]
      BY DEF ApartIsComplete
    <2> DEFINE source == [i \in 1 .. SourceLen |-> <<first, i>>]
    <2>1. first \in Clients /\ written \in Seq(Byte) /\ old \in Nat
      BY DEF IInv, TypeOK
    <2>2. /\ first \in opened /\ Len(written) = SourceLen
          /\ \A i \in 1 .. SourceLen : written[i] = <<first, i>>
      BY <2>1 DEF Bytewise, Source, Arrival, Faithful
    <2>3. source \in Seq(Byte) /\ Len(source) = SourceLen
          /\ \A i \in 1 .. SourceLen : source[i] = <<first, i>>
      BY <2>1, FilesAssumption DEF Byte
    <2> HIDE DEF source
    <2>4. written = source
      BY <2>1, <2>2, <2>3, SeqEqual
    <2>5. [i \in 1 .. IF Len(written) < old THEN old - Len(written) ELSE 0 |-> "old"] = <<>>
      BY <2>1, <2>2, FilesAssumption
    <2>6. Content = written
      BY <2>1, <2>5, ConcatEmptySeq DEF Content
    <2> QED
      BY <2>4, <2>6 DEF source
  <1>2. Spec => []Bytewise
    BY InitBytewise, NextBytewise, Invariance, PTL DEF Spec
  <1> QED
    BY <1>1, <1>2, Invariance, PTL
=============================================================================
