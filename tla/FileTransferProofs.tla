------------------------- MODULE FileTransferProofs ------------------------
(***************************************************************************)
(* Theorems about FileTransfer, for every number of threads and all sizes. *)
(*                                                                         *)
(* The increments of threadNum race, but a race can only lose one: the     *)
(* counter never passes the number of threads whose store is done, and     *)
(* neither does a value loaded to be stored (Counted).  So a thread that   *)
(* reads the last number knows that all others are done (Alone).           *)
(*                                                                         *)
(* With that, threadNum stands still while a thread with a longer piece    *)
(* seeks (Places), so the piece begins so late that no more than a share   *)
(* of the file is left for it (Sending), and the merge file is never       *)
(* longer than the shares; it is the file just if they are in place        *)
(* (Merging).                                                              *)
(*                                                                         *)
(* The other program that fetches a file by threads, ChunkedDownload, needs *)
(* less: a thread sleeps or has failed, and its failure ends its client.   *)
(***************************************************************************)
EXTENDS FileTransfer, ChunkedDownload, FiniteSetTheorems, SequenceTheorems, TLAPS

\* The threads that have stored threadNum
Done == {t \in Threads : tpc[t] \in {"clear", "send", "exited"}}

\* The piece of t is, or is about to be, extended
Extends(t) == tpc[t] = "extend" \/ chunk[t] > size \div NUM_THREAD

\* The types of what the threads share
SharedType ==
  /\ size \in Nat
  /\ tpc \in [Threads -> {"none", "connect", "size", "last", "extend", "seek", "load",
                          "store", "clear", "send", "exited"}]
  /\ chunk \in [Threads -> Nat] /\ loaded \in [Threads -> Nat]
  /\ threadNum \in Nat /\ extraBytes \in Nat

Counted ==
  /\ threadNum <= Cardinality(Done)
  /\ \A t \in Threads : tpc[t] = "store" => loaded[t] <= Cardinality(Done)

Alone ==
  \A t \in Threads : Extends(t) =>
    /\ tpc[t] \notin {"none", "connect", "size", "last"}
    /\ Threads \ {t} \subseteq Done

Single == \A t, u \in Threads : Extends(t) /\ Extends(u) => t = u

\* main() starts each thread once
Started ==
  /\ created \in Nat
  /\ main \in {"connect", "open", "create"} => created < NUM_THREAD
  /\ \A t \in Threads : t >= created => tpc[t] = "none"

IInv == SharedType /\ Started /\ Counted /\ Alone /\ Single

-----------------------------------------------------------------------------
(* Lemmas about the threads *)

LEMMA ThreadsFinite ==
  /\ IsFiniteSet(Threads) /\ Cardinality(Threads) = NUM_THREAD
  /\ IsFiniteSet(Done) /\ Cardinality(Done) \in Nat
  <1>1. IsFiniteSet(Threads) /\ Cardinality(Threads) = NUM_THREAD
    BY NumThreadAssumption, FS_Interval DEF Threads
  <1>2. Done \in SUBSET Threads
    BY DEF Done
  <1>3. IsFiniteSet(Done)
    BY <1>1, <1>2, FS_Subset
  <1> QED
    BY <1>1, <1>3, FS_CardinalityType

\* If all but one are done and t is not, all others are
LEMMA OthersDone ==
  ASSUME NEW t \in Threads, t \notin Done, Cardinality(Done) >= NUM_THREAD - 1
  PROVE  Threads \ {t} \subseteq Done
  <1>1. IsFiniteSet(Threads \ {t}) /\ Cardinality(Threads \ {t}) = NUM_THREAD - 1
    BY ThreadsFinite, FS_RemoveElement
  <1>2. Done \in SUBSET (Threads \ {t})
    BY DEF Done
  <1>3. Cardinality(Done) <= NUM_THREAD - 1
    BY <1>1, <1>2, FS_Subset
  <1>4. Cardinality(Done) = Cardinality(Threads \ {t})
    BY <1>1, <1>3, ThreadsFinite, NumThreadAssumption
  <1> QED
    BY <1>1, <1>2, <1>4, FS_Subset

\* One more thread is done
LEMMA DoneGrows ==
  ASSUME NEW t \in Threads, t \notin Done, Done' = Done \cup {t}
  PROVE  Cardinality(Done)' = Cardinality(Done) + 1
  BY ThreadsFinite, FS_AddElement

\* The whole numbers of a size
LEMMA Division ==
  ASSUME NEW n \in Nat
  PROVE  n \div NUM_THREAD \in Nat /\ n % NUM_THREAD \in Nat
  BY NumThreadAssumption

-----------------------------------------------------------------------------
(* The steps of the threads; the others leave their variables alone *)

LEMMA InitIInv == Init => IInv
  <1> SUFFICES ASSUME Init PROVE IInv
    OBVIOUS
  <1>1. SharedType
    BY SizesAssumption DEF Init, SharedType
  <1>2. Cardinality(Done) \in Nat
    BY ThreadsFinite
  <1>3. \A t \in Threads : ~Extends(t)
    BY <1>1, Division DEF Init, Extends, SharedType
  <1> QED
    BY <1>1, <1>2, <1>3, NumThreadAssumption
    DEF IInv, Init, Started, Counted, Alone, Single, Extends

\* A step that is none of a thread: at most it starts the next one
LEMMA OtherStep ==
  ASSUME IInv, Main \/ Server \/ UNCHANGED vars
  PROVE  IInv'
  <1> USE NumThreadAssumption
  <1>t. SharedType /\ Started /\ Counted /\ Alone /\ Single
    BY DEF IInv
  <1>1. CASE CreateThread
    <2>1. /\ created \in Threads /\ tpc[created] = "none" /\ created' = created + 1
          /\ tpc' = [tpc EXCEPT ![created] = "connect"]
          /\ main' = IF created' = NUM_THREAD THEN "join" ELSE "create"
          /\ UNCHANGED <<size, chunk, offset, loaded, threadNum, extraBytes>>
      BY <1>1, <1>t DEF CreateThread, Started, Threads, threadVars
    <2>2. Done' = Done
      BY <1>t, <2>1 DEF Done, SharedType
    <2>3. \A t \in Threads : Extends(t)' => Extends(t)
      BY <1>t, <2>1 DEF Extends, SharedType
    <2>4. SharedType'
      BY <1>t, <2>1 DEF SharedType
    <2>5. Started'
      BY <1>t, <2>1 DEF Started, SharedType, Threads
    <2>6. Counted'
      BY <1>t, <2>1, <2>2 DEF Counted, SharedType
    <2>7. Alone'
      BY <1>t, <2>1, <2>2, <2>3 DEF Alone, SharedType
    <2> QED
      BY <1>t, <2>3, <2>4, <2>5, <2>6, <2>7 DEF IInv, Single
  <1>2. CASE ~CreateThread
    <2>1. /\ UNCHANGED <<size, tpc, created, chunk, offset, loaded, threadNum, extraBytes>>
          /\ main' \in {"connect", "open", "create"} => main \in {"connect", "open", "create"}
      BY <1>2 DEF Main, Server, ConnectMain, SendName, NoSuchFile, JoinThreads, ServerGone,
         AcceptName, NameMissing, NameOverflow, ReceivePiece, MergePiece, MergeNothing, vars, clientVars, threadVars, MainGoes
    <2>2. Done' = Done /\ \A t \in Threads : Extends(t)' = Extends(t)
      BY <2>1 DEF Done, Extends
    <2> QED
      BY <1>t, <2>1, <2>2
      DEF IInv, SharedType, Started, Counted, Alone, Single
  <1> QED
    BY <1>1, <1>2

\* Where a step of a thread takes it
LEMMA GoesLemma ==
  ASSUME IInv, NEW t \in Threads, chunkin(t)
  PROVE  /\ SharedType' /\ Started' /\ size' = size
         /\ \A u \in Threads : u # t =>
              tpc'[u] = tpc[u] /\ chunk'[u] = chunk[u] /\ loaded'[u] = loaded[u]
  <1>t. SharedType /\ Started
    BY DEF IInv
  <1>1. \E to \in {"size", "last", "extend", "seek", "load", "store", "clear", "send", "exited"} :
          tpc[t] # "none" /\ tpc' = [tpc EXCEPT ![t] = to] /\ UNCHANGED <<size, main, created>>
    BY DEF chunkin, createSock, pieceSize, TestLast, Extend, Seek, LoadThreadNum, StoreThreadNum,
           ClearExtra, SendPiece, Goes
  <1>2. /\ chunk' \in [Threads -> Nat] /\ loaded' \in [Threads -> Nat]
        /\ threadNum' \in Nat /\ extraBytes' \in Nat
        /\ \A u \in Threads : u # t => chunk'[u] = chunk[u] /\ loaded'[u] = loaded[u]
    <2> USE <1>t DEF SharedType, threadVars
    <2>1. CASE pieceSize(t)
      BY <2>1, Division DEF pieceSize
    <2>2. CASE Extend(t)
      BY <2>2 DEF Extend
    <2>3. CASE LoadThreadNum(t) \/ StoreThreadNum(t) \/ ClearExtra(t)
      BY <2>3 DEF LoadThreadNum, StoreThreadNum, ClearExtra
    <2>4. CASE createSock(t) \/ TestLast(t) \/ Seek(t) \/ SendPiece(t)
      BY <2>4 DEF createSock, TestLast, Seek, SendPiece
    <2> QED
      BY <2>1, <2>2, <2>3, <2>4 DEF chunkin
  <1> QED
    BY <1>t, <1>1, <1>2 DEF SharedType, Started

\* Only the store of threadNum makes a thread done
LEMMA DoneStep ==
  ASSUME IInv, NEW t \in Threads, chunkin(t)
  PROVE  /\ StoreThreadNum(t) => t \notin Done /\ Done' = Done \cup {t}
         /\ ~StoreThreadNum(t) => Done' = Done
  <1> USE GoesLemma DEF IInv, SharedType, Done, Goes
  <1>1. CASE StoreThreadNum(t)
    BY <1>1 DEF StoreThreadNum
  <1>2. CASE ~StoreThreadNum(t)
    BY <1>2 DEF chunkin, createSock, pieceSize, TestLast, Extend, Seek, LoadThreadNum,
                ClearExtra, SendPiece
  <1> QED
    BY <1>1, <1>2

LEMMA CountedStep ==
  ASSUME IInv, NEW t \in Threads, chunkin(t)
  PROVE  Counted'
  <1>t. SharedType /\ Counted /\ SharedType' /\ Cardinality(Done) \in Nat
    BY GoesLemma, ThreadsFinite DEF IInv
  <1>1. CASE StoreThreadNum(t)
    <2>1. Cardinality(Done)' = Cardinality(Done) + 1
      BY <1>1, DoneStep, DoneGrows
    <2>2. threadNum' = loaded[t] + 1 /\ loaded[t] <= Cardinality(Done) /\ loaded' = loaded
          /\ tpc' = [tpc EXCEPT ![t] = "clear"]
      BY <1>1, <1>t DEF StoreThreadNum, Goes, Counted
    <2>3. loaded[t] \in Nat /\ \A u \in Threads : loaded[u] \in Nat
      BY <1>t DEF SharedType
    <2>4. \A u \in Threads : tpc'[u] = "store" => loaded[u] <= Cardinality(Done)
      BY <1>t, <2>2 DEF Counted, SharedType
    <2> QED
      BY <1>t, <2>1, <2>2, <2>3, <2>4 DEF Counted
  <1>2. CASE LoadThreadNum(t)
    <2>1. Done' = Done
      BY <1>2, DoneStep DEF LoadThreadNum, StoreThreadNum, Goes
    <2> QED
      BY <1>2, <1>t, <2>1 DEF LoadThreadNum, Counted, Goes, SharedType
  <1>3. CASE ~StoreThreadNum(t) /\ ~LoadThreadNum(t)
    <2>1. Done' = Done
      BY <1>3, DoneStep
    <2>2. /\ UNCHANGED <<loaded, threadNum>>
          /\ \A u \in Threads : tpc'[u] = "store" => tpc[u] = "store"
      BY <1>3, <1>t DEF chunkin, createSock, pieceSize, TestLast, Extend, Seek, ClearExtra,
         SendPiece, Goes, SharedType, threadVars
    <2> QED
      BY <1>t, <2>1, <2>2 DEF Counted
  <1> QED
    BY <1>1, <1>2, <1>3

LEMMA AloneStep ==
  ASSUME IInv, NEW t \in Threads, chunkin(t)
  PROVE  Alone' /\ Single'
  <1>t. SharedType /\ Counted /\ Alone /\ Single /\ SharedType' /\ size' = size
    BY GoesLemma DEF IInv
  <1>d. size \div NUM_THREAD \in Nat
    BY <1>t, Division DEF SharedType
  <1>s. /\ Done \subseteq Done'
        /\ \A u \in Threads : u # t => tpc'[u] = tpc[u] /\ Extends(u)' = Extends(u)
    BY <1>t, DoneStep, GoesLemma DEF Extends
  <1>1. CASE TestLast(t) /\ IsLast
    <2>1. t \notin Done /\ threadNum = NUM_THREAD - 1 /\ tpc'[t] = "extend"
      BY <1>1, <1>t DEF TestLast, Goes, IsLast, Done, SharedType
    <2>2. Cardinality(Done) >= NUM_THREAD - 1
      BY <1>t, <2>1, ThreadsFinite, NumThreadAssumption DEF Counted
    <2>3. Threads \ {t} \subseteq Done
      BY <2>1, <2>2, OthersDone
    <2>4. \A u \in Threads : u # t => ~Extends(u)
      BY <1>t, <2>1 DEF Alone
    <2> QED
      BY <1>s, <2>1, <2>3, <2>4 DEF Alone, Single
  <1>2. CASE ~(TestLast(t) /\ IsLast)
    <2>1. Extends(t)' => Extends(t)
      <3>1. CASE pieceSize(t)
        BY <3>1, <1>t, <1>d DEF pieceSize, Goes, Extends, SharedType
      <3>2. CASE Extend(t)
        BY <3>2 DEF Extend, Goes, Extends
      <3>3. CASE ~pieceSize(t) /\ ~Extend(t)
        BY <1>2, <3>3, <1>t DEF chunkin, createSock, TestLast, Seek, LoadThreadNum, StoreThreadNum,
           ClearExtra, SendPiece, Goes, Extends, SharedType, threadVars
      <3> QED
        BY <3>1, <3>2, <3>3
    <2>2. Extends(t) => tpc'[t] \notin {"none", "connect", "size", "last"}
      BY <1>t DEF Alone, chunkin, createSock, pieceSize, TestLast, Extend, Seek, LoadThreadNum,
         StoreThreadNum, ClearExtra, SendPiece, Goes, SharedType
    <2> QED
      BY <1>t, <1>s, <2>1, <2>2 DEF Alone, Single
  <1> QED
    BY <1>1, <1>2

-----------------------------------------------------------------------------
(* Theorems about the threads *)

THEOREM Inductive == Spec => []IInv
  <1>1. IInv /\ [Next]_vars => IInv'
    <2> SUFFICES ASSUME IInv, [Next]_vars PROVE IInv'
      OBVIOUS
    <2>1. CASE Main \/ Server \/ UNCHANGED vars
      BY <2>1, OtherStep
    <2>2. ASSUME NEW t \in Threads, chunkin(t) PROVE IInv'
      BY <2>2, GoesLemma, CountedStep, AloneStep DEF IInv
    <2> QED
      BY <2>1, <2>2 DEF Next
  <1> QED
    BY <1>1, InitIInv, PTL DEF Spec

\* At most one thread extends its piece, however many there are and however
\* their accesses of threadNum interleave (sendClient.c:115-126).
THEOREM OneExtends == Spec => []AtMostOneExtends
  <1>1. IInv => AtMostOneExtends
    BY DEF IInv, Single, Extends, AtMostOneExtends
  <1> QED
    BY <1>1, Inductive, PTL

-----------------------------------------------------------------------------
(* What the threads send and the server makes of it *)

Share == size \div NUM_THREAD
Remainder == size % NUM_THREAD
Smaller(a, b) == IF a < b THEN a ELSE b
Rest(from) == IF from < size THEN size - from ELSE 0

\* The threads that have connected, as many as there are connections
Connected == {t \in Threads : tpc[t] \notin {"none", "connect"}}

Connections ==
  /\ conns \in Seq(Threads) /\ Len(conns) = Cardinality(Connected)
  /\ \A k \in 1 .. Len(conns) : conns[k] \in Connected

\* main() is where its variables say, and has joined all threads when it is finished
MainAt ==
  /\ main \in {"connect", "open", "create", "join", "finished", "failed"}
  /\ created <= NUM_THREAD
  /\ main = "finished" => \A t \in Threads : tpc[t] = "exited"

\* The length of a piece: extraBytes is the remainder or has been cleared
Lengths ==
  /\ size \in Sizes /\ extraBytes \in {0, Remainder}
  /\ loaded \in [Threads -> Threads]
  /\ \A t \in Threads :
       /\ tpc[t] \in {"last", "extend"} => chunk[t] = Share
       /\ tpc[t] \notin {"none", "connect", "size"} => chunk[t] \in {Share, Share + Remainder}

\* A thread whose piece is longer seeks while threadNum is the last number
Places ==
  /\ offset \in [Threads -> Nat]
  /\ \A t \in Threads :
       /\ tpc[t] = "extend" => threadNum = NUM_THREAD - 1
       /\ tpc[t] = "seek" /\ chunk[t] # Share => threadNum = NUM_THREAD - 1
       /\ tpc[t] \in {"load", "store", "clear", "send", "exited"} /\ chunk[t] # Share =>
            offset[t] = chunk[t] * (NUM_THREAD - 1)

\* What a thread has sent ends with the file, and is never longer than a share
Sending ==
  /\ sent \in [Threads -> Piece]
  /\ \A t \in Threads :
       /\ tpc[t] # "exited" => sent[t] = NoPiece
       /\ tpc[t] = "exited" =>
            sent[t].from = offset[t] /\ sent[t].len = Smaller(chunk[t], Rest(offset[t]))
       /\ sent[t].len <= Share

\* What the server has is the first part of what was sent
Receiving ==
  /\ server \in {"listen", "accept", "merge", "merged", "looping", "crashed"}
  /\ pieces \in Seq(Piece) /\ Len(pieces) <= Len(conns)
  /\ server = "listen" => Len(pieces) = 0
  /\ server = "accept" => Len(pieces) < NUM_THREAD
  /\ server \in {"merge", "merged"} => Len(pieces) = NUM_THREAD
  /\ \A k \in 1 .. Len(pieces) :
       /\ tpc[conns[k]] = "exited"
       /\ pieces[k] = [from |-> sent[conns[k]].from,
                       len |-> Smaller(sent[conns[k]].len, Capacity)]

\* The pieces that are in the merge file are shares, one after the other
InPlace == \A k \in 1 .. copied : pieces[k].from = (k - 1) * Share /\ pieces[k].len = Share

Merging ==
  /\ copied \in 0 .. NUM_THREAD /\ merged \in Seq(Nat)
  /\ server \in {"listen", "accept"} => copied = 0
  /\ server = "merge" => copied < NUM_THREAD
  /\ server = "merged" => copied = NUM_THREAD
  /\ Len(merged) <= copied * Share
  /\ InPlace <=> merged = [j \in 1 .. copied * Share |-> j - 1]

Transfer == Connections /\ MainAt /\ Lengths /\ Places /\ Sending /\ Receiving /\ Merging

-----------------------------------------------------------------------------
(* Lemmas about the pieces *)

\* The division of the file into shares
LEMMA Shares ==
  ASSUME Lengths
  PROVE  /\ size \in Nat /\ Share \in Nat \ {0} /\ Remainder \in 0 .. NUM_THREAD - 1
         /\ size = NUM_THREAD * Share + Remainder
  <1> USE NumThreadAssumption
  <1>1. size \in Nat /\ size >= NUM_THREAD
    BY SizesAssumption DEF Lengths
  <1>2. Share \in Nat /\ Remainder \in 0 .. NUM_THREAD - 1
    BY <1>1 DEF Share, Remainder
  <1>3. size = NUM_THREAD * Share + Remainder
    BY <1>1 DEF Share, Remainder
  <1>4. Share # 0
    BY <1>1 DEF Share
  <1> QED
    BY <1>1, <1>2, <1>3, <1>4

LEMMA SmallerFacts ==
  ASSUME NEW a \in Nat, NEW b \in Nat
  PROVE  Smaller(a, b) \in Nat /\ Smaller(a, b) <= a /\ Smaller(a, b) <= b
  BY DEF Smaller

\* A piece with the remainder, at a multiple of its own length, loses at least
\* the remainder at the end of the file
LEMMA LongerPiece ==
  ASSUME Lengths
  PROVE  Rest((Share + Remainder) * (NUM_THREAD - 1)) <= Share
  <1> DEFINE at == (Share + Remainder) * (NUM_THREAD - 1)
  <1>1. /\ size \in Nat /\ Share \in Nat /\ Remainder \in Nat
        /\ size = NUM_THREAD * Share + Remainder
    BY Shares, NumThreadAssumption
  <1>2. at = Share * NUM_THREAD - Share + Remainder * (NUM_THREAD - 1)
    BY <1>1, NumThreadAssumption
  <1>3. Remainder * (NUM_THREAD - 1) >= Remainder
    <2>1. CASE NUM_THREAD = 1
      BY <1>1, <2>1 DEF Remainder
    <2>2. CASE NUM_THREAD >= 2
      BY <1>1, <2>2, NumThreadAssumption
    <2> QED
      BY <2>1, <2>2, NumThreadAssumption
  <1>4. at \in Nat /\ size - at <= Share
    <2> HIDE DEF at
    <2>1. Share * NUM_THREAD \in Nat /\ NUM_THREAD * Share = Share * NUM_THREAD
      BY <1>1, NumThreadAssumption
    <2>2. Remainder * (NUM_THREAD - 1) \in Nat
      BY <1>1, NumThreadAssumption
    <2>3. Share * NUM_THREAD >= Share
      BY <1>1, NumThreadAssumption
    <2> QED
      BY <1>1, <1>2, <1>3, <2>1, <2>2, <2>3
  <1> HIDE DEF at
  <1>5. Rest(at) <= Share
    BY <1>1, <1>4 DEF Rest
  <1> QED
    BY <1>5 DEF at

-----------------------------------------------------------------------------
(* The steps of main() and the server *)

\* A thread that has not connected has not sent
LEMMA InitTransfer == Init => Transfer
  <1> SUFFICES ASSUME Init PROVE Transfer
    OBVIOUS
  <1> USE NumThreadAssumption
  <1>1. Connected = {}
    BY DEF Init, Connected
  <1>2. Connections
    BY <1>1, FS_EmptySet DEF Init, Connections
  <1>3. MainAt /\ Places /\ Receiving
    BY DEF Init, MainAt, Places, Receiving
  <1>4. Lengths
    BY DEF Init, Lengths, Threads
  <1>5. Share \in Nat
    BY <1>4, Shares
  <1>6. Sending
    BY <1>5 DEF Init, Sending, Piece, NoPiece
  <1>7. Merging
    <2>1. merged = [j \in 1 .. copied * Share |-> j - 1]
      BY <1>5 DEF Init
    <2>2. InPlace
      BY DEF Init, InPlace
    <2> QED
      BY <1>5, <2>1, <2>2 DEF Init, Merging
  <1> QED
    BY <1>2, <1>3, <1>4, <1>6, <1>7 DEF Transfer

LEMMA MainStep ==
  ASSUME IInv, Transfer, Main
  PROVE  Transfer'
  <1> USE NumThreadAssumption
  <1>t. SharedType /\ Started /\ Transfer
    BY DEF IInv
  <1>1. UNCHANGED <<size, threadVars, conns, serverVars>>
    BY DEF Main, ConnectMain, SendName, NoSuchFile, CreateThread, JoinThreads, ServerGone
  <1>2. \A t \in Threads : tpc'[t] = tpc[t] \/ (tpc[t] = "none" /\ tpc'[t] = "connect")
    <2>1. CASE CreateThread
      <3>1. created \in Threads /\ tpc[created] = "none"
        BY <1>t, <2>1 DEF Started, CreateThread, Threads
      <3> QED
        BY <1>t, <2>1, <3>1 DEF SharedType, CreateThread
    <2>2. CASE ~CreateThread
      BY <2>2 DEF Main, ConnectMain, SendName, NoSuchFile, JoinThreads, ServerGone
    <2> QED
      BY <2>1, <2>2
  <1>3. Connected' = Connected
    BY <1>2 DEF Connected
  <1>4. Connections'
    BY <1>1, <1>3, <1>t DEF Transfer, Connections
  <1>5. MainAt'
    BY <1>t DEF Transfer, MainAt, Started, Main, ConnectMain, SendName, NoSuchFile, CreateThread,
                JoinThreads, ServerGone, MainGoes
  <1>6. Lengths' /\ Places' /\ Sending'
    BY <1>1, <1>2, <1>t DEF Transfer, Lengths, Places, Sending, threadVars, Share, Remainder, Rest
  <1>7. Receiving' /\ Merging'
    BY <1>1, <1>2, <1>t DEF Transfer, Receiving, Merging, InPlace, Connections, threadVars, serverVars, Share
  <1> QED
    BY <1>4, <1>5, <1>6, <1>7 DEF Transfer

\* The server takes a piece only from a thread that has sent it
LEMMA ReceivePieceStep ==
  ASSUME IInv, Transfer, ReceivePiece
  PROVE  Receiving'
  <1> DEFINE k == Len(pieces) + 1
             t == conns[k]
             p == [sent[t] EXCEPT !.len = IF @ < Capacity THEN @ ELSE Capacity]
  <1>1. /\ server = "accept" /\ k <= Len(conns) /\ pieces \in Seq(Piece) /\ Len(pieces) < NUM_THREAD
        /\ conns \in Seq(Threads) /\ t \in Threads /\ sent[t] \in Piece
    BY DEF Transfer, Connections, Receiving, ReceivePiece, Sending
  <1>2. tpc[t] = "exited"
    BY <1>1 DEF ReceivePiece, Arrived, Transfer, Sending, MainAt, NoPiece
  <1>3. p = [from |-> sent[t].from, len |-> Smaller(sent[t].len, Capacity)] /\ p \in Piece
    <2>1. PICK f \in Nat, l \in Nat : sent[t] = [from |-> f, len |-> l]
      BY <1>1 DEF Piece
    <2>2. p = [from |-> f, len |-> IF l < Capacity THEN l ELSE Capacity]
      BY <2>1
    <2> QED
      BY <2>1, <2>2, CapacityAssumption DEF Piece, Smaller
  <1>4. /\ pieces' = Append(pieces, p) /\ UNCHANGED <<clientVars, size>>
        /\ server' = IF k = NUM_THREAD THEN "merge" ELSE "accept"
    BY DEF ReceivePiece
  <1> HIDE DEF p
  <1>5. /\ pieces' \in Seq(Piece) /\ Len(pieces') = Len(pieces) + 1 /\ pieces'[k] = p
        /\ \A j \in 1 .. Len(pieces) : pieces'[j] = pieces[j]
    BY <1>1, <1>3, <1>4
  <1>6. \A j \in 1 .. Len(pieces') :
           /\ tpc[conns[j]] = "exited"
           /\ pieces'[j] = [from |-> sent[conns[j]].from, len |-> Smaller(sent[conns[j]].len, Capacity)]
    <2> SUFFICES ASSUME NEW j \in 1 .. Len(pieces')
                 PROVE  /\ tpc[conns[j]] = "exited"
                        /\ pieces'[j] = [from |-> sent[conns[j]].from,
                                         len |-> Smaller(sent[conns[j]].len, Capacity)]
      OBVIOUS
    <2>1. CASE j = k
      BY <1>2, <1>3, <1>5, <2>1
    <2>2. CASE j \in 1 .. Len(pieces)
      BY <1>5, <2>2 DEF Transfer, Receiving
    <2> QED
      BY <1>1, <1>5, <2>1, <2>2
  <1> QED
    <2>1. UNCHANGED <<tpc, conns, sent>>
      BY <1>4 DEF clientVars, threadVars
    <2>2. Len(pieces') = k /\ Len(pieces) \in Nat
      BY <1>1, <1>5
    <2>3. /\ Len(pieces') <= Len(conns') /\ server' \in {"accept", "merge"}
          /\ (server' = "accept" => Len(pieces') < NUM_THREAD)
          /\ (server' = "merge" => Len(pieces') = NUM_THREAD)
      BY <1>1, <1>4, <2>1, <2>2, NumThreadAssumption
    <2> HIDE DEF k, t
    <2>4. \A j \in 1 .. Len(pieces') :
             /\ tpc'[conns'[j]] = "exited"
             /\ pieces'[j] = [from |-> sent'[conns'[j]].from,
                              len |-> Smaller(sent'[conns'[j]].len, Capacity)]
      BY <1>6, <2>1
    <2> QED
      BY <1>5, <2>3, <2>4 DEF Receiving

\* The numbers from 0 on, continued
LEMMA Continued ==
  ASSUME NEW a \in Nat, NEW b \in Nat
  PROVE  [j \in 1 .. a |-> j - 1] \o Bytes([from |-> a, len |-> b]) = [j \in 1 .. a + b |-> j - 1]
  <1> DEFINE s == [j \in 1 .. a |-> j - 1]
             u == Bytes([from |-> a, len |-> b])
             w == [j \in 1 .. a + b |-> j - 1]
  <1>1. s \in Seq(Nat) /\ Len(s) = a /\ \A j \in 1 .. a : s[j] = j - 1
    OBVIOUS
  <1>2. u \in Seq(Nat) /\ Len(u) = b /\ \A j \in 1 .. b : u[j] = a + j - 1
    BY DEF Bytes
  <1>3. w \in Seq(Nat) /\ Len(w) = a + b /\ \A j \in 1 .. a + b : w[j] = j - 1
    OBVIOUS
  <1> HIDE DEF s, u, w
  <1>4. /\ s \o u \in Seq(Nat) /\ Len(s \o u) = a + b
        /\ \A j \in 1 .. a + b : (s \o u)[j] = IF j <= a THEN s[j] ELSE u[j - a]
    BY <1>1, <1>2, ConcatProperties
  <1>5. \A j \in 1 .. a + b : (s \o u)[j] = w[j]
    BY <1>1, <1>2, <1>3, <1>4
  <1>6. s \o u = w
    BY <1>3, <1>4, <1>5, SeqEqual
  <1> QED
    BY <1>6 DEF s, u, w

\* A piece in the merge file is at most a share, and a whole one continues it
LEMMA MergePieceStep ==
  ASSUME IInv, Transfer, MergePiece
  PROVE  Merging'
  <1> DEFINE p == pieces[copied + 1]
  <1>1. /\ server = "merge" /\ copied \in Nat /\ copied < NUM_THREAD /\ Len(pieces) = NUM_THREAD
        /\ pieces \in Seq(Piece) /\ merged \in Seq(Nat) /\ Len(merged) <= copied * Share
        /\ Share \in Nat /\ Len(pieces) <= Len(conns)
    BY Shares, NumThreadAssumption DEF MergePiece, Transfer, Merging, Receiving
  <1>2. p \in Piece /\ p.len <= Share
    <2>1. /\ p = [from |-> sent[conns[copied + 1]].from,
                  len |-> Smaller(sent[conns[copied + 1]].len, Capacity)]
          /\ conns[copied + 1] \in Threads
      BY <1>1 DEF Transfer, Receiving, Connections
    <2>2. sent[conns[copied + 1]].len \in Nat /\ sent[conns[copied + 1]].len <= Share
      BY <2>1 DEF Transfer, Sending, Piece
    <2>3. p \in Piece
      BY <1>1
    <2>4. p.len = Smaller(sent[conns[copied + 1]].len, Capacity)
      BY <2>1
    <2> QED
      BY <1>1, <2>2, <2>3, <2>4, CapacityAssumption DEF Smaller
  <1>3. Bytes(p) \in Seq(Nat) /\ Len(Bytes(p)) = p.len
    BY <1>2 DEF Bytes, Piece
  <1>4. /\ merged' = merged \o Bytes(p) /\ copied' = copied + 1 /\ UNCHANGED <<size, pieces, conns>>
        /\ server' = IF copied' = NUM_THREAD THEN "merged" ELSE "merge"
    BY DEF MergePiece, clientVars
  <1>5. copied' * Share = copied * Share + Share /\ copied * Share \in Nat
    BY <1>1, <1>4
  <1>6. merged' \in Seq(Nat) /\ Len(merged') <= copied' * Share
    <2> HIDE DEF p
    <2>1. merged' \in Seq(Nat) /\ Len(merged') = Len(merged) + p.len
      <3> DEFINE b == Bytes(p)
      <3>1. /\ merged \in Seq(Nat) /\ b \in Seq(Nat) /\ Len(b) = p.len /\ merged' = merged \o b
            /\ p.len \in Nat
        BY <1>1, <1>2, <1>3, <1>4 DEF Piece
      <3> HIDE DEF b
      <3>2. merged \o b \in Seq(Nat) /\ Len(merged \o b) = Len(merged) + Len(b)
        BY <3>1, ConcatProperties
      <3> QED
        BY <3>1, <3>2
    <2> QED
      BY <1>1, <1>2, <1>5, <2>1 DEF Piece
  <1>7. ASSUME InPlace' PROVE merged' = [j \in 1 .. copied' * Share |-> j - 1]
    <2>1. \A k \in 1 .. copied + 1 : pieces[k].from = (k - 1) * Share /\ pieces[k].len = Share
      BY <1>4, <1>7 DEF InPlace, Share
    <2>2. merged = [j \in 1 .. copied * Share |-> j - 1]
      <3>1. InPlace
        BY <1>1, <2>1 DEF InPlace
      <3> QED
        BY <3>1 DEF Transfer, Merging
    <2>3. p = [from |-> copied * Share, len |-> Share]
      <3>1. p.from = (copied + 1 - 1) * Share /\ p.len = Share
        BY <1>1, <2>1
      <3>2. copied + 1 - 1 = copied
        BY <1>1
      <3>3. p = [from |-> p.from, len |-> p.len]
        BY <1>2 DEF Piece
      <3> HIDE DEF p
      <3> QED
        BY <3>1, <3>2, <3>3
    <2> QED
      BY <1>1, <1>4, <1>5, <2>2, <2>3, Continued
  \* A merge file without a gap has only whole shares
  <1>8. ASSUME merged' = [j \in 1 .. copied' * Share |-> j - 1] PROVE InPlace'
    <2> DEFINE b == Bytes(p)
               a == copied * Share
    <2>1. /\ b \in Seq(Nat) /\ Len(b) = p.len /\ p.len \in Nat /\ p.from \in Nat /\ p.len <= Share
          /\ merged \in Seq(Nat) /\ Len(merged) <= a /\ merged' = merged \o b /\ a \in Nat
          /\ \A j \in 1 .. p.len : b[j] = p.from + j - 1
      BY <1>1, <1>2, <1>3, <1>4, <1>5 DEF Piece, Bytes
    <2>2. merged' = [j \in 1 .. a + Share |-> j - 1]
      BY <1>5, <1>8
    <2>3. /\ Share \in Nat \ {0} /\ copied + 1 \in 1 .. NUM_THREAD
      BY <1>1, Shares DEF Transfer
    <2> HIDE DEF a, b, p
    <2>4. /\ Len(merged') = Len(merged) + p.len
          /\ \A j \in 1 .. Len(merged) + p.len :
               merged'[j] = IF j <= Len(merged) THEN merged[j] ELSE b[j - Len(merged)]
      BY <2>1, ConcatProperties
    <2>5. Len(merged') = a + Share
      BY <2>1, <2>2, <2>3
    <2>6. Len(merged) = a /\ p.len = Share
      BY <2>1, <2>3, <2>4, <2>5
    <2>7. merged = [j \in 1 .. a |-> j - 1]
      <3>1. \A j \in 1 .. a : merged[j] = j - 1
        BY <2>1, <2>2, <2>3, <2>4, <2>6
      <3> QED
        BY <2>1, <2>6, <3>1
    <2>8. p.from = a
      <3>1. merged'[a + 1] = b[1] /\ b[1] = p.from
        BY <2>1, <2>3, <2>4, <2>6
      <3>2. merged'[a + 1] = a
        BY <2>1, <2>2, <2>3
      <3> QED
        BY <3>1, <3>2
    <2>9. InPlace
      BY <2>7 DEF a, Transfer, Merging
    <2>10. ASSUME NEW k \in 1 .. copied + 1
           PROVE  pieces[k].from = (k - 1) * Share /\ pieces[k].len = Share
      <3>1. CASE k = copied + 1
        BY <1>1, <2>6, <2>8, <3>1 DEF a, p
      <3>2. CASE k \in 1 .. copied
        BY <2>9, <3>2 DEF InPlace
      <3> QED
        BY <1>1, <3>1, <3>2
    <2> QED
      BY <1>4, <2>10 DEF InPlace, Share
  <1> QED
    <2>1. Share' = Share
      BY <1>4 DEF Share
    <2>2. copied' = copied + 1 /\ server' = IF copied' = NUM_THREAD THEN "merged" ELSE "merge"
      BY <1>4
    <2> HIDE DEF p
    <2>3. /\ copied' \in 0 .. NUM_THREAD /\ server' \in {"merge", "merged"}
          /\ server' = "merge" => copied' < NUM_THREAD
          /\ server' = "merged" => copied' = NUM_THREAD
      BY <1>1, <2>2, NumThreadAssumption
    <2> QED
      BY <1>6, <1>7, <1>8, <2>1, <2>3 DEF Merging

LEMMA ServerStep ==
  ASSUME IInv, Transfer, Server
  PROVE  Transfer'
  <1> USE NumThreadAssumption
  <1>1. UNCHANGED <<size, clientVars>>
    BY DEF Server, AcceptName, NameMissing, NameOverflow, ReceivePiece, MergePiece, MergeNothing
  <1>2. Connections' /\ MainAt' /\ Lengths' /\ Places' /\ Sending'
    BY <1>1 DEF Transfer, Connections, Connected, MainAt, Lengths, Places, Sending, clientVars,
                threadVars, Share, Remainder, Rest
  <1>3. Receiving'
    <2>1. CASE ReceivePiece
      BY <2>1, ReceivePieceStep
    <2>2. CASE AcceptName \/ NameMissing \/ NameOverflow \/ MergePiece \/ MergeNothing
      <3>1. UNCHANGED <<tpc, conns, sent, pieces>>
        BY <1>1, <2>2 DEF AcceptName, NameMissing, NameOverflow, MergePiece, MergeNothing,
                          clientVars, threadVars
      <3>2. \/ server = "listen" /\ server' \in {"accept", "crashed"}
            \/ server \in {"accept", "merge"} /\ server' = "crashed"
            \/ server = "merge" /\ server' \in {"merge", "merged", "looping"}
        BY <2>2 DEF AcceptName, NameMissing, NameOverflow, MergePiece, MergeNothing
      <3> QED
        BY <3>1, <3>2 DEF Transfer, Receiving
    <2> QED
      BY <2>1, <2>2 DEF Server
  <1>4. Merging'
    <2>1. CASE MergePiece
      BY <2>1, MergePieceStep
    <2>2. CASE AcceptName \/ NameMissing \/ NameOverflow \/ MergeNothing
      BY <1>1, <2>2 DEF AcceptName, NameMissing, NameOverflow, MergeNothing, Transfer, Merging,
                        InPlace, Share
    <2>3. CASE ReceivePiece
      <3>1. copied = 0 /\ UNCHANGED <<size, copied, merged>> /\ server' \in {"merge", "accept"}
            /\ server = "accept"
        BY <2>3 DEF ReceivePiece, Transfer, Merging
      <3>2. InPlace
        BY <3>1 DEF InPlace
      <3> QED
        BY <3>1, <3>2 DEF Transfer, Merging, InPlace, Share
    <2> QED
      BY <2>1, <2>2, <2>3 DEF Server
  <1> QED
    BY <1>2, <1>3, <1>4 DEF Transfer

-----------------------------------------------------------------------------
(* The steps of a thread *)

\* What a step of t leaves alone
LEMMA ThreadFrame ==
  ASSUME IInv, Transfer, NEW t \in Threads, chunkin(t)
  PROVE  /\ UNCHANGED <<size, main, created, serverVars>> /\ tpc[t] \notin {"none", "exited"}
         /\ offset' \in [Threads -> Nat]
         /\ \A u \in Threads : u # t =>
              tpc'[u] = tpc[u] /\ chunk'[u] = chunk[u] /\ offset'[u] = offset[u] /\ sent'[u] = sent[u]
         /\ ~SendPiece(t) => tpc'[t] # "exited" /\ sent' = sent
  <1>t. SharedType /\ offset \in [Threads -> Nat] /\ sent \in [Threads -> Piece]
    BY DEF IInv, Transfer, Places, Sending
  <1> USE DEF chunkin, createSock, pieceSize, TestLast, Extend, Seek, LoadThreadNum, StoreThreadNum,
              ClearExtra, SendPiece, Goes, threadVars
  <1>1. UNCHANGED <<size, main, created, serverVars>> /\ tpc[t] \notin {"none", "exited"}
    OBVIOUS
  <1>2. /\ ~Seek(t) => offset' = offset
        /\ ~SendPiece(t) => tpc'[t] # "exited" /\ sent' = sent
    BY <1>t DEF SharedType
  <1>3. Seek(t) => offset' = [offset EXCEPT ![t] = chunk[t] * threadNum] /\ chunk[t] * threadNum \in Nat
    BY <1>t DEF SharedType
  <1>4. SendPiece(t) => \A u \in Threads : u # t => sent'[u] = sent[u]
    BY <1>t
  <1> HIDE DEF chunkin, createSock, pieceSize, TestLast, Extend, Seek, LoadThreadNum, StoreThreadNum,
              ClearExtra, SendPiece, Goes, threadVars
  <1>5. offset' \in [Threads -> Nat] /\ \A u \in Threads : u # t => offset'[u] = offset[u]
    BY <1>t, <1>2, <1>3
  <1> QED
    BY <1>1, <1>2, <1>4, <1>5, GoesLemma

\* Each thread connects once
LEMMA ConnectionsStep ==
  ASSUME IInv, Transfer, NEW t \in Threads, chunkin(t)
  PROVE  Connections'
  <1>t. SharedType /\ Connections
    BY DEF IInv, Transfer
  <1>f. IsFiniteSet(Connected)
    BY ThreadsFinite, FS_Subset DEF Connected
  <1>1. CASE createSock(t)
    <2>1. t \notin Connected /\ Connected' = Connected \cup {t} /\ conns' = Append(conns, t)
      BY <1>1, <1>t DEF createSock, Goes, Connected, SharedType
    <2>2. Cardinality(Connected') = Cardinality(Connected) + 1
      BY <1>f, <2>1, FS_AddElement
    <2> QED
      BY <1>t, <2>1, <2>2 DEF Connections
  <1>2. CASE ~createSock(t)
    <2>1. Connected' = Connected /\ conns' = conns
      BY <1>2, <1>t DEF chunkin, pieceSize, TestLast, Extend, Seek, LoadThreadNum, StoreThreadNum,
         ClearExtra, SendPiece, Goes, Connected, SharedType
    <2> QED
      BY <1>t, <2>1 DEF Connections
  <1> QED
    BY <1>1, <1>2

\* While a thread has not stored threadNum, the counter has not reached NUM_THREAD
LEMMA NotYetLast ==
  ASSUME IInv, NEW t \in Threads, t \notin Done
  PROVE  threadNum \in Threads
  <1>1. Done \in SUBSET (Threads \ {t})
    BY DEF Done
  <1>2. IsFiniteSet(Threads \ {t}) /\ Cardinality(Threads \ {t}) = NUM_THREAD - 1
    BY ThreadsFinite, FS_RemoveElement
  <1>3. Cardinality(Done) <= NUM_THREAD - 1
    BY <1>1, <1>2, FS_Subset
  <1> QED
    BY <1>3, ThreadsFinite, NumThreadAssumption DEF IInv, Counted, SharedType, Threads

LEMMA LengthsStep ==
  ASSUME IInv, Transfer, NEW t \in Threads, chunkin(t)
  PROVE  Lengths'
  <1>t. SharedType /\ Lengths /\ Share' = Share /\ Remainder' = Remainder /\ size' = size
    BY ThreadFrame DEF IInv, Transfer, Share, Remainder
  <1>s. Share \in Nat /\ Remainder \in Nat
    BY <1>t, Shares, NumThreadAssumption
  <1>1. extraBytes' \in {0, Remainder}
    BY <1>t DEF Lengths, chunkin, createSock, pieceSize, TestLast, Extend, Seek, LoadThreadNum,
       StoreThreadNum, ClearExtra, SendPiece, threadVars, Remainder
  <1>2. loaded' \in [Threads -> Threads]
    <2>1. CASE LoadThreadNum(t)
      <3>1. threadNum \in Threads
        BY <2>1, NotYetLast DEF LoadThreadNum, Goes, Done
      <3> QED
        BY <2>1, <3>1, <1>t DEF LoadThreadNum, Lengths
    <2>2. CASE ~LoadThreadNum(t)
      BY <2>2, <1>t DEF Lengths, chunkin, createSock, pieceSize, TestLast, Extend, Seek,
         StoreThreadNum, ClearExtra, SendPiece, threadVars
    <2> QED
      BY <2>1, <2>2
  <1>3. /\ tpc'[t] \in {"last", "extend"} => chunk'[t] = Share
        /\ tpc'[t] \notin {"none", "connect", "size"} => chunk'[t] \in {Share, Share + Remainder}
    <2>1. CASE createSock(t)
      BY <2>1, <1>t DEF createSock, Goes, SharedType
    <2>2. CASE pieceSize(t)
      BY <2>2, <1>t DEF pieceSize, Goes, SharedType, Share
    <2>3. CASE Extend(t)
      <3>1. tpc[t] = "extend" /\ tpc'[t] = "seek" /\ chunk'[t] = chunk[t] + extraBytes
        BY <2>3, <1>t DEF Extend, Goes, SharedType
      <3> QED
        BY <3>1, <1>t, <1>s DEF Lengths
    <2>4. CASE ~createSock(t) /\ ~pieceSize(t) /\ ~Extend(t)
      <3>1. /\ chunk' = chunk /\ tpc[t] \notin {"none", "connect", "size"}
            /\ tpc'[t] = "extend" => tpc[t] = "last"
            /\ tpc'[t] # "last"
        BY <2>4, <1>t DEF chunkin, TestLast, Seek, LoadThreadNum, StoreThreadNum, ClearExtra,
           SendPiece, Goes, threadVars, SharedType
      <3> QED
        BY <3>1, <1>t DEF Lengths
    <2> QED
      BY <2>1, <2>2, <2>3, <2>4
  <1> QED
    BY <1>t, <1>1, <1>2, <1>3, ThreadFrame DEF Lengths

\* No other thread changes threadNum under one that extends its piece
LEMMA PlacesStep ==
  ASSUME IInv, Transfer, NEW t \in Threads, chunkin(t)
  PROVE  Places'
  <1>t. /\ SharedType /\ Lengths /\ Places /\ Alone /\ Share' = Share
        /\ Share \in Nat /\ Remainder \in Nat
    BY ThreadFrame, Shares, NumThreadAssumption DEF IInv, Transfer, Share
  <1>1. ASSUME NEW u \in Threads, u # t, Extends(u)
        PROVE  threadNum' = threadNum
    <2>1. t \in Done
      BY <1>1, <1>t DEF Alone
    <2> QED
      BY <2>1 DEF Done, chunkin, createSock, pieceSize, TestLast, Extend, Seek, LoadThreadNum,
         StoreThreadNum, ClearExtra, SendPiece, Goes, threadVars
  <1>2. ASSUME NEW u \in Threads, u # t
        PROVE  /\ tpc'[u] = "extend" => threadNum' = NUM_THREAD - 1
               /\ tpc'[u] = "seek" /\ chunk'[u] # Share => threadNum' = NUM_THREAD - 1
               /\ tpc'[u] \in {"load", "store", "clear", "send", "exited"} /\ chunk'[u] # Share =>
                    offset'[u] = chunk'[u] * (NUM_THREAD - 1)
    <2>1. /\ tpc'[u] = tpc[u] /\ chunk'[u] = chunk[u] /\ offset'[u] = offset[u]
      BY <1>2, ThreadFrame
    <2>2. tpc[u] = "seek" /\ chunk[u] # Share => chunk[u] > size \div NUM_THREAD
      BY <1>t DEF Lengths, Share
    <2> QED
      BY <1>1, <1>2, <1>t, <2>1, <2>2 DEF Places, Extends
  <1>3. /\ tpc'[t] = "extend" => threadNum' = NUM_THREAD - 1
        /\ tpc'[t] = "seek" /\ chunk'[t] # Share => threadNum' = NUM_THREAD - 1
        /\ tpc'[t] \in {"load", "store", "clear", "send", "exited"} /\ chunk'[t] # Share =>
             offset'[t] = chunk'[t] * (NUM_THREAD - 1)
    <2>1. CASE createSock(t) \/ pieceSize(t)
      BY <2>1, <1>t DEF createSock, pieceSize, Goes, SharedType
    <2>2. CASE TestLast(t)
      <3>1. UNCHANGED <<chunk, threadNum>> /\ tpc[t] = "last"
            /\ tpc'[t] = IF IsLast THEN "extend" ELSE "seek"
        BY <2>2, <1>t DEF TestLast, Goes, SharedType, threadVars
      <3> QED
        BY <3>1, <1>t DEF IsLast, Lengths
    <2>3. CASE Extend(t)
      BY <2>3, <1>t DEF Extend, Goes, SharedType, Places
    <2>4. CASE Seek(t)
      BY <2>4, <1>t DEF Seek, Goes, SharedType, Places
    <2>5. CASE LoadThreadNum(t) \/ StoreThreadNum(t) \/ ClearExtra(t) \/ SendPiece(t)
      <3>1. /\ UNCHANGED <<chunk, offset>> /\ tpc[t] \in {"load", "store", "clear", "send"}
            /\ tpc'[t] \in {"store", "clear", "send", "exited"}
        BY <2>5, <1>t DEF LoadThreadNum, StoreThreadNum, ClearExtra, SendPiece, Goes, SharedType
      <3> QED
        BY <3>1, <1>t DEF Places
    <2> QED
      BY <2>1, <2>2, <2>3, <2>4, <2>5 DEF chunkin
  <1> QED
    BY <1>t, <1>2, <1>3, ThreadFrame DEF Places

\* A piece is a share, or begins so late that not more of the file is left
LEMMA SendingStep ==
  ASSUME IInv, Transfer, NEW t \in Threads, chunkin(t)
  PROVE  Sending'
  <1>t. /\ SharedType /\ Lengths /\ Places /\ Sending /\ Share' = Share /\ size' = size
        /\ Share \in Nat /\ Remainder \in Nat /\ size \in Nat
    BY ThreadFrame, Shares, NumThreadAssumption DEF IInv, Transfer, Share
  <1>1. CASE ~SendPiece(t)
    <2>1. /\ sent' = sent /\ tpc'[t] # "exited" /\ tpc[t] # "exited"
          /\ \A u \in Threads : u # t => tpc'[u] = tpc[u] /\ chunk'[u] = chunk[u] /\ offset'[u] = offset[u]
      BY <1>1, ThreadFrame
    <2> QED
      BY <1>t, <2>1 DEF Sending, Rest
  <1>2. CASE SendPiece(t)
    <2> DEFINE len == Smaller(chunk[t], Rest(offset[t]))
    <2>1. /\ sent' = [sent EXCEPT ![t] = [from |-> offset[t], len |-> len]]
          /\ UNCHANGED <<chunk, offset>> /\ tpc[t] = "send" /\ tpc' = [tpc EXCEPT ![t] = "exited"]
      BY <1>2 DEF SendPiece, Goes, Smaller, Rest
    <2>2. chunk[t] \in Nat /\ offset[t] \in Nat /\ Rest(offset[t]) \in Nat
      BY <1>t DEF SharedType, Places, Rest
    <2>3. len \in Nat /\ len <= Share
      <3>1. chunk[t] \in {Share, Share + Remainder}
        BY <1>t, <2>1 DEF Lengths
      <3>2. chunk[t] # Share => Rest(offset[t]) <= Share
        BY <1>t, <2>1, <3>1, LongerPiece DEF Places
      <3> QED
        BY <1>t, <2>2, <3>2, SmallerFacts DEF Smaller
    <2> HIDE DEF len
    <2>4. sent' \in [Threads -> Piece]
      BY <1>t, <2>1, <2>2, <2>3 DEF Sending, Piece
    <2>5. \A u \in Threads : /\ tpc'[u] # "exited" => sent'[u] = NoPiece
                             /\ sent'[u].len <= Share
      BY <1>t, <2>1, <2>3 DEF Sending, SharedType
    <2>6. \A u \in Threads : tpc'[u] = "exited" =>
            sent'[u].from = offset[u] /\ sent'[u].len = Smaller(chunk[u], Rest(offset[u]))
      BY <1>t, <2>1 DEF Sending, SharedType, len
    <2> QED
      BY <1>t, <2>1, <2>4, <2>5, <2>6 DEF Sending, Rest
  <1> QED
    BY <1>1, <1>2

\* The server's pieces are from threads that have exited
LEMMA ThreadStep ==
  ASSUME IInv, Transfer, NEW t \in Threads, chunkin(t)
  PROVE  Transfer'
  <1>t. Connections /\ MainAt /\ Receiving /\ Merging /\ Connections'
    BY ConnectionsStep DEF Transfer
  <1>1. MainAt'
    BY <1>t, ThreadFrame DEF MainAt
  <1>2. /\ Len(conns) <= Len(conns')
        /\ \A k \in 1 .. Len(conns) : conns'[k] = conns[k]
    <2>1. conns' = conns \/ conns' = Append(conns, t)
      BY DEF chunkin, createSock, pieceSize, TestLast, Extend, Seek, LoadThreadNum, StoreThreadNum,
             ClearExtra, SendPiece, threadVars
    <2> QED
      BY <1>t, <2>1 DEF Connections
  <1>3. Receiving'
    <2>1. ASSUME NEW k \in 1 .. Len(pieces)
          PROVE  /\ conns'[k] = conns[k] /\ tpc'[conns[k]] = "exited"
                 /\ sent'[conns[k]] = sent[conns[k]]
      <3>1. k \in 1 .. Len(conns)
        BY <1>t DEF Receiving, Connections
      <3>2. conns[k] \in Threads /\ conns'[k] = conns[k]
        BY <1>t, <1>2, <3>1 DEF Connections
      <3>3. tpc[conns[k]] = "exited"
        BY <1>t DEF Receiving
      <3> QED
        BY <3>2, <3>3, ThreadFrame
    <2>2. UNCHANGED <<server, pieces>>
      BY ThreadFrame DEF serverVars
    <2>3. Len(pieces) <= Len(conns')
      BY <1>t, <1>2 DEF Receiving, Connections
    <2> QED
      BY <1>t, <2>1, <2>2, <2>3 DEF Receiving
  <1>4. Merging'
    BY <1>t, ThreadFrame DEF Merging, InPlace, serverVars, Share
  <1> QED
    BY <1>t, <1>1, <1>3, <1>4, LengthsStep, PlacesStep, SendingStep DEF Transfer

-----------------------------------------------------------------------------
(* Theorems about the whole transfer *)

THEOREM TransferInductive == Spec => []Transfer
  <1>1. IInv /\ Transfer /\ [Next]_vars => Transfer'
    <2> SUFFICES ASSUME IInv, Transfer, [Next]_vars PROVE Transfer'
      OBVIOUS
    <2>1. CASE UNCHANGED vars
      BY <2>1 DEF Transfer, Connections, Connected, MainAt, Lengths, Places, Sending, Receiving,
         Merging, InPlace, Share, Remainder, Rest, vars, clientVars, threadVars, serverVars
    <2> QED
      BY <2>1, MainStep, ThreadStep, ServerStep DEF Next
  <1> QED
    BY <1>1, InitTransfer, Inductive, PTL DEF Spec

\* The name does not change
LEMMA NameKept == name \in Names /\ [Next]_vars => (name \in Names)'
  BY DEF Next, vars, Main, ConnectMain, SendName, NoSuchFile, CreateThread, JoinThreads,
         ServerGone, chunkin, Goes, createSock, pieceSize, TestLast, Extend, Seek,
         LoadThreadNum, StoreThreadNum, ClearExtra, SendPiece, Server, AcceptName, NameMissing,
         NameOverflow, ReceivePiece, MergePiece, MergeNothing

\* Every variable has its type: threadNum never passes the number of threads,
\* and a value loaded to be stored never is that number
\* (sendClient.c:20-22, 95-127).
THEOREM TypeCorrect == Spec => []TypeOK
  <1>1. IInv /\ Transfer /\ name \in Names => TypeOK
    <2> SUFFICES ASSUME IInv, Transfer, name \in Names PROVE TypeOK
      OBVIOUS
    <2> USE NumThreadAssumption
    <2>1. created \in 0 .. NUM_THREAD
      BY DEF IInv, Started, Transfer, MainAt
    <2>2. threadNum \in 0 .. NUM_THREAD
      <3>1. Done \in SUBSET Threads
        BY DEF Done
      <3>2. Cardinality(Done) <= NUM_THREAD
        BY <3>1, ThreadsFinite, FS_Subset
      <3> QED
        BY <3>2, ThreadsFinite DEF IInv, SharedType, Counted
    <2>3. extraBytes \in 0 .. NUM_THREAD - 1
      BY Shares DEF Transfer, Lengths
    <2>4. Len(conns) <= NUM_THREAD
      <3>1. Connected \in SUBSET Threads
        BY DEF Connected
      <3> QED
        BY <3>1, ThreadsFinite, FS_Subset DEF Transfer, Connections
    <2>5. Len(pieces) <= NUM_THREAD
      BY <2>4 DEF Transfer, Receiving, Connections
    <2> QED
      BY <2>1, <2>2, <2>3, <2>4, <2>5 DEF TypeOK, IInv, SharedType, Transfer, MainAt, Lengths,
         Places, Sending, Connections, Receiving, Merging
  <1>2. Init => name \in Names
    BY DEF Init
  <1>3. Spec => [](name \in Names)
    BY <1>2, NameKept, PTL DEF Spec
  <1> QED
    BY <1>1, <1>3, Inductive, TransferInductive, PTL

\* Whatever the threads do, a file that NUM_THREAD does not divide arrives
\* without at least its remainder: no piece is longer than a share
\* (sendClient.c:115-124, recServer.c:70, 186).
THEOREM RemainderLost == Spec => []RemainderIsLost
  <1>1. Transfer => RemainderIsLost
    <2> SUFFICES ASSUME Transfer, server = "merged", Remainder # 0 PROVE Len(merged) < size
      BY DEF RemainderIsLost, Remainder
    <2>1. Len(merged) \in Nat /\ Len(merged) <= NUM_THREAD * Share
      BY DEF Transfer, Merging
    <2> QED
      BY <2>1, Shares, NumThreadAssumption DEF Transfer
  <1> QED
    BY <1>1, TransferInductive, PTL

\* The merge file is the file just if the pieces are in the order of the connects,
\* none exceeds one read and NUM_THREAD divides the size
\* (sendClient.c:106-141, recServer.c:46-75, 117-195).
THEOREM CompleteInOrder == Spec => []CompleteJustInOrder
  <1>1. ASSUME Transfer, server = "merged", InOrder, Remainder = 0,
               size <= NUM_THREAD * Capacity
        PROVE  merged = [k \in 1 .. size |-> k - 1]
    <2> USE NumThreadAssumption
    <2>1. size = NUM_THREAD * Share /\ Share \in Nat /\ size \in Nat
      BY <1>1, Shares DEF Transfer
    <2>2. Share <= Capacity
      <3> SUFFICES ASSUME Share >= Capacity + 1 PROVE FALSE
        BY <2>1, CapacityAssumption
      <3>1. NUM_THREAD * Share >= NUM_THREAD * (Capacity + 1)
        BY <2>1, CapacityAssumption
      <3>2. NUM_THREAD * (Capacity + 1) = NUM_THREAD * Capacity + NUM_THREAD
        BY CapacityAssumption
      <3>3. NUM_THREAD * Capacity \in Nat
        BY CapacityAssumption
      <3> QED
        BY <1>1, <2>1, <3>1, <3>2, <3>3
    <2>3. copied = NUM_THREAD /\ Len(pieces) = NUM_THREAD /\ Len(pieces) <= Len(conns)
          /\ conns \in Seq(Threads)
      BY <1>1 DEF Transfer, Merging, Receiving, Connections
    <2>4. ASSUME NEW k \in 1 .. copied
          PROVE  pieces[k].from = (k - 1) * Share /\ pieces[k].len = Share
      <3> DEFINE t == conns[k]
                 at == (k - 1) * Share
      <3>1. t \in Threads /\ tpc[t] = "exited"
            /\ pieces[k] = [from |-> sent[t].from, len |-> Smaller(sent[t].len, Capacity)]
        BY <1>1, <2>3 DEF Transfer, Receiving
      <3>2. sent[t].from = at
        BY <1>1, <2>3 DEF InOrder, Share
      <3>3. sent[t].len = Smaller(Share, Rest(at))
        BY <1>1, <2>1, <3>1, <3>2 DEF Transfer, Sending, Lengths
      <3>4. at \in Nat /\ at + Share <= size
        <4>1. k * Share <= NUM_THREAD * Share
          BY <2>1, <2>3
        <4>2. at + Share = k * Share /\ at \in Nat
          BY <2>1, <2>3
        <4> QED
          BY <2>1, <4>1, <4>2
      <3> HIDE DEF at, t
      <3>5. Smaller(Share, Rest(at)) = Share
        BY <2>1, <3>4 DEF Smaller, Rest
      <3>6. Smaller(Share, Capacity) = Share
        BY <2>1, <2>2, CapacityAssumption DEF Smaller
      <3> QED
        BY <3>1, <3>2, <3>3, <3>5, <3>6 DEF at
    <2>5. merged = [j \in 1 .. copied * Share |-> j - 1]
      BY <1>1, <2>4 DEF Transfer, Merging, InPlace
    <2> QED
      BY <2>1, <2>3, <2>5
  <1>2. ASSUME Transfer, server = "merged", merged = [k \in 1 .. size |-> k - 1]
        PROVE  InOrder /\ Remainder = 0 /\ size <= NUM_THREAD * Capacity
    <2> USE NumThreadAssumption
    <2>1. /\ size = NUM_THREAD * Share + Remainder /\ Share \in Nat \ {0} /\ Remainder \in Nat
          /\ size \in Nat /\ Len(merged) = size
      BY <1>2, Shares DEF Transfer
    <2>2. copied = NUM_THREAD /\ Len(pieces) = NUM_THREAD /\ Len(merged) <= NUM_THREAD * Share
      BY <1>2 DEF Transfer, Merging, Receiving
    <2>3. Remainder = 0 /\ size = NUM_THREAD * Share
      <3>1. NUM_THREAD * Share \in Nat
        BY <2>1
      <3> QED
        BY <2>1, <2>2, <3>1
    <2>4. \A k \in 1 .. NUM_THREAD : pieces[k].from = (k - 1) * Share /\ pieces[k].len = Share
      <3>1. InPlace
        BY <1>2, <2>2, <2>3 DEF Transfer, Merging
      <3> QED
        BY <2>2, <3>1 DEF InPlace
    <2>5. ASSUME NEW k \in 1 .. NUM_THREAD
          PROVE  sent[conns[k]].from = (k - 1) * Share /\ Share <= Capacity
      <3>1. /\ pieces[k] = [from |-> sent[conns[k]].from, len |-> Smaller(sent[conns[k]].len, Capacity)]
            /\ conns[k] \in Threads
        BY <1>2, <2>2 DEF Transfer, Receiving, Connections
      <3>2. sent[conns[k]].len \in Nat
        BY <1>2, <3>1 DEF Transfer, Sending, Piece
      <3>3. Share = Smaller(sent[conns[k]].len, Capacity) /\ sent[conns[k]].from = (k - 1) * Share
        BY <2>4, <3>1
      <3> QED
        BY <3>2, <3>3, CapacityAssumption, SmallerFacts
    <2>6. size <= NUM_THREAD * Capacity
      <3>1. Share <= Capacity
        BY <2>5
      <3> QED
        BY <2>1, <2>3, <3>1, CapacityAssumption
    <2> QED
      BY <2>3, <2>5, <2>6 DEF InOrder, Share
  <1>3. Transfer => CompleteJustInOrder
    BY <1>1, <1>2 DEF CompleteJustInOrder, Remainder
  <1> QED
    BY <1>3, TransferInductive, PTL

-----------------------------------------------------------------------------
(* ChunkedDownload: the threads of a client that goes on all sleep, so one   *)
(* that is past its joins has created none                                   *)

\* Of a client that has not ended, no thread has: its end would be the client's
Sleeping == \A c \in Clients : ~Ended(c) => asleep[c] = spawned[c]

\* How many threads a client has asked for and created where it is
Asked ==
  \A c \in Clients :
    /\ client[c] \in {"connect", "offset"} => spawned[c] = 0
    /\ client[c] \in {"create", "join", "merge", "success"} => total[c] # 0
    /\ client[c] = "join" => spawned[c] >= total[c]
    /\ client[c] \in {"merge", "success"} \/ c \in received => total[c] < 0

DownloadInv == DownloadTypeOK /\ Sleeping /\ Asked

LEMMA DownloadInitInv == DownloadInit => DownloadInv
  BY RequestsAssumption
  DEF DownloadInit, DownloadInv, DownloadTypeOK, Sleeping, Asked, Ended, Ends

LEMMA DownloadNextInv == DownloadInv /\ [DownloadNext]_downloadVars => DownloadInv'
  <1> SUFFICES ASSUME DownloadInv, [DownloadNext]_downloadVars PROVE DownloadInv'
    OBVIOUS
  <1> USE RequestsAssumption DEF DownloadInv, DownloadTypeOK, Sleeping, Asked, Ended, Ends
  <1>1. CASE Accept
    <2>1. Head(pending) \in Clients /\ Tail(pending) \in Seq(Clients)
      BY <1>1 DEF Accept
    <2> QED
      BY <1>1, <2>1 DEF Accept
  <1>2. CASE Receive
    BY <1>2 DEF Receive
  <1>3. ASSUME NEW c \in Clients, ThreadFails(c)
        PROVE  DownloadInv'
    BY <1>3 DEF ThreadFails, Exits, ClientGoes
  <1>4. ASSUME NEW c \in Clients, Connect(c)
        PROVE  DownloadInv'
    <2>1. pending' \in Seq(Clients)
      <3>1. Append(pending, c) \in Seq(Clients)
        BY AppendProperties
      <3> QED
        BY <1>4, <3>1 DEF Connect
    <2>2. \E next \in {"offset", "crash"} : ClientGoes(c, next)
      BY <1>4 DEF Connect
    <2>3. client[c] = "connect" /\ UNCHANGED <<total, spawned, asleep, serverAt, served, received>>
      BY <1>4 DEF Connect
    <2>4. ~Ended(c) /\ asleep[c] = spawned[c] /\ (c \in received => total[c] < 0)
      BY <2>3
    <2>5. CASE ClientGoes(c, "offset")
      BY <2>1, <2>3, <2>4, <2>5 DEF ClientGoes
    <2>6. CASE ClientGoes(c, "crash")
      <3>1. asleep[c] = 0
        BY <2>3, <2>4
      <3> QED
        BY <2>1, <2>3, <2>4, <2>6, <3>1 DEF ClientGoes
    <2> QED
      BY <2>2, <2>5, <2>6
  <1>5. ASSUME NEW c \in Clients, Divide(c)
        PROVE  DownloadInv'
    <2>1. /\ client[c] = "offset" /\ asleep[c] = 0 /\ spawned[c] = 0 /\ total[c] \in Int
          /\ UNCHANGED <<total, spawned, asleep, serverAt, pending, served, received>>
      BY <1>5 DEF Divide
    <2>2. CASE total[c] = 0
      BY <1>5, <2>1, <2>2 DEF Divide, ClientGoes
    <2>3. CASE total[c] # 0
      BY <1>5, <2>1, <2>3 DEF Divide, ClientGoes
    <2> QED
      BY <2>2, <2>3
  <1>6. ASSUME NEW c \in Clients, SpawnThread(c)
        PROVE  DownloadInv'
    BY <1>6 DEF SpawnThread
  <1>7. ASSUME NEW c \in Clients, SpawnEnds(c)
        PROVE  DownloadInv'
    BY <1>7 DEF SpawnEnds, ClientGoes
  <1>8. ASSUME NEW c \in Clients, Join(c)
        PROVE  DownloadInv'
    <2>1. /\ client[c] = "join" /\ asleep[c] = 0 /\ client' = [client EXCEPT ![c] = "merge"]
          /\ UNCHANGED <<total, spawned, asleep, serverAt, pending, served, received>>
      BY <1>8 DEF Join, ClientGoes
    <2>2. total[c] < 0
      <3>1. spawned[c] = 0 /\ spawned[c] >= total[c] /\ total[c] # 0 /\ total[c] \in Int
        BY <2>1
      <3> QED
        BY <3>1
    <2> QED
      BY <2>1, <2>2
  <1>9. ASSUME NEW c \in Clients, Merge(c)
        PROVE  DownloadInv'
    BY <1>9 DEF Merge, ClientGoes
  <1>10. CASE UNCHANGED downloadVars
    BY <1>10 DEF downloadVars
  <1> QED
    BY <1>1, <1>2, <1>3, <1>4, <1>5, <1>6, <1>7, <1>8, <1>9, <1>10 DEF DownloadNext, ClientMain

\* No thread outlives its client and no client of the chunked download merges
\* while one of its threads runs, for all clients and numbers of threads
\* (client.c:69-74, 148-150).
THEOREM DownloadTypeCorrect == DownloadSpec => []DownloadTypeOK
  <1>1. DownloadInv => DownloadTypeOK
    BY DEF DownloadInv
  <1> QED
    BY <1>1, DownloadInitInv, DownloadNextInv, PTL DEF DownloadSpec

\* A chunked download with threads never succeeds: main() is past its joins only
\* if it has created none, for a thread that ends takes its client with it
\* (client.c:69-74, 125-155).
THEOREM NoFileWithThreads == DownloadSpec => []FileNeedsNoThreads
  <1>1. DownloadInv => FileNeedsNoThreads
    BY DEF DownloadInv, Asked, FileNeedsNoThreads
  <1> QED
    BY <1>1, DownloadInitInv, DownloadNextInv, PTL DEF DownloadSpec
=============================================================================
