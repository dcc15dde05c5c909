--------------------------- MODULE ChunkedDownload --------------------------
(***************************************************************************)
(* The chunked download: client.c and server.c of the Sandy assignment.    *)
(*                                                                         *)
(* A client is to fetch a file in pieces, one thread and one port for      *)
(* each.  The code that would tell the server the file's name and the      *)
(* client its size is missing: the server waits on the connection for      *)
(* bytes nobody sends, and what it does next, strcat(buffer, '\0'), reads  *)
(* address 0.  No server.c thread is ever created: nobody listens on the   *)
(* ports of the pieces, and a thread whose connect() fails ends its client.*)
(*                                                                         *)
(* What follows those points in the code is not reached and not modelled.  *)
(* Left out: a number of threads whose arrays do not fit the stack, failed *)
(* calls of socket() and pthread_create(), a port other programs use.      *)
(*                                                                         *)
(* The names of the specification carry Download, because the module of its *)
(* theorems, FileTransferProofs, extends FileTransfer as well.             *)
(***************************************************************************)
EXTENDS Integers, Sequences

CONSTANTS
  Clients,   \* runs of the client program
  NoClient,  \* the value of served before the first connection
  Requests   \* the numbers of threads that are asked for

ASSUME ClientsAssumption == NoClient \notin Clients
ASSUME RequestsAssumption == Requests \subseteq Int

VARIABLES
  client,    \* the statement each client executes next
  total,     \* total_threads
  spawned,   \* how many threads each client has created
  asleep,    \* how many of them there are
  serverAt,  \* the statement the server executes next
  pending,   \* the connections not accepted yet, in their order
  served,    \* the client whose connection was accepted
  received   \* the clients that created the file received_...

downloadVars == <<client, total, spawned, asleep, serverAt, pending, served, received>>

Ends == {"success", "failure", "crash"}
Ended(c) == client[c] \in Ends

DownloadInit ==
  /\ client = [c \in Clients |-> "connect"]
  /\ total \in [Clients -> Requests]
  /\ spawned = [c \in Clients |-> 0] /\ asleep = [c \in Clients |-> 0]
  /\ serverAt = "accept" /\ pending = <<>> /\ served = NoClient
  /\ received = {}

ClientGoes(c, next) == client' = [client EXCEPT ![c] = next]

\* The end of a process ends its threads
Exits(c, how) == ClientGoes(c, how) /\ asleep' = [asleep EXCEPT ![c] = 0]

-----------------------------------------------------------------------------
(* The client *)

\* connect(), whose result is not looked at.  The arrays of a negative length
\* are undefined behaviour: the program crashes or goes on
Connect(c) ==
  /\ client[c] = "connect"
  /\ \/ /\ ClientGoes(c, "offset")
        /\ pending' = IF serverAt = "crashed" THEN pending ELSE Append(pending, c)
     \/ total[c] < 0 /\ ClientGoes(c, "crash") /\ UNCHANGED pending
  /\ UNCHANGED <<total, spawned, asleep, serverAt, served, received>>

\* filesize / total_threads
Divide(c) ==
  /\ client[c] = "offset"
  /\ ClientGoes(c, IF total[c] = 0 THEN "crash" ELSE "create")
  /\ UNCHANGED <<total, spawned, asleep, serverAt, pending, served, received>>

SpawnThread(c) ==
  /\ client[c] = "create" /\ spawned[c] < total[c]
  /\ spawned' = [spawned EXCEPT ![c] = @ + 1]
  /\ asleep' = [asleep EXCEPT ![c] = @ + 1]
  /\ UNCHANGED <<client, total, serverAt, pending, served, received>>

SpawnEnds(c) ==
  /\ client[c] = "create" /\ spawned[c] >= total[c]
  /\ ClientGoes(c, "join")
  /\ UNCHANGED <<total, spawned, asleep, serverAt, pending, served, received>>

\* Mutant of ThreadFails: the thread returns, its client goes on
ThreadReturns(c) ==
  /\ asleep[c] > 0
  /\ asleep' = [asleep EXCEPT ![c] = @ - 1]
  /\ UNCHANGED <<client, total, spawned, serverAt, pending, served, received>>

\* After its sleep a thread's connect() is refused: exit(1), whatever main() and
\* the other threads are doing
ThreadFails(c) ==
  /\ asleep[c] > 0
  /\ Exits(c, "failure")
  /\ UNCHANGED <<total, spawned, serverAt, pending, served, received>>

\* pthread_join returns when a thread has ended but its process has not
Join(c) ==
  /\ client[c] = "join" /\ asleep[c] = 0
  /\ ClientGoes(c, "merge")
  /\ UNCHANGED <<total, spawned, asleep, serverAt, pending, served, received>>

\* received_... is opened to append to; if that fails, fclose(NULL)
Merge(c) ==
  /\ client[c] = "merge"
  /\ \/ ClientGoes(c, "success") /\ received' = received \cup {c}
     \/ ClientGoes(c, "crash") /\ UNCHANGED received
  /\ UNCHANGED <<total, spawned, asleep, serverAt, pending, served>>

-----------------------------------------------------------------------------
(* The server *)

Accept ==
  /\ serverAt = "accept" /\ pending # <<>>
  /\ served' = Head(pending) /\ pending' = Tail(pending)
  /\ serverAt' = "recv"
  /\ UNCHANGED <<client, total, spawned, asleep, received>>

\* Mutant of Receive: nothing received is the end of that client only
ReceiveNext ==
  /\ serverAt = "recv" /\ Ended(served)
  /\ serverAt' = "accept"
  /\ UNCHANGED <<client, total, spawned, asleep, pending, served, received>>

\* recv() returns nothing when the client has ended; then strcat(buffer, NULL)
Receive ==
  /\ serverAt = "recv" /\ Ended(served)
  /\ serverAt' = "crashed" /\ pending' = <<>>
  /\ UNCHANGED <<client, total, spawned, asleep, served, received>>

ClientMain(c) == Connect(c) \/ Divide(c) \/ SpawnThread(c) \/ SpawnEnds(c) \/ Join(c) \/ Merge(c)

DownloadNext == Accept \/ Receive \/ \E c \in Clients : ClientMain(c) \/ ThreadFails(c)

DownloadSpec == DownloadInit /\ [][DownloadNext]_downloadVars

\* Every process and every thread runs, and a sleep ends
FairDownload ==
  /\ DownloadSpec /\ WF_downloadVars(Accept) /\ WF_downloadVars(Receive)
  /\ \A c \in Clients : WF_downloadVars(ClientMain(c)) /\ WF_downloadVars(ThreadFails(c))

-----------------------------------------------------------------------------
(* Properties *)

\* Every variable has its type; no thread outlives its client, and no client merges
\* while one of its threads runs (client.c:69-74, 148-150).
DownloadTypeOK ==
  /\ client \in [Clients -> {"connect", "offset", "create", "join", "merge"} \cup Ends]
  /\ total \in [Clients -> Requests]
  /\ spawned \in [Clients -> Nat] /\ asleep \in [Clients -> Nat]
  /\ serverAt \in {"accept", "recv", "crashed"}
  /\ pending \in Seq(Clients) /\ served \in Clients \cup {NoClient}
  /\ received \subseteq Clients
  /\ \A c \in Clients : asleep[c] <= spawned[c] /\ (Ended(c) \/ client[c] = "merge" => asleep[c] = 0)

\* A download with threads never succeeds, however its threads and main() are
\* scheduled: the received file is there only if no piece was asked for
\* (client.c:69-74, 125-155).
FileNeedsNoThreads ==
  \A c \in Clients : (client[c] = "success" \/ c \in received) => total[c] < 0

\* The server is lost with the first client: the clients that wait behind it are
\* never accepted, and the program ends with it (server.c:115-123).
ServerIsLost == serverAt = "recv" ~> serverAt = "crashed" /\ Ended(served)
=============================================================================
