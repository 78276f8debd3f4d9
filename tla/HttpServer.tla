------------------------------ MODULE HttpServer ------------------------------
(***************************************************************************)
(* FenyunHttpServer and the part of main that starts and stops it: one     *)
(* thread accepts a connection, reads its request in at most MaxReads      *)
(* pieces, answers, closes, and accepts the next.  A request is a number   *)
(* of pieces, some with its header and some with its body, and the header  *)
(* tells of how many of the body the server learns; what a route answers   *)
(* is the concern of the component behind it.                              *)
(*                                                                         *)
(* Closing a listening socket does not wake a thread that sits in accept   *)
(* on Linux, for which docker-compose.yml builds the service: that accept  *)
(* may still take the next connection, and the rest of the backlog is      *)
(* reset when the last user of the socket lets go of it.                   *)
(***************************************************************************)
EXTENDS Integers, Sequences, SequencesExt

CONSTANTS
  Clients,   \* those who connect, one request at a time each
  Requests,  \* records of the pieces of header and of body of a request, and
             \* of how many of the body the header tells after "Content-Length:"
  MaxReads,  \* reads of one request
  Backlog    \* connections the system keeps until accept takes them

Nobody == "nobody"

ASSUME HttpAssumption ==
  /\ Requests \subseteq [head : Nat \ {0}, body : Nat, told : Nat]
  /\ \A r \in Requests : r.told <= r.body
  /\ MaxReads \in Nat \ {0} /\ Backlog \in Nat \ {0}
  /\ Nobody \notin Clients

VARIABLES
  main,      \* main's way through start and stop
  running,   \* running_
  listening, \* server_fd_ is open
  server,    \* accept_thread_: position in accept_loop and handle_client
  client,    \* client_fd: whose connection it serves
  reads,     \* i of the reading loop
  got,       \* pieces of the request received
  backlog,   \* external: connections waiting for accept
  conn,      \* external: each client's connection
  request,   \* external: the request it makes of it
  sent,      \* external: the pieces it has sent
  shut       \* external: it sends no more

mainVars == <<main, running, listening>>
serverVars == <<server, client, reads, got>>
clientVars == <<conn, request, sent, shut>>
vars == <<mainVars, serverVars, backlog, clientVars>>

Size(c) == request[c].head + request[c].body

Init ==
  /\ main = "down" /\ running = FALSE /\ listening = FALSE
  /\ server = "none" /\ client = Nobody /\ reads = 0 /\ got = 0
  /\ backlog = <<>>
  /\ conn = [c \in Clients |-> "away"]
  /\ request \in [Clients -> Requests]
  /\ sent = [c \in Clients |-> 0]
  /\ shut = [c \in Clients |-> FALSE]

-----------------------------------------------------------------------------
(* Clients                                                                 *)

\* Somebody still holds the listening socket: the process, or accept.
SocketLives == listening \/ server = "accept"

Connect(c) ==
  /\ SocketLives /\ Len(backlog) < Backlog
  /\ conn[c] = "away"
  /\ conn' = [conn EXCEPT ![c] = "queued"]
  /\ backlog' = Append(backlog, c)
  /\ \E r \in Requests : request' = [request EXCEPT ![c] = r]
  /\ sent' = [sent EXCEPT ![c] = 0]
  /\ shut' = [shut EXCEPT ![c] = FALSE]
  /\ UNCHANGED <<mainVars, serverVars>>

Connected(c) == conn[c] \in {"queued", "open"}

Send(c) ==
  /\ Connected(c) /\ ~shut[c] /\ sent[c] < Size(c)
  /\ sent' = [sent EXCEPT ![c] = @ + 1]
  /\ UNCHANGED <<mainVars, serverVars, backlog, conn, request, shut>>

Shut(c) ==
  /\ Connected(c) /\ ~shut[c]
  /\ shut' = [shut EXCEPT ![c] = TRUE]
  /\ UNCHANGED <<mainVars, serverVars, backlog, conn, request, sent>>

Leave(c) ==
  /\ conn[c] \in {"answered", "reset"}
  /\ conn' = [conn EXCEPT ![c] = "away"]
  /\ UNCHANGED <<mainVars, serverVars, backlog, request, sent, shut>>

-----------------------------------------------------------------------------
(* accept_loop                                                             *)

AtAccept(pc) ==
  /\ server' = pc
  /\ client' = Nobody /\ reads' = 0 /\ got' = 0

TestRunning ==
  /\ server = "test"
  /\ AtAccept(IF running THEN "call" ELSE "gone")
  /\ UNCHANGED <<mainVars, backlog, clientVars>>

EnterAccept ==
  /\ server = "call"
  /\ AtAccept(IF listening THEN "accept" ELSE "failed")
  /\ UNCHANGED <<mainVars, backlog, clientVars>>

\* A socket that was closed under accept is gone when accept returns: nothing
\* is left waiting, and those who waited are reset.
Left(waiting) == IF listening THEN waiting ELSE <<>>
Reset(waiting) == [c \in Clients |-> IF c \in ToSet(waiting) THEN "reset" ELSE conn[c]]
Released(waiting) == IF listening THEN conn ELSE Reset(waiting)

Accept ==
  /\ server = "accept" /\ backlog # <<>>
  /\ server' = "recv" /\ client' = Head(backlog)
  /\ reads' = 0 /\ got' = 0
  /\ backlog' = Left(Tail(backlog))
  /\ conn' = [Released(Tail(backlog)) EXCEPT ![Head(backlog)] = "open"]
  /\ UNCHANGED <<mainVars, request, sent, shut>>

\* accept returns an error, of the connection or for want of descriptors.
AcceptFails ==
  /\ server = "accept"
  /\ AtAccept("failed")
  /\ backlog' = Left(backlog) /\ conn' = Released(backlog)
  /\ UNCHANGED <<mainVars, request, sent, shut>>

\* Mutant: any error of accept ends the loop.
FailedForGood ==
  /\ server = "failed"
  /\ AtAccept("gone")
  /\ UNCHANGED <<mainVars, backlog, clientVars>>

Failed ==
  /\ server = "failed"
  /\ AtAccept(IF running THEN "test" ELSE "gone")
  /\ UNCHANGED <<mainVars, backlog, clientVars>>

-----------------------------------------------------------------------------
(* handle_client                                                           *)

\* Mutant: the loop runs once more.
OnceMore == reads <= MaxReads
MoreReads == reads < MaxReads

\* Mutant: the header is all there is to wait for.
HeaderComplete(n) == n >= request[client].head

\* The header has come, and of the body what it tells.  One without the very
\* text "Content-Length:" (in other letters, or of a chunked body) tells
\* nothing, and what has come with it by then is all that is read.
Complete(n) == n >= request[client].head + request[client].told

Recv ==
  /\ server = "recv" /\ MoreReads
  /\ \E n \in got + 1 .. sent[client] :
       /\ got' = n
       /\ server' = IF Complete(n) THEN "process" ELSE "recv"
  /\ reads' = reads + 1
  /\ UNCHANGED <<mainVars, client, backlog, clientVars>>

\* recv returns zero, or MaxReads of them are done.
StopReading ==
  /\ server = "recv"
  /\ ~MoreReads \/ (shut[client] /\ got = sent[client])
  /\ server' = "process"
  /\ UNCHANGED <<mainVars, client, reads, got, backlog, clientVars>>

\* Closing a connection with data unread resets it, answer or not.
Close ==
  /\ \E end \in {"answered"} \union (IF sent[client] > got THEN {"reset"} ELSE {}) :
       conn' = [conn EXCEPT ![client] = end]
  /\ AtAccept("test")

RejectBroken ==
  /\ server = "process" /\ got < request[client].head
  /\ Close
  /\ UNCHANGED <<mainVars, backlog, request, sent, shut>>

ProcessRequest ==
  /\ server = "process" /\ got >= request[client].head
  /\ server' = "reply"
  /\ UNCHANGED <<mainVars, client, reads, got, backlog, clientVars>>

Reply ==
  /\ server = "reply"
  /\ Close
  /\ UNCHANGED <<mainVars, backlog, request, sent, shut>>

ServerStep ==
  \/ TestRunning \/ EnterAccept \/ Failed
  \/ Recv \/ StopReading \/ RejectBroken \/ ProcessRequest \/ Reply

-----------------------------------------------------------------------------
(* main: start, and stop when a signal came                                *)

Start ==
  /\ main = "down"
  /\ main' = "serving" /\ running' = TRUE /\ listening' = TRUE
  /\ server' = "test"
  /\ UNCHANGED <<client, reads, got, backlog, clientVars>>

\* socket, bind or listen fails; main ends.
StartFails ==
  /\ main = "down"
  /\ main' = "ended"
  /\ UNCHANGED <<running, listening, serverVars, backlog, clientVars>>

StopServer ==
  /\ main = "serving"
  /\ main' = "closing" /\ running' = FALSE
  /\ UNCHANGED <<listening, serverVars, backlog, clientVars>>

CloseSocket ==
  /\ main = "closing"
  /\ main' = "joining" /\ listening' = FALSE
  /\ IF server = "accept"
       THEN UNCHANGED <<backlog, conn>>
       ELSE backlog' = <<>> /\ conn' = Reset(backlog)
  /\ UNCHANGED <<running, serverVars, request, sent, shut>>

\* Mutant: stop detaches the thread.
JoinNobody ==
  /\ main = "joining"
  /\ main' = "ended"
  /\ UNCHANGED <<running, listening, serverVars, backlog, clientVars>>

JoinServer ==
  /\ main = "joining" /\ server = "gone"
  /\ main' = "ended"
  /\ UNCHANGED <<running, listening, serverVars, backlog, clientVars>>

StopStep == CloseSocket \/ JoinServer

Next ==
  \/ \E c \in Clients : Connect(c) \/ Send(c) \/ Shut(c) \/ Leave(c)
  \/ Accept \/ AcceptFails \/ ServerStep
  \/ Start \/ StartFails \/ StopServer \/ StopStep

Spec == Init /\ [][Next]_vars

\* The threads go on; accept, where it does not fail for ever, takes a waiting
\* connection; a connected client sends its request or stops sending.
FairSpec ==
  /\ Spec
  /\ WF_vars(ServerStep) /\ SF_vars(Accept)
  /\ WF_vars(StopStep)
  /\ \A c \in Clients : WF_vars(Send(c))

-----------------------------------------------------------------------------
TypeOK ==
  /\ main \in {"down", "serving", "closing", "joining", "ended"}
  /\ running \in BOOLEAN /\ listening \in BOOLEAN
  /\ server \in {"none", "test", "call", "accept", "failed", "recv", "process", "reply", "gone"}
  /\ client \in Clients \union {Nobody}
  /\ reads \in 0 .. MaxReads /\ got \in Nat
  /\ backlog \in Seq(Clients) /\ Len(backlog) <= Backlog
  /\ conn \in [Clients -> {"away", "queued", "open", "answered", "reset"}]
  /\ request \in [Clients -> Requests]
  /\ sent \in [Clients -> Nat]
  /\ shut \in [Clients -> BOOLEAN]

\* A request whose header tells the length of its body is handled whole,
\* however its pieces arrive, unless the client sends no more or twenty reads
\* are done.  Of one that tells less, or nothing, handle_client may take a part
\* for the whole while the rest is still on its way, but never less than told.
BodyWhole ==
  server = "reply" =>
    \/ got >= Size(client)
    \/ shut[client] \/ reads = MaxReads
    \/ /\ request[client].told < request[client].body
       /\ got >= request[client].head + request[client].told

\* When FenyunHttpServer::stop has returned, main stops the components and
\* destroys them: the thread is gone, serves nobody and leaves nobody waiting.
NothingAfterStop ==
  main = "ended" =>
    /\ server \in {"none", "gone"}
    /\ \A c \in Clients : ~Connected(c)

\* A connection the service has let in is answered or reset, whatever others
\* send before it and also when the service stops.
EveryRequestAnswered ==
  \A c \in Clients : Connected(c) ~> conn[c] \in {"answered", "reset"}

\* main.cpp: "System started. Press Ctrl+C to stop."
StopReturns == main = "closing" ~> main = "ended"

=============================================================================
