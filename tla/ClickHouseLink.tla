---------------------------- MODULE ClickHouseLink ----------------------------
(***************************************************************************)
(* ClickHouseClient and the threads that share it.  The storage writer     *)
(* inserts, the HTTP thread queries, both through send_http_request, with  *)
(* one descriptor and one plain bool between them and no lock.  An action  *)
(* is the code between two points where the other thread, or the server,   *)
(* can make a difference.                                                  *)
(*                                                                         *)
(* A socket is numbered in the order it was made; its number is what       *)
(* sock_fd_ holds.  The server and the TCP stack are external: answers     *)
(* come in pieces, connections are closed when they are idle, and reset    *)
(* when something is sent on them after that.                              *)
(***************************************************************************)
EXTENDS Integers, Sequences, FiniteSets

CONSTANTS
  Writers,       \* threads that look at is_connected() before they insert
  Askers,        \* threads that query
  MaxReads,      \* reads of one answer, 100 in the code
  BodyPieces,    \* pieces of a body of stated length
  MaxSockets,    \* descriptors the process may have open for the link
  MaxRequests    \* bound of the model: requests ever made

ASSUME LinkAssumption ==
  /\ Writers \intersect Askers = {}
  /\ {MaxReads, BodyPieces, MaxSockets} \subseteq Nat \ {0} /\ MaxRequests \in Nat

VARIABLES
  main,        \* how far start and stop have come
  sock_fd,     \* sock_fd_
  connected,   \* connected_
  user,        \* each thread: its position in send_http_request, and its locals
  asked,       \* requests made so far
  made,        \* external: sockets made so far
  socket,      \* external: the sockets
  tainted      \* history: no connection up to this one is trusted any more

serverVars == <<made, socket>>
vars == <<main, sock_fd, connected, user, asked, serverVars, tainted>>

User == Writers \union Askers
Socket == 1 .. MaxSockets
NoSocket == 0
NoRequest == 0

\* A request as the server sees it.
Request == [of : 1 .. MaxRequests, by : User]

\* An insert is answered with an empty body, a query with one of a stated
\* length; either with one in chunks, whose end the code does not look for.
Kinds == {"bare", "sized", "chunked"}
Kind(request) == {IF request.by \in Writers THEN "bare" ELSE "sized", "chunked"}
Piece == [of : 1 .. MaxRequests, part : Kinds \union {"body"}]
Answer(r, kind) ==
  [i \in 1 .. IF kind = "sized" THEN 1 + BodyPieces ELSE 1 |->
     [of |-> r, part |-> IF i = 1 THEN kind ELSE "body"]]

Idle == [pc |-> "idle", request |-> NoRequest, line |-> NoSocket, got |-> <<>>, reads |-> 0,
         alone |-> TRUE]
Unmade == [open |-> FALSE, peer |-> "none", out |-> <<>>, in |-> <<>>]
Gone == [Unmade EXCEPT !.peer = "gone"]

Init ==
  /\ main = "new" /\ sock_fd = NoSocket /\ connected = FALSE
  /\ user = [u \in User |-> Idle] /\ asked = 0
  /\ made = 0 /\ socket = [s \in Socket |-> Unmade]
  /\ tainted = 0

UnderWay(u) == user[u].pc # "idle"
At(u, pc) == main # "killed" /\ user[u].pc = pc
Goto(u, pc) == user' = [user EXCEPT ![u].pc = pc]

\* The descriptor is there to be used.
Usable == sock_fd # NoSocket /\ socket[sock_fd].open
-----------------------------------------------------------------------------
(* send_http_request                                                       *)

\* A writer drops its result if is_connected() is false, a query does not ask.
Begin(u) ==
  /\ main = "up" /\ ~UnderWay(u) /\ asked < MaxRequests
  /\ u \in Writers => connected
  /\ asked' = asked + 1
  /\ LET others == {v \in User \ {u} : UnderWay(v)} IN
       user' = [v \in User |->
                  IF v = u THEN [Idle EXCEPT !.pc = "check", !.request = asked + 1,
                                             !.alone = others = {}]
                  ELSE IF v \in others THEN [user[v] EXCEPT !.alone = FALSE]
                  ELSE user[v]]
  /\ UNCHANGED <<main, sock_fd, connected, serverVars, tainted>>

\* connected_ is read here and, if it is false, once more in connect: one step,
\* in which the last reading counts.
Check(u) ==
  /\ At(u, "check")
  /\ Goto(u, IF connected THEN "send" ELSE "connect")
  /\ UNCHANGED <<main, sock_fd, connected, asked, serverVars, tainted>>

MakeSocket(u) ==
  /\ At(u, "connect")
  /\ IF made < MaxSockets
       THEN /\ made' = made + 1 /\ sock_fd' = made + 1
            /\ socket' = [socket EXCEPT ![made + 1] = [Unmade EXCEPT !.open = TRUE, !.peer = "fresh"]]
            /\ Goto(u, "dial")
       ELSE sock_fd' = NoSocket /\ Goto(u, "done") /\ UNCHANGED <<made, socket>>
  /\ UNCHANGED <<main, connected, asked, tainted>>

\* ::connect may succeed on a socket that is not connected yet.
Dial(u) ==
  /\ At(u, "dial")
  /\ \/ /\ Usable /\ socket[sock_fd].peer = "fresh"
        /\ socket' = [socket EXCEPT ![sock_fd].peer = "up"] /\ Goto(u, "mark")
     \/ socket' = socket /\ Goto(u, "undo")
  /\ UNCHANGED <<main, sock_fd, connected, asked, made, tainted>>

Mark(u) ==
  /\ At(u, "mark")
  /\ connected' = TRUE /\ Goto(u, "send")
  /\ UNCHANGED <<main, sock_fd, asked, serverVars, tainted>>

\* Mutant: instead of giving up, connect tries again.
DialAgain(u) ==
  /\ At(u, "undo")
  /\ Goto(u, "dial")
  /\ UNCHANGED <<main, sock_fd, connected, asked, serverVars, tainted>>

\* The socket named by sock_fd_ is closed, whoever made it; one that somebody
\* is reading from lives on until that recv returns.
Undo(u) ==
  /\ At(u, "undo")
  /\ socket' = [s \in Socket |->
                  IF s # sock_fd THEN socket[s]
                  ELSE IF \E v \in User : user[v].pc = "recv" /\ user[v].line = s
                    THEN [socket[s] EXCEPT !.open = FALSE]
                  ELSE Gone]
  /\ Goto(u, "forget")
  /\ UNCHANGED <<main, sock_fd, connected, asked, made, tainted>>

Forget(u) ==
  /\ At(u, "forget")
  /\ sock_fd' = NoSocket /\ Goto(u, "done")
  /\ UNCHANGED <<main, connected, asked, serverVars, tainted>>

\* send takes the request; on a connection the server has closed it is taken
\* too, but comes back as a reset.
Send(u) ==
  /\ At(u, "send")
  /\ Usable
  /\ \/ /\ socket[sock_fd].peer = "up"
        /\ socket' = [socket EXCEPT ![sock_fd].out = Append(@, [of |-> user[u].request, by |-> u])]
     \/ /\ socket[sock_fd].peer = "closed"
        /\ socket' = [socket EXCEPT ![sock_fd].peer = "reset"]
  /\ Goto(u, "read")
  /\ UNCHANGED <<main, sock_fd, connected, asked, made, tainted>>

\* No descriptor, or the first call that learns of a reset.
SendFails(u) ==
  /\ At(u, "send")
  /\ Usable => socket[sock_fd].peer = "reset"
  /\ Goto(u, "fail")
  /\ UNCHANGED <<main, sock_fd, connected, asked, serverVars, tainted>>

\* The end of the process is the end of its threads and sockets.
Dies ==
  /\ main' = "killed"
  /\ user' = [u \in User |-> Idle]
  /\ sock_fd' = NoSocket /\ connected' = FALSE /\ socket' = [s \in Socket |-> Gone]
  /\ UNCHANGED <<asked, made, tainted>>

\* SIGPIPE: the reset is known already, or the socket was never connected.
SendKills(u) ==
  /\ At(u, "send")
  /\ Usable /\ socket[sock_fd].peer \in {"reset", "fresh"}
  /\ Dies

\* The descriptor is not closed.
Disconnected(u) ==
  /\ At(u, "fail")
  /\ connected' = FALSE /\ Goto(u, "done")
  /\ UNCHANGED <<main, sock_fd, asked, serverVars, tainted>>
-----------------------------------------------------------------------------
(* Reading the answer                                                      *)

\* The first header received, and what follows it.
Header(got) == {i \in DOMAIN got : got[i].part # "body" /\ \A j \in 1 .. i - 1 : got[j].part = "body"}
\* Mutant: the loop ends at the header, whatever it says of a body.
HeaderThere(got) == Header(got) # {}
Complete(got) ==
  \E i \in Header(got) :
    \/ got[i].part = "bare"
    \/ got[i].part = "sized" /\ Len(got) >= i + BodyPieces

\* Each recv reads sock_fd_ anew.
EnterRecv(u) ==
  /\ At(u, "read")
  /\ IF Usable /\ socket[sock_fd].peer # "fresh"
       THEN user' = [user EXCEPT ![u].pc = "recv", ![u].line = sock_fd]
       ELSE Goto(u, "done")
  /\ UNCHANGED <<main, sock_fd, connected, asked, serverVars, tainted>>

\* Mutant: the number of reads is not limited.
NeverLast(reads) == FALSE
LastRead(reads) == reads = MaxReads

\* Some of what has come, from one piece to all of it.
Recv(u) ==
  /\ At(u, "recv")
  /\ LET in == socket[user[u].line].in IN
       \E k \in 1 .. Len(in) :
         LET got == user[u].got \o SubSeq(in, 1, k)
             reads == user[u].reads + 1
             over == Complete(got) \/ LastRead(reads)
         IN /\ socket' = [socket EXCEPT ![user[u].line].in = SubSeq(in, k + 1, Len(in))]
            /\ user' = [user EXCEPT ![u].got = got, ![u].reads = reads,
                                    ![u].pc = IF over THEN "done" ELSE "read"]
  /\ UNCHANGED <<main, sock_fd, connected, asked, made, tainted>>

\* n <= 0: the server has closed or reset the connection.
RecvEnds(u) ==
  /\ At(u, "recv")
  /\ LET s == socket[user[u].line] IN s.in = <<>> /\ s.peer \in {"closed", "reset"}
  /\ Goto(u, "done")
  /\ UNCHANGED <<main, sock_fd, connected, asked, serverVars, tainted>>

\* query_sensor_history takes each line after the first header for a row.  The
\* lines between chunks and those of a second header are none, and stoul
\* throws, which nobody catches.  A body may be an error message instead.
Unreadable(got) ==
  \E i \in Header(got) : got[i].part = "chunked" \/ \E j \in i + 1 .. Len(got) : got[j].part # "body"
MayThrow(got) == \E i \in Header(got) : got[i].part = "chunked" \/ i < Len(got)

QueryThrows(u) ==
  /\ At(u, "done") /\ u \in Askers /\ MayThrow(user[u].got)
  /\ Dies

\* The request returns; a writer does not look at what it returns.  What it
\* may have left unread, or read of another's answer, spoils the connections
\* made so far.
Return(u) ==
  /\ At(u, "done") /\ (u \in Askers => ~Unreadable(user[u].got))
  /\ LET cutOff == LastRead(user[u].reads) /\ ~Complete(user[u].got) IN
       tainted' = IF user[u].alone /\ ~cutOff THEN tainted ELSE made
  /\ user' = [user EXCEPT ![u] = Idle]
  /\ UNCHANGED <<main, sock_fd, connected, asked, serverVars>>
-----------------------------------------------------------------------------
(* The server                                                              *)

Reply(s) ==
  /\ main # "killed" /\ socket[s].peer = "up" /\ socket[s].out # <<>>
  /\ \E kind \in Kind(Head(socket[s].out)) :
       socket' = [socket EXCEPT ![s].in = @ \o Answer(Head(socket[s].out).of, kind),
                                ![s].out = Tail(@)]
  /\ UNCHANGED <<main, sock_fd, connected, user, asked, made, tainted>>

\* A connection without requests is closed after a while.
CloseIdle(s) ==
  /\ main # "killed" /\ socket[s].peer = "up" /\ socket[s].out = <<>>
  /\ socket' = [socket EXCEPT ![s].peer = "closed"]
  /\ UNCHANGED <<main, sock_fd, connected, user, asked, made, tainted>>

\* A connection with requests that will not be answered any more is reset.
ServerFails ==
  /\ main # "killed"
  /\ socket' = [s \in Socket |->
                  IF socket[s].peer # "up" THEN socket[s]
                  ELSE [socket[s] EXCEPT !.peer = IF socket[s].out = <<>> THEN "closed" ELSE "reset",
                                         !.out = <<>>]]
  /\ UNCHANGED <<main, sock_fd, connected, user, asked, made, tainted>>
-----------------------------------------------------------------------------
(* FenyunApplication                                                       *)

\* start calls connect before there is any other thread.
Start ==
  /\ main = "new" /\ main' = "up"
  /\ made' = 1
  /\ \/ /\ socket' = [socket EXCEPT ![1] = [Unmade EXCEPT !.open = TRUE, !.peer = "up"]]
        /\ sock_fd' = 1 /\ connected' = TRUE
     \/ /\ socket' = [socket EXCEPT ![1] = Gone]
        /\ UNCHANGED <<sock_fd, connected>>
  /\ UNCHANGED <<user, asked, tainted>>

\* Threads finish the request they are in and make no other.
BeginStop ==
  /\ main = "up" /\ main' = "stopping"
  /\ UNCHANGED <<sock_fd, connected, user, asked, serverVars, tainted>>

\* stop has joined them all when it calls disconnect.
Disconnect ==
  /\ main = "stopping" /\ main' = "stopped"
  /\ \A u \in User : ~UnderWay(u)
  /\ IF connected
       THEN /\ socket' = [s \in Socket |-> IF s = sock_fd THEN Gone
                                                          ELSE socket[s]]
            /\ sock_fd' = NoSocket /\ connected' = FALSE
       ELSE UNCHANGED <<socket, sock_fd, connected>>
  /\ UNCHANGED <<user, asked, made, tainted>>

Finished == main \in {"stopped", "killed"} /\ UNCHANGED vars
-----------------------------------------------------------------------------
UserStep(u) ==
  \/ Check(u) \/ MakeSocket(u) \/ Dial(u) \/ Mark(u) \/ Undo(u) \/ Forget(u)
  \/ Send(u) \/ SendFails(u) \/ SendKills(u) \/ Disconnected(u)
  \/ EnterRecv(u) \/ Recv(u) \/ RecvEnds(u) \/ QueryThrows(u) \/ Return(u)

ServerStep == \E s \in Socket : Reply(s) \/ CloseIdle(s)

Next ==
  \/ \E u \in User : Begin(u) \/ UserStep(u)
  \/ ServerStep
  \/ ServerFails
  \/ Start \/ BeginStop \/ Disconnect
  \/ Finished

Spec == Init /\ [][Next]_vars

\* Threads go on; the server answers what it got and closes what is idle.
Fairness ==
  /\ \A u \in User : WF_vars(UserStep(u))
  /\ WF_vars(ServerStep)

FairSpec == Spec /\ Fairness
-----------------------------------------------------------------------------
\* Type invariant.
TypeOK ==
  /\ main \in {"new", "up", "stopping", "stopped", "killed"}
  /\ sock_fd \in Socket \union {NoSocket}
  /\ connected \in BOOLEAN
  /\ user \in [User -> [pc : {"idle", "check", "connect", "dial", "mark", "undo", "forget", "send",
                              "fail", "read", "recv", "done"},
                        request : 0 .. MaxRequests, line : Socket \union {NoSocket},
                        got : Seq(Piece), reads : 0 .. MaxReads, alone : BOOLEAN]]
  /\ asked \in 0 .. MaxRequests
  /\ made \in 0 .. MaxSockets
  /\ socket \in [Socket -> [open : BOOLEAN, peer : {"none", "fresh", "up", "closed", "reset", "gone"},
                            out : Seq(Request), in : Seq(Piece)]]
  /\ tainted \in 0 .. MaxSockets

\* A request gets nothing but its own answer, on a connection made after the
\* last time that two requests were under way at once or one gave up reading
\* (send_http_request does not mark its requests, and its answers are taken
\* from the line as they come): sharing the client and the limit of reads are
\* the only ways to mix answers up, and a new connection makes it good.
AnswersAreOwn ==
  \A u \in User :
    user[u].alone /\ user[u].line > tainted =>
      \A i \in DOMAIN user[u].got : user[u].got[i].of = user[u].request

\* Every insert and every query comes back, whatever the other thread does to
\* the descriptor under it (or the process is killed, which ends its threads):
\* recv has no timeout, and it is the server that ends it.
EveryRequestReturns ==
  \A u \in User : UnderWay(u) ~> ~UnderWay(u)
=============================================================================
