------------------------ MODULE ClickHouseLinkProofs ------------------------
(***************************************************************************)
(* Proofs about ClickHouseLink, for any threads, reads, sockets and        *)
(* requests: types, and that a request gets nothing but its own answer     *)
(* unless two were under way at once or one gave up reading.               *)
(***************************************************************************)
EXTENDS ClickHouseLink, SequenceTheorems, TLAPS

Reading(u) == user[u].pc \in {"read", "recv"}

\* What the locals of a thread are at each position.
Threads ==
  \A u \in User :
    /\ ~UnderWay(u) => user[u] = Idle
    /\ UnderWay(u) => user[u].request # NoRequest
    /\ ~Reading(u) /\ user[u].pc # "done" =>
         user[u].got = <<>> /\ user[u].line = NoSocket /\ user[u].reads = 0
    /\ Reading(u) => user[u].reads < MaxReads
    /\ user[u].pc = "recv" => user[u].line # NoSocket

\* Nothing is on the line.
Clear(s) == socket[s].in = <<>> /\ socket[s].out = <<>>

\* Sockets before and after use.
Sockets ==
  /\ tainted <= made
  /\ main = "new" => made = 0 /\ \A u \in User : ~UnderWay(u)
  /\ \A s \in Socket :
       /\ s > made => ~socket[s].open /\ Clear(s)
       /\ socket[s].out # <<>> => socket[s].peer = "up"

\* One that is alone is the only one.
Solo(u) == UnderWay(u) /\ user[u].alone
Crowded == \E u \in User : UnderWay(u) /\ ~user[u].alone
Alone == \A u, v \in User : Solo(u) /\ UnderWay(v) => u = v

\* Between send and the end of the answer: the request, or what the server has
\* made of it, is on the line, and what was taken from there is the rest of it.
Exchange(own, got, line) ==
  \/ got = <<>> /\ line.in = <<>> /\ line.out \in {<<>>, <<own>>}
  \/ line.out = <<>> /\ \E kind \in Kind(own) : got \o line.in = Answer(own.of, kind)
Own(u) == [of |-> user[u].request, by |-> u]

CutOff(l) == LastRead(l.reads) /\ ~Complete(l.got)
OwnGot(l) == \A i \in DOMAIN l.got : l.got[i].of = l.request

\* A trusted line is clear, but for the exchange that is going on.
Lines ==
  \A s \in Socket : s > tainted =>
    \/ Clear(s)
    \/ \E u \in User : Solo(u) /\ \/ Reading(u) /\ s = sock_fd
                                  \/ user[u].pc = "done" /\ CutOff(user[u])
Exchanges ==
  \A u \in User :
    /\ Solo(u) /\ Reading(u) =>
         /\ Usable /\ socket[sock_fd].peer \in {"up", "closed", "reset"}
         /\ user[u].line = sock_fd \/ (user[u].pc = "read" /\ user[u].line = NoSocket)
         /\ sock_fd > tainted => Exchange(Own(u), user[u].got, socket[sock_fd])
    /\ Solo(u) /\ user[u].pc = "done" /\ user[u].line > tainted => OwnGot(user[u])

IInv == TypeOK /\ Threads /\ Sockets /\ Alone /\ (Crowded \/ (Lines /\ Exchanges))

-----------------------------------------------------------------------------
(* Answers                                                                 *)

LEMMA Records ==
  /\ Idle.pc = "idle" /\ Idle.request = 0 /\ Idle.line = 0 /\ Idle.got = <<>> /\ Idle.reads = 0 /\ Idle.alone
  /\ Unmade.peer = "none" /\ Unmade.out = <<>> /\ Unmade.in = <<>> /\ Unmade.open = FALSE
  /\ Gone.peer = "gone" /\ Gone.out = <<>> /\ Gone.in = <<>> /\ Gone.open = FALSE
BY DEF Idle, Unmade, Gone, NoRequest, NoSocket

LEMMA Numbers ==
  /\ MaxReads \in Nat \ {0} /\ BodyPieces \in Nat \ {0} /\ MaxSockets \in Nat \ {0} /\ MaxRequests \in Nat
  /\ Socket \subseteq Nat /\ NoSocket \notin Socket /\ 1 \in Socket /\ NoSocket = 0 /\ NoRequest = 0
BY LinkAssumption DEF Socket, NoSocket, NoRequest

AnswerLength(kind) == IF kind = "sized" THEN 1 + BodyPieces ELSE 1

LEMMA AnswerIs ==
  ASSUME NEW r \in 1 .. MaxRequests, NEW kind \in Kinds
  PROVE  /\ AnswerLength(kind) \in Nat \ {0}
         /\ Answer(r, kind) \in Seq(Piece) /\ Len(Answer(r, kind)) = AnswerLength(kind)
         /\ Answer(r, kind)[1].part = kind
         /\ \A i \in 1 .. AnswerLength(kind) :
              Answer(r, kind)[i].of = r /\ (i > 1 => Answer(r, kind)[i].part = "body")
<1>1. PICK n \in Nat \ {0} : n = AnswerLength(kind)
  BY Numbers DEF AnswerLength
<1>2. \A i \in 1 .. n : [of |-> r, part |-> IF i = 1 THEN kind ELSE "body"] \in Piece
  BY DEF Piece
<1>3. Answer(r, kind) = [i \in 1 .. n |-> [of |-> r, part |-> IF i = 1 THEN kind ELSE "body"]]
  BY <1>1 DEF Answer, AnswerLength
<1>4. Answer(r, kind) \in [1 .. n -> Piece]
  BY <1>2, <1>3
<1>5. Answer(r, kind) \in Seq(Piece) /\ Len(Answer(r, kind)) = n
  BY <1>1, <1>4
<1>6. \A i \in 1 .. n : Answer(r, kind)[i] = [of |-> r, part |-> IF i = 1 THEN kind ELSE "body"]
  BY <1>3
<1> QED  BY <1>1, <1>5, <1>6

\* What was taken and what is left of an answer: when the code finds its end,
\* nothing is left.
LEMMA CompleteIsAll ==
  ASSUME NEW r \in 1 .. MaxRequests, NEW kind \in Kinds, NEW got \in Seq(Piece), NEW rest \in Seq(Piece),
         got \o rest = Answer(r, kind)
  PROVE  /\ \A i \in DOMAIN got : got[i].of = r
         /\ Complete(got) => rest = <<>>
<1>1. /\ AnswerLength(kind) \in Nat \ {0} /\ Len(got) + Len(rest) = AnswerLength(kind)
      /\ Len(got) \in Nat /\ Len(rest) \in Nat /\ DOMAIN got = 1 .. Len(got)
  BY AnswerIs
<1>2. \A i \in 1 .. Len(got) : got[i] = Answer(r, kind)[i]
  BY <1>1
<1>3. \A i \in DOMAIN got : got[i].of = r
  BY <1>1, <1>2, AnswerIs
<1>4. ASSUME Complete(got) PROVE rest = <<>>
  <2>1. PICK i \in Header(got) :
          \/ got[i].part = "bare"
          \/ got[i].part = "sized" /\ Len(got) >= i + BodyPieces
    BY <1>4 DEF Complete
  <2>2. i \in 1 .. Len(got) /\ got[i].part # "body"
    BY <1>1, <2>1 DEF Header
  <2>3. i = 1
    BY <1>1, <1>2, <2>2, AnswerIs
  <2>4. got[i].part = kind
    <3>1. got[1] = Answer(r, kind)[1] /\ Answer(r, kind)[1].part = kind
      BY <1>2, <2>2, <2>3, AnswerIs
    <3> QED  BY <2>3, <3>1
  <2>5. Len(got) >= AnswerLength(kind)
    BY <2>1, <2>2, <2>3, <2>4, <1>1, Numbers DEF AnswerLength
  <2>6. Len(rest) = 0
    BY <1>1, <2>5
  <2> QED  BY <2>6
<1> QED  BY <1>3, <1>4

-----------------------------------------------------------------------------
(* Types                                                                   *)

Positions == {"idle", "check", "connect", "dial", "mark", "undo", "forget", "send", "fail", "read", "recv", "done"}
Locals == [pc : Positions, request : 0 .. MaxRequests, line : Socket \union {NoSocket},
           got : Seq(Piece), reads : 0 .. MaxReads, alone : BOOLEAN]
Ends == [open : BOOLEAN, peer : {"none", "fresh", "up", "closed", "reset", "gone"},
         out : Seq(Request), in : Seq(Piece)]

LEMMA Made == Idle \in Locals /\ Unmade \in Ends /\ Gone \in Ends
<1>1. Idle \in Locals
  BY Numbers DEF Idle, Locals, Positions, NoRequest
<1>2. Unmade \in Ends
  BY DEF Unmade, Ends
<1>3. Gone \in Ends
  BY <1>2 DEF Gone, Ends
<1> QED  BY <1>1, <1>2, <1>3

Mains == {"new", "up", "stopping", "stopped", "killed"}
Types ==
  /\ main \in Mains
  /\ sock_fd \in Socket \union {NoSocket}
  /\ connected \in BOOLEAN
  /\ user \in [User -> Locals]
  /\ asked \in 0 .. MaxRequests
  /\ made \in 0 .. MaxSockets
  /\ socket \in [Socket -> Ends]
  /\ tainted \in 0 .. MaxSockets
TypesAre == TypeOK <=> Types

LEMMA TypeIs == TypesAre
BY Zenon DEF TypesAre, Types, TypeOK, Locals, Positions, Ends, Mains

LEMMA TypeAfter == TypeOK' <=> Types'
<1>1. TypesAre'
  BY TypeIs, PTL
<1> QED  BY <1>1 DEF TypesAre

LEMMA InitIInv == Init => IInv
<1> SUFFICES ASSUME Init PROVE IInv
  OBVIOUS
<1>1. user \in [User -> Locals] /\ socket \in [Socket -> Ends]
  BY Made DEF Init
<1>2. /\ main = "new" /\ sock_fd = NoSocket /\ connected = FALSE
      /\ asked \in 0 .. MaxRequests /\ made \in 0 .. MaxSockets /\ tainted \in 0 .. MaxSockets
  BY Numbers DEF Init
<1>3. TypeOK
  BY <1>1, <1>2, TypeIs DEF TypesAre, Types, Mains
<1>4. \A u \in User : user[u] = Idle /\ ~UnderWay(u)
  BY Records DEF Init, UnderWay
<1>5. \A s \in Socket : socket[s] = Unmade /\ Clear(s)
  BY Records DEF Init, Clear
<1>6. Threads
  BY <1>4, Records, Numbers DEF Threads, Reading
<1>7. Sockets
  BY <1>4, <1>5, Records, Numbers DEF Sockets, Init, Clear
<1> QED  BY <1>3, <1>4, <1>5, <1>6, <1>7 DEF IInv, Alone, Solo, Lines, Exchanges

-----------------------------------------------------------------------------
\* What one step makes of the locals of a thread, or of one socket.
LEMMA GotoType ==
  ASSUME user \in [User -> Locals], NEW u \in User, NEW pc \in Positions, Goto(u, pc)
  PROVE  user' \in [User -> Locals]
<1>1. [user[u] EXCEPT !.pc = pc] \in Locals
  BY DEF Locals, Positions
<1> QED  BY <1>1 DEF Goto

LEMMA EndType ==
  ASSUME socket \in [Socket -> Ends], NEW s \in Socket
  PROVE  /\ \A peer \in {"none", "fresh", "up", "closed", "reset", "gone"} :
              [socket EXCEPT ![s].peer = peer] \in [Socket -> Ends]
         /\ \A out \in Seq(Request) : [socket EXCEPT ![s].out = out] \in [Socket -> Ends]
         /\ \A in \in Seq(Piece) : [socket EXCEPT ![s].in = in] \in [Socket -> Ends]
<1>1. socket[s] \in Ends
  OBVIOUS
<1>2. ASSUME NEW e \in Ends PROVE [socket EXCEPT ![s] = e] \in [Socket -> Ends]
  OBVIOUS
<1>3. ASSUME NEW peer \in {"none", "fresh", "up", "closed", "reset", "gone"}
      PROVE  [socket[s] EXCEPT !.peer = peer] \in Ends
  BY <1>1 DEF Ends
<1>4. ASSUME NEW out \in Seq(Request) PROVE [socket[s] EXCEPT !.out = out] \in Ends
  BY <1>1 DEF Ends
<1>5. ASSUME NEW in \in Seq(Piece) PROVE [socket[s] EXCEPT !.in = in] \in Ends
  BY <1>1 DEF Ends
<1> QED  BY <1>2, <1>3, <1>4, <1>5

LEMMA UserTypes ==
  ASSUME IInv, Types, Next
  PROVE  user' \in [User -> Locals]
<1>1. user \in [User -> Locals]
  BY DEF Types
<1>2. ASSUME NEW u \in User, Begin(u) PROVE user' \in [User -> Locals]
  <2>6. asked \in 0 .. MaxRequests
    BY DEF Types
  <2>7. asked < MaxRequests
    BY <1>2 DEF Begin
  <2>1. asked + 1 \in 0 .. MaxRequests
    BY <2>6, <2>7, Numbers
  <2>2. /\ [Idle EXCEPT !.pc = "check", !.request = asked + 1, !.alone = TRUE] \in Locals
        /\ [Idle EXCEPT !.pc = "check", !.request = asked + 1, !.alone = FALSE] \in Locals
    BY <2>1, Made DEF Locals, Positions
  <2>3. \A v \in User : [user[v] EXCEPT !.alone = FALSE] \in Locals
    BY <1>1 DEF Locals
  <2>4. PICK others, first :
          /\ first \in {[Idle EXCEPT !.pc = "check", !.request = asked + 1, !.alone = TRUE],
                        [Idle EXCEPT !.pc = "check", !.request = asked + 1, !.alone = FALSE]}
          /\ user' = [v \in User |-> IF v = u THEN first
                                    ELSE IF v \in others THEN [user[v] EXCEPT !.alone = FALSE]
                                    ELSE user[v]]
    <3> DEFINE others == {v \in User \ {u} : UnderWay(v)}
    <3>1. CASE others = {}
      BY <1>2, <3>1 DEF Begin
    <3>2. CASE others # {}
      BY <1>2, <3>2 DEF Begin
    <3> QED  BY <3>1, <3>2
  <2>5. first \in Locals
    BY <2>2, <2>4
  <2> QED  BY <1>1, <2>3, <2>4, <2>5
<1>3. ASSUME NEW u \in User, NEW pc \in Positions, Goto(u, pc) PROVE user' \in [User -> Locals]
  BY <1>1, <1>3, GotoType
<1>4. ASSUME NEW u \in User, EnterRecv(u) PROVE user' \in [User -> Locals]
  <2>1. ASSUME NEW s \in Socket PROVE [user[u] EXCEPT !.pc = "recv", !.line = s] \in Locals
    BY <1>1 DEF Locals, Positions
  <2>2. CASE Usable /\ socket[sock_fd].peer # "fresh"
    <3>1. sock_fd \in Socket
      BY <2>2 DEF Usable, Types
    <3> QED  BY <1>1, <1>4, <2>1, <2>2, <3>1 DEF EnterRecv
  <2>3. CASE ~(Usable /\ socket[sock_fd].peer # "fresh")
    BY <1>3, <1>4, <2>3 DEF EnterRecv, Positions
  <2> QED  BY <2>2, <2>3
<1>5. ASSUME NEW u \in User, Recv(u) PROVE user' \in [User -> Locals]
  <2> DEFINE in == socket[user[u].line].in
  <2>1. user[u].line \in Socket /\ user[u].got \in Seq(Piece) /\ user[u].reads + 1 \in 0 .. MaxReads
    <3>1. user[u].pc = "recv" /\ Reading(u)
      BY <1>5 DEF Recv, At, Reading
    <3>2. user[u].line # NoSocket /\ user[u].reads < MaxReads
      BY <3>1 DEF IInv, Threads
    <3>3. user[u] \in Locals
      BY <1>1
    <3> QED  BY <3>2, <3>3, Numbers DEF Locals
  <2>2. in \in Seq(Piece)
    BY <2>1 DEF Types, Ends
  <2>3. PICK k \in 1 .. Len(in), pc \in {"done", "read"} :
          user' = [user EXCEPT ![u].got = user[u].got \o SubSeq(in, 1, k), ![u].reads = user[u].reads + 1, ![u].pc = pc]
    BY <1>5 DEF Recv
  <2>4. SubSeq(in, 1, k) \in Seq(Piece)
    BY <2>2
  <2>5. user[u].got \o SubSeq(in, 1, k) \in Seq(Piece)
    BY <2>1, <2>4
  <2>6. ASSUME NEW g \in Seq(Piece), NEW n \in 0 .. MaxReads
        PROVE  [user[u] EXCEPT !.got = g, !.reads = n, !.pc = pc] \in Locals
    BY <1>1 DEF Locals, Positions
  <2> HIDE DEF in
  <2>7. user' = [user EXCEPT ![u] = [user[u] EXCEPT !.got = user[u].got \o SubSeq(in, 1, k),
                                                    !.reads = user[u].reads + 1, !.pc = pc]]
    BY <1>1, <2>3 DEF Locals
  <2> QED  BY <1>1, <2>1, <2>5, <2>6, <2>7
<1>6. ASSUME NEW u \in User, Return(u) PROVE user' \in [User -> Locals]
  BY <1>1, <1>6, Made DEF Return
<1>7. ASSUME Dies PROVE user' \in [User -> Locals]
  BY <1>7, Made DEF Dies
<1>8. CASE UNCHANGED user
  BY <1>1, <1>8
<1>9. ASSUME NEW u \in User, UserStep(u) PROVE user' \in [User -> Locals]
  <2>1. CASE EnterRecv(u) \/ Recv(u) \/ Return(u) \/ Dies
    BY <1>4, <1>5, <1>6, <1>7, <2>1
  <2>2. CASE ~(EnterRecv(u) \/ Recv(u) \/ Return(u) \/ Dies)
    <3>1. \E pc \in Positions : Goto(u, pc)
      BY <1>9, <2>2 DEF UserStep, Check, MakeSocket, Dial, Mark, Undo, Forget, Send, SendFails, SendKills,
        Disconnected, RecvEnds, QueryThrows, Positions
    <3> QED  BY <1>3, <3>1
  <2> QED  BY <2>1, <2>2
<1>10. CASE ServerStep \/ ServerFails \/ Start \/ BeginStop \/ Disconnect \/ Finished
  BY <1>8, <1>10 DEF ServerStep, Reply, CloseIdle, ServerFails, Start, BeginStop, Disconnect, Finished, vars
<1> QED  BY <1>2, <1>9, <1>10 DEF Next

LEMMA SocketTypes ==
  ASSUME IInv, Types, Next
  PROVE  socket' \in [Socket -> Ends]
<1>1. socket \in [Socket -> Ends]
  BY DEF Types
<1>2. ASSUME NEW s \in Socket, NEW peer \in {"none", "fresh", "up", "closed", "reset", "gone"},
             socket' = [socket EXCEPT ![s].peer = peer]
      PROVE  socket' \in [Socket -> Ends]
  BY <1>1, <1>2, EndType
<1>3. ASSUME NEW s \in Socket, NEW end \in Ends, socket' = [socket EXCEPT ![s] = end]
      PROVE  socket' \in [Socket -> Ends]
  BY <1>1, <1>3
<1>4. ASSUME NEW u \in User, MakeSocket(u) PROVE socket' \in [Socket -> Ends]
  <2>1. CASE made < MaxSockets
    <3>1. made + 1 \in Socket
      <4>1. made \in 0 .. MaxSockets
        BY DEF Types
      <4> QED  BY <2>1, <4>1, Numbers DEF Socket
    <3>2. [Unmade EXCEPT !.open = TRUE, !.peer = "fresh"] \in Ends
      BY Made DEF Ends
    <3> QED  BY <1>3, <1>4, <2>1, <3>1, <3>2 DEF MakeSocket
  <2>2. CASE ~(made < MaxSockets)
    BY <1>1, <1>4, <2>2 DEF MakeSocket
  <2> QED  BY <2>1, <2>2
<1>5. ASSUME NEW u \in User, Dial(u) PROVE socket' \in [Socket -> Ends]
  <2>1. CASE socket' = socket
    BY <1>1, <2>1
  <2>2. CASE socket' # socket
    BY <1>2, <1>5, <2>2 DEF Dial, Usable, Types
  <2> QED  BY <2>1, <2>2
<1>6. ASSUME NEW u \in User, Undo(u) PROVE socket' \in [Socket -> Ends]
  <2>1. \A s \in Socket : [socket[s] EXCEPT !.open = FALSE] \in Ends
    BY <1>1 DEF Ends
  <2> QED  BY <1>1, <1>6, <2>1, Made DEF Undo
<1>7. ASSUME NEW u \in User, Send(u) PROVE socket' \in [Socket -> Ends]
  <2>1. user[u] \in Locals /\ user[u].request # NoRequest
    <3>1. UnderWay(u)
      BY <1>7 DEF Send, At, UnderWay
    <3> QED  BY <3>1 DEF IInv, Threads, Types
  <2>2. Own(u) \in Request
    BY <2>1, Numbers DEF Own, Request, Locals
  <2>3. sock_fd \in Socket
    BY <1>7 DEF Send, Usable, Types
  <2>4. Append(socket[sock_fd].out, Own(u)) \in Seq(Request)
    BY <1>1, <2>2, <2>3 DEF Ends
  <2>5. \/ socket' = [socket EXCEPT ![sock_fd].out = Append(socket[sock_fd].out, Own(u))]
        \/ socket' = [socket EXCEPT ![sock_fd].peer = "reset"]
    BY <1>7 DEF Send, Own
  <2>6. CASE socket' = [socket EXCEPT ![sock_fd].peer = "reset"]
    BY <1>2, <2>3, <2>6
  <2>7. CASE socket' = [socket EXCEPT ![sock_fd].out = Append(socket[sock_fd].out, Own(u))]
    BY <1>1, <2>3, <2>4, <2>7, EndType
  <2> QED  BY <2>5, <2>6, <2>7
<1>8. ASSUME NEW u \in User, Recv(u) PROVE socket' \in [Socket -> Ends]
  <2> DEFINE in == socket[user[u].line].in
  <2>1. user[u].line \in Socket
    <3>1. user[u].pc = "recv"
      BY <1>8 DEF Recv, At
    <3>2. user[u].line # NoSocket /\ user[u] \in Locals
      BY <3>1 DEF IInv, Threads, Types
    <3> QED  BY <3>2 DEF Locals
  <2>2. in \in Seq(Piece)
    BY <1>1, <2>1 DEF Ends
  <2>3. PICK k \in 1 .. Len(in) : socket' = [socket EXCEPT ![user[u].line].in = SubSeq(in, k + 1, Len(in))]
    BY <1>8 DEF Recv
  <2>4. SubSeq(in, k + 1, Len(in)) \in Seq(Piece)
    BY <2>2
  <2> HIDE DEF in
  <2> QED  BY <1>1, <2>1, <2>3, <2>4, EndType
<1>9. ASSUME Dies PROVE socket' \in [Socket -> Ends]
  BY <1>9, Made DEF Dies
<1>10. ASSUME NEW s \in Socket, Reply(s) PROVE socket' \in [Socket -> Ends]
  <2>1. PICK q : q = Head(socket[s].out)
    OBVIOUS
  <2>2. q \in Request /\ socket[s].in \in Seq(Piece) /\ Tail(socket[s].out) \in Seq(Request) /\ socket[s] \in Ends
    BY <1>1, <1>10, <2>1 DEF Reply, Ends
  <2>3. PICK kind \in Kind(q) : socket' = [socket EXCEPT ![s].in = @ \o Answer(q.of, kind), ![s].out = Tail(@)]
    BY <1>10, <2>1 DEF Reply
  <2>4. q.of \in 1 .. MaxRequests /\ kind \in Kinds
    BY <2>2, <2>3 DEF Request, Kind, Kinds
  <2>5. Answer(q.of, kind) \in Seq(Piece)
    BY <2>4, AnswerIs
  <2>6. socket[s].in \o Answer(q.of, kind) \in Seq(Piece)
    BY <2>2, <2>5
  <2>7. \A in \in Seq(Piece), out \in Seq(Request) : [socket[s] EXCEPT !.in = in, !.out = out] \in Ends
    BY <2>2 DEF Ends
  <2>8. socket' = [socket EXCEPT ![s] = [socket[s] EXCEPT !.in = socket[s].in \o Answer(q.of, kind),
                                                          !.out = Tail(socket[s].out)]]
    BY <1>1, <2>3 DEF Ends
  <2> QED  BY <1>3, <2>2, <2>6, <2>7, <2>8
<1>11. ASSUME ServerFails PROVE socket' \in [Socket -> Ends]
  <2>1. ASSUME NEW s \in Socket, NEW peer \in {"closed", "reset"}
        PROVE  [socket[s] EXCEPT !.peer = peer, !.out = <<>>] \in Ends
    <3>1. socket[s] \in Ends /\ <<>> \in Seq(Request)
      BY <1>1
    <3> QED  BY <3>1 DEF Ends
  <2> QED  BY <1>1, <1>11, <2>1 DEF ServerFails
<1>12. ASSUME Start PROVE socket' \in [Socket -> Ends]
  <2>1. [Unmade EXCEPT !.open = TRUE, !.peer = "up"] \in Ends
    BY Made DEF Ends
  <2> QED  BY <1>3, <1>12, <2>1, Made, Numbers DEF Start
<1>13. ASSUME Disconnect PROVE socket' \in [Socket -> Ends]
  BY <1>1, <1>13, Made DEF Disconnect
<1>14. CASE UNCHANGED socket
  BY <1>1, <1>14
<1>15. ASSUME NEW u \in User, UserStep(u) PROVE socket' \in [Socket -> Ends]
  BY <1>4, <1>5, <1>6, <1>7, <1>8, <1>9, <1>14, <1>15
  DEF UserStep, Check, Mark, Forget, SendFails, SendKills, Disconnected, EnterRecv, RecvEnds, QueryThrows, Return, serverVars
<1>16. ASSUME NEW s \in Socket, CloseIdle(s) PROVE socket' \in [Socket -> Ends]
  BY <1>2, <1>16 DEF CloseIdle
<1>17. ASSUME NEW u \in User, Begin(u) PROVE socket' \in [Socket -> Ends]
  BY <1>14, <1>17 DEF Begin, serverVars
<1>18. CASE BeginStop \/ Finished
  BY <1>14, <1>18 DEF BeginStop, Finished, vars, serverVars
<1> QED  BY <1>10, <1>11, <1>12, <1>13, <1>15, <1>16, <1>17, <1>18 DEF Next, ServerStep

LEMMA OtherTypes ==
  ASSUME IInv, Types, Next
  PROVE  /\ main' \in Mains /\ sock_fd' \in Socket \union {NoSocket} /\ connected' \in BOOLEAN
         /\ asked' \in 0 .. MaxRequests /\ made' \in 0 .. MaxSockets /\ tainted' \in 0 .. MaxSockets
<1>1. /\ main \in Mains /\ sock_fd \in Socket \union {NoSocket}
      /\ asked \in 0 .. MaxRequests /\ made \in 0 .. MaxSockets /\ tainted \in 0 .. MaxSockets
  BY DEF Types
<1>2. main' \in Mains
  <2>1. main' = main \/ main' \in {"up", "stopping", "stopped", "killed"}
    BY DEF Next, Begin, UserStep, ServerStep, Check, MakeSocket, Dial, Mark, Undo, Forget, Send, SendFails,
      SendKills, Dies, Disconnected, EnterRecv, Recv, RecvEnds, QueryThrows, Return, Reply, CloseIdle, ServerFails,
      Start, BeginStop, Disconnect, Finished, vars
  <2> QED  BY <1>1, <2>1 DEF Mains
<1>3. sock_fd' \in Socket \union {NoSocket}
  <2>1. \/ sock_fd' \in {sock_fd, 1, NoSocket}
        \/ sock_fd' = made + 1 /\ made < MaxSockets
    BY DEF Next, Begin, UserStep, ServerStep, Check, MakeSocket, Dial, Mark, Undo, Forget, Send, SendFails,
      SendKills, Dies, Disconnected, EnterRecv, Recv, RecvEnds, QueryThrows, Return, Reply, CloseIdle, ServerFails,
      Start, BeginStop, Disconnect, Finished, vars
  <2> QED  BY <1>1, <2>1, Numbers DEF Socket
<1>4. connected' \in BOOLEAN
  <2>1. connected' = connected \/ connected' = TRUE \/ connected' = FALSE
    BY DEF Next, Begin, UserStep, ServerStep, Check, MakeSocket, Dial, Mark, Undo, Forget, Send, SendFails,
      SendKills, Dies, Disconnected, EnterRecv, Recv, RecvEnds, QueryThrows, Return, Reply, CloseIdle, ServerFails,
      Start, BeginStop, Disconnect, Finished, vars
  <2> QED  BY <2>1, Zenon DEF Types
<1>5. asked' \in 0 .. MaxRequests
  <2>1. ASSUME NEW u \in User, Begin(u) PROVE asked' = asked + 1 /\ asked < MaxRequests
    BY <2>1 DEF Begin
  <2>2. (\E u \in User : Begin(u)) \/ asked' = asked
    BY DEF Next, UserStep, ServerStep, Check, MakeSocket, Dial, Mark, Undo, Forget, Send, SendFails,
      SendKills, Dies, Disconnected, EnterRecv, Recv, RecvEnds, QueryThrows, Return, Reply, CloseIdle, ServerFails,
      Start, BeginStop, Disconnect, Finished, vars
  <2> QED  BY <1>1, <2>1, <2>2, Numbers
<1>6. made' \in 0 .. MaxSockets
  <2>1. ASSUME NEW u \in User, MakeSocket(u)
        PROVE  made' = made \/ (made' = made + 1 /\ made < MaxSockets)
    <3>1. CASE made < MaxSockets
      BY <2>1, <3>1 DEF MakeSocket
    <3>2. CASE ~(made < MaxSockets)
      BY <2>1, <3>2 DEF MakeSocket
    <3> QED  BY <3>1, <3>2
  <2>2. (\E u \in User : MakeSocket(u)) \/ made' \in {made, 1}
    BY DEF Next, Begin, UserStep, ServerStep, Check, Dial, Mark, Undo, Forget, Send, SendFails,
      SendKills, Dies, Disconnected, EnterRecv, Recv, RecvEnds, QueryThrows, Return, Reply, CloseIdle, ServerFails,
      Start, BeginStop, Disconnect, Finished, vars, serverVars
  <2> QED  BY <1>1, <2>1, <2>2, Numbers
<1>7. tainted' \in 0 .. MaxSockets
  <2>1. tainted' \in {tainted, made}
    BY DEF Next, Begin, UserStep, ServerStep, Check, MakeSocket, Dial, Mark, Undo, Forget, Send, SendFails,
      SendKills, Dies, Disconnected, EnterRecv, Recv, RecvEnds, QueryThrows, Return, Reply, CloseIdle, ServerFails,
      Start, BeginStop, Disconnect, Finished, vars
  <2> QED  BY <1>1, <2>1
<1> QED  BY <1>2, <1>3, <1>4, <1>5, <1>6, <1>7

LEMMA TypeKept ==
  ASSUME IInv, Next
  PROVE  Types /\ TypeOK' /\ Types'
<1>1. Types
  BY TypeIs DEF IInv, TypesAre
<1>2. Types'
  BY <1>1, UserTypes, SocketTypes, OtherTypes, Zenon DEF Types
<1> QED  BY <1>1, <1>2, TypeAfter

-----------------------------------------------------------------------------
(* Threads                                                                 *)

\* What Threads says of one.
Fits(l) ==
  /\ l.pc = "idle" => l = Idle
  /\ l.pc # "idle" => l.request # NoRequest
  /\ l.pc \notin {"idle", "read", "recv", "done"} => l.got = <<>> /\ l.line = NoSocket /\ l.reads = 0
  /\ l.pc \in {"read", "recv"} => l.reads < MaxReads
  /\ l.pc = "recv" => l.line # NoSocket

LEMMA ThreadsFit == Threads <=> \A u \in User : Fits(user[u])
BY Records, Numbers DEF Threads, Fits, UnderWay, Reading

\* A step of send_http_request is a step of one thread, or the end of all.
LEMMA Moved ==
  ASSUME IInv, Types, NEW u \in User, UserStep(u), ~Dies
  PROVE  /\ UnderWay(u) /\ \A v \in User \ {u} : user'[v] = user[v]
         /\ Fits(user'[u])
         /\ \/ Return(u) /\ user'[u] = Idle
            \/ /\ user'[u].pc # "idle" /\ user'[u].alone = user[u].alone
               /\ user'[u].request = user[u].request /\ tainted' = tainted
<1>1. user \in [User -> Locals] /\ user[u] \in Locals /\ Fits(user[u])
  BY ThreadsFit DEF IInv, Types
<1>2. ASSUME NEW pc \in Positions, Goto(u, pc), user[u].pc # "idle", pc # "idle", tainted' = tainted,
             user[u].pc \in {"read", "recv"} => pc = "done",
             user[u].pc = "done" => pc = "done",
             pc # "recv", pc = "read" => user[u].reads < MaxReads
      PROVE  /\ UnderWay(u) /\ \A v \in User \ {u} : user'[v] = user[v]
             /\ Fits(user'[u])
             /\ /\ user'[u].pc # "idle" /\ user'[u].alone = user[u].alone
                /\ user'[u].request = user[u].request /\ tainted' = tainted
  BY <1>1, <1>2 DEF Goto, Fits, UnderWay, Locals
<1>3. CASE Check(u) \/ MakeSocket(u) \/ Dial(u) \/ Mark(u) \/ Undo(u) \/ Forget(u) \/ SendFails(u) \/ Disconnected(u)
  <2>1. PICK pc \in Positions : Goto(u, pc) /\ pc \notin {"idle", "read", "recv"}
    BY <1>3 DEF Check, MakeSocket, Dial, Mark, Undo, Forget, SendFails, Disconnected, Positions
  <2>2. user[u].pc \notin {"idle", "read", "recv", "done"} /\ tainted' = tainted
    BY <1>3 DEF Check, MakeSocket, Dial, Mark, Undo, Forget, SendFails, Disconnected, At
  <2> QED  BY <1>2, <2>1, <2>2
<1>4. CASE Send(u)
  <2>1. Goto(u, "read") /\ user[u].pc = "send" /\ tainted' = tainted
    BY <1>4 DEF Send, At
  <2>2. user[u].reads < MaxReads
    BY <1>1, <2>1, Numbers DEF Fits
  <2> QED  BY <1>2, <2>1, <2>2 DEF Positions
<1>5. CASE RecvEnds(u)
  BY <1>2, <1>5 DEF RecvEnds, At, Positions
<1>6. CASE EnterRecv(u)
  <2>1. user[u].pc = "read" /\ tainted' = tainted
    BY <1>6 DEF EnterRecv, At
  <2>2. CASE Usable /\ socket[sock_fd].peer # "fresh"
    <3>1. user' = [user EXCEPT ![u].pc = "recv", ![u].line = sock_fd] /\ sock_fd # NoSocket
      BY <1>6, <2>2 DEF EnterRecv, Usable
    <3> QED  BY <1>1, <2>1, <3>1 DEF Fits, UnderWay, Locals
  <2>3. CASE ~(Usable /\ socket[sock_fd].peer # "fresh")
    BY <1>2, <1>6, <2>1, <2>3 DEF EnterRecv, Positions
  <2> QED  BY <2>2, <2>3
<1>7. CASE Recv(u)
  <2>1. user[u].pc = "recv" /\ tainted' = tainted /\ user[u].line # NoSocket
    BY <1>1, <1>7 DEF Recv, At, Fits
  <2>2. PICK got, over :
          /\ user' = [user EXCEPT ![u].got = got, ![u].reads = user[u].reads + 1,
                                  ![u].pc = IF over THEN "done" ELSE "read"]
          /\ ~over => ~LastRead(user[u].reads + 1)
    BY <1>7 DEF Recv
  <2>3. user[u].reads \in 0 .. MaxReads /\ user[u].reads < MaxReads
    BY <1>1, <2>1 DEF Locals, Fits
  <2>4. ~over => user[u].reads + 1 < MaxReads
    BY <2>2, <2>3, Numbers DEF LastRead
  <2> QED  BY <1>1, <2>1, <2>2, <2>4 DEF Fits, UnderWay, Locals
<1>8. CASE Return(u)
  <2>1. user[u].pc = "done" /\ user' = [user EXCEPT ![u] = Idle]
    BY <1>8 DEF Return, At
  <2>2. user'[u] = Idle /\ \A v \in User \ {u} : user'[v] = user[v]
    BY <1>1, <2>1
  <2> QED  BY <1>8, <2>1, <2>2, Records DEF Fits, UnderWay
<1> QED  BY <1>3, <1>4, <1>5, <1>6, <1>7, <1>8 DEF UserStep, SendKills, QueryThrows

\* A request that begins makes all that are under way, and itself, not alone.
LEMMA Begun ==
  ASSUME IInv, Types, NEW u \in User, Begin(u)
  PROVE  /\ ~UnderWay(u) /\ main = "up" /\ tainted' = tainted /\ socket' = socket
         /\ user'[u].pc = "check" /\ Fits(user'[u])
         /\ user'[u].alone <=> \A v \in User : ~UnderWay(v)
         /\ \A v \in User \ {u} :
              IF UnderWay(v) THEN user'[v] = [user[v] EXCEPT !.alone = FALSE] ELSE user'[v] = user[v]
<1> DEFINE others == {v \in User \ {u} : UnderWay(v)}
           first == [Idle EXCEPT !.pc = "check", !.request = asked + 1, !.alone = others = {}]
<1>1. /\ main = "up" /\ ~UnderWay(u) /\ tainted' = tainted /\ socket' = socket
      /\ user' = [v \in User |-> IF v = u THEN first
                                ELSE IF v \in others THEN [user[v] EXCEPT !.alone = FALSE]
                                ELSE user[v]]
  BY DEF Begin, serverVars
<1>2. user'[u] = first
  BY <1>1
<1>3. \A v \in User \ {u} :
        IF UnderWay(v) THEN user'[v] = [user[v] EXCEPT !.alone = FALSE] ELSE user'[v] = user[v]
  BY <1>1
<1>4. asked + 1 # NoRequest
  <2>1. asked \in 0 .. MaxRequests
    BY DEF Types
  <2> QED  BY <2>1, Numbers
<1>5. /\ first.pc = "check" /\ first.request = asked + 1 /\ first.line = NoSocket /\ first.got = <<>>
      /\ first.reads = 0 /\ (first.alone <=> others = {})
  BY DEF Idle
<1>6. others = {} <=> \A v \in User : ~UnderWay(v)
  BY <1>1
<1> HIDE DEF first, others
<1>7. Fits(user'[u])
  BY <1>2, <1>4, <1>5 DEF Fits
<1> QED  BY <1>1, <1>2, <1>3, <1>5, <1>6, <1>7

LEMMA ThreadsKept ==
  ASSUME IInv, Types, Next
  PROVE  Threads'
<1>1. \A v \in User : Fits(user[v]) /\ user[v] \in Locals
  BY ThreadsFit DEF IInv, Types
<1>2. ASSUME NEW v \in User PROVE Fits(user'[v])
  <2>1. ASSUME NEW u \in User, Begin(u) PROVE Fits(user'[v])
    <3>1. CASE v = u
      BY <2>1, <3>1, Begun
    <3>2. CASE v # u /\ ~UnderWay(v)
      BY <1>1, <2>1, <3>2, Begun
    <3>3. CASE v # u /\ UnderWay(v)
      <4>1. user'[v] = [user[v] EXCEPT !.alone = FALSE]
        BY <2>1, <3>3, Begun
      <4> QED  BY <1>1, <3>3, <4>1 DEF Fits, UnderWay, Locals
    <3> QED  BY <3>1, <3>2, <3>3
  <2>2. CASE Dies
    BY <2>2, Records DEF Dies, Fits
  <2>3. ASSUME NEW u \in User, UserStep(u), ~Dies PROVE Fits(user'[v])
    BY <1>1, <2>3, Moved
  <2>4. CASE UNCHANGED user
    BY <1>1, <2>4
  <2>5. CASE ServerStep \/ ServerFails \/ Start \/ BeginStop \/ Disconnect \/ Finished
    BY <2>4, <2>5 DEF ServerStep, Reply, CloseIdle, ServerFails, Start, BeginStop, Disconnect, Finished, vars
  <2> QED  BY <2>1, <2>2, <2>3, <2>5 DEF Next
<1> QED  BY <1>2, Records, Numbers DEF Threads, Fits, UnderWay, Reading

LEMMA AloneKept ==
  ASSUME IInv, Types, Next
  PROVE  Alone'
<1> SUFFICES ASSUME NEW v \in User, NEW w \in User, Solo(v)', UnderWay(w)' PROVE v = w
  BY DEF Alone
<1>1. /\ user'[v].pc # "idle" /\ user'[v].alone /\ user'[w].pc # "idle"
  BY DEF Solo, UnderWay
<1>2. \A x \in User : user[x] \in Locals
  BY DEF Types
<1>3. ASSUME NEW u \in User, Begin(u) PROVE v = w
  <2>1. CASE v = u
    <3>1. \A x \in User : ~UnderWay(x)
      BY <1>1, <1>3, <2>1, Begun
    <3> QED  BY <1>1, <1>3, <2>1, <3>1, Begun DEF UnderWay
  <2>2. CASE v # u
    <3>1. CASE UnderWay(v)
      <4>1. user'[v] = [user[v] EXCEPT !.alone = FALSE]
        BY <1>3, <2>2, <3>1, Begun
      <4> QED  BY <1>1, <1>2, <4>1 DEF Locals
    <3>2. CASE ~UnderWay(v)
      BY <1>1, <1>3, <2>2, <3>2, Begun DEF UnderWay
    <3> QED  BY <3>1, <3>2
  <2> QED  BY <2>1, <2>2
<1>4. CASE Dies
  BY <1>1, <1>4, Records DEF Dies
<1>5. ASSUME NEW u \in User, UserStep(u), ~Dies PROVE v = w
  <2>1. /\ UnderWay(u) /\ \A x \in User \ {u} : user'[x] = user[x]
        /\ user'[u] = Idle \/ user'[u].alone = user[u].alone
    BY <1>5, Moved
  <2>2. UnderWay(w) /\ UnderWay(v)
    BY <1>1, <2>1 DEF UnderWay
  <2>3. user[v].alone
    <3>1. CASE v = u
      BY <1>1, <2>1, <3>1, Records
    <3>2. CASE v # u
      BY <1>1, <2>1, <3>2
    <3> QED  BY <3>1, <3>2
  <2> QED  BY <2>2, <2>3 DEF IInv, Alone, Solo
<1>6. CASE UNCHANGED user
  BY <1>1, <1>6 DEF IInv, Alone, Solo, UnderWay
<1>7. CASE ServerStep \/ ServerFails \/ Start \/ BeginStop \/ Disconnect \/ Finished
  BY <1>6, <1>7 DEF ServerStep, Reply, CloseIdle, ServerFails, Start, BeginStop, Disconnect, Finished, vars
<1> QED  BY <1>3, <1>4, <1>5, <1>7 DEF Next

-----------------------------------------------------------------------------
(* Sockets                                                                 *)

\* What Sockets says of one.
Sound(e) == e.out # <<>> => e.peer = "up"
Blank(e) == ~e.open /\ e.in = <<>> /\ e.out = <<>>

LEMMA SocketSound ==
  ASSUME IInv, Types, Next
  PROVE  \A s \in Socket : Sound(socket'[s]) /\ (s > made' => Blank(socket'[s]))
<1>1. /\ \A s \in Socket : socket[s] \in Ends /\ Sound(socket[s]) /\ (s > made => Blank(socket[s]))
      /\ made \in 0 .. MaxSockets /\ socket \in [Socket -> Ends]
  BY DEF IInv, Sockets, Sound, Blank, Clear, Types
<1>2. ASSUME made' = made, NEW x \in Socket, NEW e, socket' = [socket EXCEPT ![x] = e],
             Sound(e), x > made => Blank(e)
      PROVE  \A s \in Socket : Sound(socket'[s]) /\ (s > made' => Blank(socket'[s]))
  BY <1>1, <1>2
<1>3. ASSUME made' = made, socket' = socket
      PROVE  \A s \in Socket : Sound(socket'[s]) /\ (s > made' => Blank(socket'[s]))
  BY <1>1, <1>3
<1>4. ASSUME \A s \in Socket : socket'[s] = Gone
      PROVE  \A s \in Socket : Sound(socket'[s]) /\ (s > made' => Blank(socket'[s]))
  BY <1>4, Records DEF Sound, Blank
<1>5. ASSUME NEW u \in User, MakeSocket(u)
      PROVE  \A s \in Socket : Sound(socket'[s]) /\ (s > made' => Blank(socket'[s]))
  <2>1. CASE made < MaxSockets
    <3> DEFINE e == [Unmade EXCEPT !.open = TRUE, !.peer = "fresh"]
    <3>1. made' = made + 1 /\ socket' = [socket EXCEPT ![made + 1] = e]
      BY <1>5, <2>1 DEF MakeSocket
    <3>2. Sound(e)
      BY DEF Sound, Unmade
    <3> HIDE DEF e
    <3>3. \A s \in Socket : s # made + 1 => socket'[s] = socket[s]
      BY <1>1, <3>1
    <3>4. \A s \in Socket : s = made + 1 => socket'[s] = e
      BY <1>1, <3>1
    <3>5. \A s \in Socket : s > made' => s > made /\ s # made + 1
      BY <1>1, <3>1, Numbers
    <3> QED  BY <1>1, <3>2, <3>3, <3>4, <3>5
  <2>2. CASE ~(made < MaxSockets)
    BY <1>3, <1>5, <2>2 DEF MakeSocket
  <2> QED  BY <2>1, <2>2
<1>6. Usable => sock_fd \in Socket /\ sock_fd \in Nat /\ ~(sock_fd > made)
  BY <1>1, Numbers DEF Usable, Types, Blank
<1>7. ASSUME NEW u \in User, Dial(u)
      PROVE  \A s \in Socket : Sound(socket'[s]) /\ (s > made' => Blank(socket'[s]))
  <2>1. made' = made
    BY <1>7 DEF Dial
  <2>2. CASE Usable /\ socket' = [socket EXCEPT ![sock_fd].peer = "up"]
    <3>1. Sound([socket[sock_fd] EXCEPT !.peer = "up"])
      BY <1>1, <1>6, <2>2 DEF Sound, Ends
    <3>2. socket' = [socket EXCEPT ![sock_fd] = [socket[sock_fd] EXCEPT !.peer = "up"]]
      BY <2>2
    <3> QED  BY <1>2, <1>6, <2>1, <2>2, <3>1, <3>2
  <2>3. CASE socket' = socket
    BY <1>3, <2>1, <2>3
  <2> QED  BY <1>7, <2>2, <2>3 DEF Dial
<1>8. ASSUME NEW u \in User, Undo(u)
      PROVE  \A s \in Socket : Sound(socket'[s]) /\ (s > made' => Blank(socket'[s]))
  <2>1. /\ made' = made
        /\ \A s \in Socket : socket'[s] \in {socket[s], [socket[s] EXCEPT !.open = FALSE], Gone}
    BY <1>8 DEF Undo
  <2>2. Sound(Gone) /\ Blank(Gone)
    BY Records DEF Sound, Blank
  <2>3. ASSUME NEW s \in Socket PROVE LET e == [socket[s] EXCEPT !.open = FALSE] IN Sound(e) /\ (s > made => Blank(e))
    BY <1>1 DEF Sound, Blank, Ends
  <2> QED  BY <1>1, <2>1, <2>2, <2>3
<1>9. ASSUME NEW u \in User, Send(u)
      PROVE  \A s \in Socket : Sound(socket'[s]) /\ (s > made' => Blank(socket'[s]))
  <2>1. made' = made /\ Usable
    BY <1>9 DEF Send
  <2>2. CASE /\ socket[sock_fd].peer = "up"
             /\ socket' = [socket EXCEPT ![sock_fd].out = Append(socket[sock_fd].out, Own(u))]
    <3>1. socket' = [socket EXCEPT ![sock_fd] = [socket[sock_fd] EXCEPT !.out = Append(socket[sock_fd].out, Own(u))]]
      BY <2>2
    <3>2. Sound([socket[sock_fd] EXCEPT !.out = Append(socket[sock_fd].out, Own(u))])
      BY <1>1, <1>6, <2>1, <2>2 DEF Sound, Ends
    <3> QED  BY <1>2, <1>6, <2>1, <3>1, <3>2
  <2>3. CASE socket[sock_fd].peer = "closed" /\ socket' = [socket EXCEPT ![sock_fd].peer = "reset"]
    <3>1. socket' = [socket EXCEPT ![sock_fd] = [socket[sock_fd] EXCEPT !.peer = "reset"]]
      BY <2>3
    <3>2. Sound([socket[sock_fd] EXCEPT !.peer = "reset"])
      BY <1>1, <1>6, <2>1, <2>3 DEF Sound, Ends
    <3> QED  BY <1>2, <1>6, <2>1, <3>1, <3>2
  <2> QED  BY <1>9, <2>2, <2>3 DEF Send, Own
<1>10. ASSUME NEW u \in User, Recv(u)
       PROVE  \A s \in Socket : Sound(socket'[s]) /\ (s > made' => Blank(socket'[s]))
  <2>1. user[u].pc = "recv" /\ made' = made
    BY <1>10 DEF Recv, At
  <2>2. user[u].line \in Socket
    BY <2>1 DEF IInv, Threads, Types, Locals
  <2>3. PICK in : /\ socket' = [socket EXCEPT ![user[u].line].in = in]
                  /\ \E k \in 1 .. Len(socket[user[u].line].in) : TRUE
    BY <1>10 DEF Recv
  <2>4. ~(user[u].line > made)
    BY <1>1, <2>2, <2>3, Numbers DEF Blank
  <2>5. socket' = [socket EXCEPT ![user[u].line] = [socket[user[u].line] EXCEPT !.in = in]]
    BY <2>3
  <2>6. Sound([socket[user[u].line] EXCEPT !.in = in])
    BY <1>1, <2>2 DEF Sound, Ends
  <2> QED  BY <1>2, <2>1, <2>2, <2>4, <2>5, <2>6
<1>11. ASSUME Dies
       PROVE  \A s \in Socket : Sound(socket'[s]) /\ (s > made' => Blank(socket'[s]))
  BY <1>4, <1>11 DEF Dies
<1>12. ASSUME NEW x \in Socket, Reply(x)
       PROVE  \A s \in Socket : Sound(socket'[s]) /\ (s > made' => Blank(socket'[s]))
  <2>1. made' = made /\ socket[x].peer = "up" /\ socket[x].out # <<>>
    BY <1>12 DEF Reply
  <2>2. PICK in, out : socket' = [socket EXCEPT ![x].in = in, ![x].out = out]
    BY <1>12 DEF Reply
  <2>3. ~(x > made)
    BY <1>1, <2>1 DEF Blank
  <2>4. socket' = [socket EXCEPT ![x] = [socket[x] EXCEPT !.in = in, !.out = out]]
    BY <1>1, <2>2 DEF Ends
  <2>5. Sound([socket[x] EXCEPT !.in = in, !.out = out])
    BY <1>1, <2>1 DEF Sound, Ends
  <2> QED  BY <1>2, <2>1, <2>3, <2>4, <2>5
<1>13. ASSUME NEW x \in Socket, CloseIdle(x)
       PROVE  \A s \in Socket : Sound(socket'[s]) /\ (s > made' => Blank(socket'[s]))
  <2>1. made' = made /\ socket[x].out = <<>> /\ socket' = [socket EXCEPT ![x] = [socket[x] EXCEPT !.peer = "closed"]]
    BY <1>13 DEF CloseIdle
  <2>2. LET e == [socket[x] EXCEPT !.peer = "closed"] IN Sound(e) /\ (x > made => Blank(e))
    BY <1>1, <2>1 DEF Sound, Blank, Ends
  <2> QED  BY <1>2, <2>1, <2>2
<1>14. ASSUME ServerFails
       PROVE  \A s \in Socket : Sound(socket'[s]) /\ (s > made' => Blank(socket'[s]))
  <2>1. ASSUME NEW s \in Socket, NEW peer
        PROVE  LET e == [socket[s] EXCEPT !.peer = peer, !.out = <<>>] IN Sound(e) /\ (s > made => Blank(e))
    BY <1>1 DEF Sound, Blank, Ends
  <2>2. made' = made /\ \A s \in Socket : \/ socket'[s] = socket[s]
                                          \/ \E peer : socket'[s] = [socket[s] EXCEPT !.peer = peer, !.out = <<>>]
    BY <1>14 DEF ServerFails
  <2>3. ASSUME NEW s \in Socket PROVE Sound(socket'[s]) /\ (s > made => Blank(socket'[s]))
    <3>1. CASE socket'[s] = socket[s]
      BY <1>1, <3>1
    <3>2. CASE socket'[s] # socket[s]
      <4>1. PICK peer : socket'[s] = [socket[s] EXCEPT !.peer = peer, !.out = <<>>]
        BY <2>2, <3>2
      <4> QED  BY <2>1, <4>1
    <3> QED  BY <3>1, <3>2
  <2> QED  BY <2>2, <2>3
<1>15. ASSUME Start
       PROVE  \A s \in Socket : Sound(socket'[s]) /\ (s > made' => Blank(socket'[s]))
  <2>1. PICK e : socket' = [socket EXCEPT ![1] = e] /\ e.out = <<>> /\ made' = 1
    <3>1. [Unmade EXCEPT !.open = TRUE, !.peer = "up"].out = <<>>
      BY DEF Unmade
    <3> QED  BY <1>15, <3>1, Records DEF Start
  <2>2. made = 0
    BY <1>15 DEF Start, IInv, Sockets
  <2>3. \A s \in Socket : s > 1 => s > made /\ s # 1
    BY <2>2, Numbers
  <2>4. \A s \in Socket : IF s = 1 THEN socket'[s] = e ELSE socket'[s] = socket[s]
    BY <1>1, <2>1, Numbers
  <2> QED  BY <1>1, <2>1, <2>3, <2>4, Numbers DEF Sound
<1>16. ASSUME Disconnect
       PROVE  \A s \in Socket : Sound(socket'[s]) /\ (s > made' => Blank(socket'[s]))
  <2>1. made' = made /\ \A s \in Socket : socket'[s] \in {socket[s], Gone}
    BY <1>1, <1>16 DEF Disconnect
  <2>2. Sound(Gone) /\ Blank(Gone)
    BY Records DEF Sound, Blank
  <2> QED  BY <1>1, <2>1, <2>2
<1>17. CASE UNCHANGED <<made, socket>>
  BY <1>3, <1>17
<1>18. ASSUME NEW u \in User, UserStep(u)
       PROVE  \A s \in Socket : Sound(socket'[s]) /\ (s > made' => Blank(socket'[s]))
  <2>1. CASE Check(u) \/ Mark(u) \/ Forget(u) \/ SendFails(u) \/ Disconnected(u) \/ EnterRecv(u) \/ RecvEnds(u) \/ Return(u)
    BY <1>17, <2>1 DEF Check, Mark, Forget, SendFails, Disconnected, EnterRecv, RecvEnds, Return, serverVars
  <2> QED  BY <1>5, <1>7, <1>8, <1>9, <1>10, <1>11, <1>18, <2>1 DEF UserStep, SendKills, QueryThrows
<1>19. CASE (\E u \in User : Begin(u)) \/ BeginStop \/ Finished
  BY <1>17, <1>19 DEF Begin, BeginStop, Finished, vars, serverVars
<1> QED  BY <1>12, <1>13, <1>14, <1>15, <1>16, <1>18, <1>19 DEF Next, ServerStep

LEMMA SocketsKept ==
  ASSUME IInv, Types, Types', Next
  PROVE  Sockets'
<1>1. tainted <= made /\ tainted \in Nat /\ made \in Nat /\ made' \in Nat
  BY Numbers DEF IInv, Sockets, Types
<1>2. tainted' <= made'
  <2>1. tainted' \in {tainted, made}
    BY DEF Next, Begin, UserStep, ServerStep, Check, MakeSocket, Dial, Mark, Undo, Forget, Send, SendFails,
      SendKills, Dies, Disconnected, EnterRecv, Recv, RecvEnds, QueryThrows, Return, Reply, CloseIdle, ServerFails,
      Start, BeginStop, Disconnect, Finished, vars
  <2>2. made <= made'
    <3>1. ASSUME NEW u \in User, MakeSocket(u) PROVE made' \in {made, made + 1}
      <4>1. CASE made < MaxSockets
        BY <3>1, <4>1 DEF MakeSocket
      <4>2. CASE ~(made < MaxSockets)
        BY <3>1, <4>2 DEF MakeSocket
      <4> QED  BY <4>1, <4>2
    <3>2. CASE Start
      BY <3>2 DEF Start, IInv, Sockets
    <3>3. Start \/ (\E u \in User : MakeSocket(u)) \/ made' = made
      BY DEF Next, Begin, UserStep, ServerStep, Check, Dial, Mark, Undo, Forget, Send, SendFails,
        SendKills, Dies, Disconnected, EnterRecv, Recv, RecvEnds, QueryThrows, Return, Reply, CloseIdle, ServerFails,
        BeginStop, Disconnect, Finished, vars, serverVars
    <3> QED  BY <1>1, <3>1, <3>2, <3>3
  <2> QED  BY <1>1, <2>1, <2>2
<1>3. ASSUME main' = "new" PROVE made' = 0 /\ \A u \in User : ~UnderWay(u)'
  <2>1. \/ \E u \in User : Begin(u) \/ UserStep(u)
        \/ ServerStep \/ ServerFails \/ Finished
    BY <1>3 DEF Next, Start, BeginStop, Disconnect
  <2>2. ASSUME NEW u \in User, Begin(u) \/ UserStep(u) PROVE main = "new" /\ ~Dies /\ UserStep(u)
    BY <1>3, <2>2 DEF Begin, UserStep, Dies, Check, MakeSocket, Dial, Mark, Undo, Forget, Send, SendFails,
      SendKills, Disconnected, EnterRecv, Recv, RecvEnds, QueryThrows, Return
  <2>3. ASSUME NEW u \in User, Begin(u) \/ UserStep(u) PROVE FALSE
    <3>1. UnderWay(u)
      BY <2>2, <2>3, Moved
    <3> QED  BY <2>2, <2>3, <3>1 DEF IInv, Sockets
  <2>4. UNCHANGED <<main, made, user>>
    BY <2>1, <2>3 DEF ServerStep, Reply, CloseIdle, ServerFails, Finished, vars, serverVars
  <2> QED  BY <1>3, <2>4 DEF IInv, Sockets, UnderWay
<1>4. \A s \in Socket : Sound(socket'[s]) /\ (s > made' => Blank(socket'[s]))
  BY SocketSound
<1> QED  BY <1>2, <1>3, <1>4 DEF Sockets, Clear, Sound, Blank

-----------------------------------------------------------------------------
(* Lines and exchanges                                                     *)

\* With nobody under way every trusted line is clear.
LEMMA Nobody ==
  ASSUME IInv, \A u \in User : ~UnderWay(u)
  PROVE  \A s \in Socket : s > tainted => Clear(s)
BY DEF IInv, Crowded, Lines, Solo

LEMMA NobodyAfter ==
  ASSUME \A u \in User : user'[u].pc = "idle",
         \A s \in Socket : s > tainted' => socket'[s].in = <<>> /\ socket'[s].out = <<>>
  PROVE  Lines' /\ Exchanges'
BY DEF Lines, Exchanges, Clear, Solo, UnderWay

LEMMA BeginKeeps ==
  ASSUME IInv, Types, NEW u \in User, Begin(u)
  PROVE  Crowded' \/ (Lines' /\ Exchanges')
<1> SUFFICES ASSUME ~Crowded' PROVE Lines' /\ Exchanges'
  OBVIOUS
<1>1. user'[u].pc = "check" /\ tainted' = tainted /\ socket' = socket
  BY Begun
<1>2. user'[u].alone
  BY <1>1 DEF Crowded, UnderWay
<1>3. \A v \in User : ~UnderWay(v)
  BY <1>2, Begun
<1>4. \A v \in User \ {u} : user'[v].pc = "idle"
  BY <1>3, Begun DEF UnderWay
<1>5. \A s \in Socket : s > tainted => Clear(s)
  BY <1>3, Nobody
<1> QED  BY <1>1, <1>4, <1>5 DEF Lines, Exchanges, Clear, Solo, UnderWay, Reading

LEMMA DiesKeeps ==
  ASSUME Dies
  PROVE  Lines' /\ Exchanges'
BY NobodyAfter, Records DEF Dies

LEMMA ReturnKeeps ==
  ASSUME IInv, Types, NEW u \in User, Return(u), UserStep(u), ~Dies
  PROVE  Crowded' \/ (Lines' /\ Exchanges')
<1> SUFFICES ASSUME ~Crowded' PROVE Lines' /\ Exchanges'
  OBVIOUS
<1>1. UnderWay(u) /\ \A v \in User \ {u} : user'[v] = user[v]
  BY Moved
<1>2. user[u].pc = "done" /\ user[u] \in Locals /\ user' = [user EXCEPT ![u] = Idle] /\ socket' = socket /\ made' = made
  BY DEF Return, At, Types, serverVars
<1>3. user'[u].pc = "idle"
  BY <1>2, Records DEF Types
<1>4. \A v \in User : user'[v].pc = "idle"
  <2> SUFFICES ASSUME NEW v \in User, user'[v].pc # "idle" PROVE FALSE
    OBVIOUS
  <2>1. v # u /\ user[v] = user'[v]
    BY <1>1, <1>3
  <2>2. user[v].alone /\ UnderWay(v)
    BY <2>1 DEF Crowded, UnderWay
  <2> QED  BY <1>1, <2>1, <2>2 DEF IInv, Alone, Solo
<1>5. \A s \in Socket : s > made => Clear(s)
  BY DEF IInv, Sockets
<1>6. ASSUME NEW s \in Socket, s > tainted' PROVE Clear(s)
  <2>1. CASE user[u].alone /\ ~CutOff(user[u])
    <3>1. tainted' = tainted
      BY <2>1 DEF Return, CutOff
    <3>2. Solo(u) /\ \A v \in User : UnderWay(v) => v = u
      BY <1>1, <2>1 DEF IInv, Alone, Solo
    <3>3. ~Crowded
      BY <2>1, <3>2 DEF Crowded
    <3>4. \/ Clear(s)
          \/ \E v \in User : Solo(v) /\ (Reading(v) \/ CutOff(user[v]))
      BY <1>6, <3>1, <3>3 DEF IInv, Lines
    <3>5. \A v \in User : Solo(v) => v = u
      BY <3>2 DEF Solo
    <3>6. ~Reading(u)
      BY <1>2 DEF Reading
    <3> QED  BY <2>1, <3>4, <3>5, <3>6
  <2>2. CASE ~(user[u].alone /\ ~CutOff(user[u]))
    <3>1. tainted' = made
      BY <2>2 DEF Return, CutOff
    <3> QED  BY <1>5, <1>6, <3>1
  <2> QED  BY <2>1, <2>2
<1> QED  BY <1>2, <1>4, <1>6, NobodyAfter DEF Clear

\* A thread that is alone, before and after its step.
LEMMA SoloSteps ==
  ASSUME IInv, Types, NEW u \in User, UserStep(u), ~Dies, ~Return(u), ~Crowded'
  PROVE  /\ Solo(u) /\ user'[u].pc # "idle" /\ user'[u].alone /\ user'[u].request = user[u].request
         /\ tainted' = tainted /\ Lines /\ Exchanges
         /\ \A v \in User : v # u => ~UnderWay(v) /\ user'[v].pc = "idle"
<1>1. /\ UnderWay(u) /\ \A v \in User \ {u} : user'[v] = user[v]
      /\ user'[u].pc # "idle" /\ user'[u].alone = user[u].alone
      /\ user'[u].request = user[u].request /\ tainted' = tainted
  BY Moved
<1>2. user'[u].alone
  BY <1>1 DEF Crowded, UnderWay
<1>3. Solo(u)
  BY <1>1, <1>2 DEF Solo
<1>4. \A v \in User : v # u => ~UnderWay(v)
  BY <1>3 DEF IInv, Alone
<1>5. ~Crowded
  BY <1>3, <1>4 DEF Crowded, Solo
<1> QED  BY <1>1, <1>2, <1>3, <1>4, <1>5 DEF IInv, UnderWay

\* What is to be shown of it.
LEMMA SoloAfter ==
  ASSUME NEW u \in User, user'[u].pc # "idle", user'[u].alone,
         \A v \in User : v # u => user'[v].pc = "idle",
         \A s \in Socket : s > tainted' =>
            \/ socket'[s].in = <<>> /\ socket'[s].out = <<>>
            \/ user'[u].pc \in {"read", "recv"} /\ s = sock_fd'
            \/ user'[u].pc = "done" /\ CutOff(user'[u]),
         user'[u].pc \in {"read", "recv"} =>
           /\ sock_fd' # NoSocket /\ socket'[sock_fd'].open /\ socket'[sock_fd'].peer \in {"up", "closed", "reset"}
           /\ user'[u].line = sock_fd' \/ (user'[u].pc = "read" /\ user'[u].line = NoSocket)
           /\ sock_fd' > tainted' => Exchange([of |-> user'[u].request, by |-> u], user'[u].got, socket'[sock_fd']),
         user'[u].pc = "done" /\ user'[u].line > tainted' => OwnGot(user'[u])
  PROVE  Lines' /\ Exchanges'
<1>1. Solo(u)' /\ \A v \in User : Solo(v)' => v = u
  BY DEF Solo, UnderWay
<1>2. Lines'
  BY <1>1 DEF Lines, Clear, Reading
<1>3. Exchanges'
  BY <1>1 DEF Exchanges, Reading, Usable, Own
<1> QED  BY <1>2, <1>3

\* Before a request is sent, and when it is not.
LEMMA BeforeKeeps ==
  ASSUME IInv, Types, NEW u \in User, Solo(u), Lines,
         tainted' = tainted, \A v \in User : v # u => user'[v].pc = "idle" /\ ~UnderWay(v),
         user'[u].pc # "idle", user'[u].alone,
         \/ Check(u) \/ MakeSocket(u) \/ Dial(u) \/ Mark(u) \/ Undo(u) \/ Forget(u) \/ SendFails(u) \/ Disconnected(u)
  PROVE  Lines' /\ Exchanges'
<1>1. PICK pc \in Positions : Goto(u, pc) /\ pc \notin {"idle", "read", "recv"}
  BY DEF Check, MakeSocket, Dial, Mark, Undo, Forget, SendFails, Disconnected, Positions
<1>2. user[u].pc \notin {"idle", "read", "recv", "done"}
  BY DEF Check, MakeSocket, Dial, Mark, Undo, Forget, SendFails, Disconnected, At
<1>3. user[u].line = NoSocket /\ user \in [User -> Locals]
  BY <1>2, ThreadsFit DEF IInv, Fits, Types
<1>4. user'[u].pc = pc /\ user'[u].line = NoSocket
  BY <1>1, <1>3 DEF Goto, Locals
<1>5. \A s \in Socket : s > tainted => Clear(s)
  BY <1>2 DEF Lines, Solo, Reading
<1>6. \A s \in Socket : Clear(s) => socket'[s].in = <<>> /\ socket'[s].out = <<>>
  <2>1. socket \in [Socket -> Ends]
    BY DEF Types
  <2>2. CASE MakeSocket(u)
    <3>1. CASE made < MaxSockets
      <4>1. PICK e : socket' = [socket EXCEPT ![made + 1] = e] /\ e.in = <<>> /\ e.out = <<>>
        <5>1. [Unmade EXCEPT !.open = TRUE, !.peer = "fresh"].in = <<>>
              /\ [Unmade EXCEPT !.open = TRUE, !.peer = "fresh"].out = <<>>
          BY DEF Unmade
        <5> QED  BY <2>2, <3>1, <5>1 DEF MakeSocket
      <4> QED  BY <2>1, <4>1 DEF Clear
    <3>2. CASE ~(made < MaxSockets)
      BY <2>2, <3>2 DEF MakeSocket, Clear
    <3> QED  BY <3>1, <3>2
  <2>3. CASE Dial(u)
    <3>1. CASE Usable /\ socket' = [socket EXCEPT ![sock_fd].peer = "up"]
      <4>1. sock_fd \in Socket /\ socket[sock_fd] \in Ends
        BY <2>1, <3>1 DEF Types, Usable
      <4>2. /\ socket'[sock_fd].in = socket[sock_fd].in /\ socket'[sock_fd].out = socket[sock_fd].out
            /\ \A s \in Socket : s # sock_fd => socket'[s] = socket[s]
        BY <2>1, <3>1, <4>1 DEF Ends
      <4> QED  BY <4>2 DEF Clear
    <3>2. CASE socket' = socket
      BY <3>2 DEF Clear
    <3> QED  BY <2>3, <3>1, <3>2 DEF Dial
  <2>4. CASE Undo(u)
    <3>1. \A s \in Socket : socket'[s] \in {socket[s], [socket[s] EXCEPT !.open = FALSE], Gone}
      BY <2>4 DEF Undo
    <3> QED  BY <2>1, <3>1, Records DEF Clear, Ends
  <2>5. CASE socket' = socket
    BY <2>5 DEF Clear
  <2> QED  BY <2>2, <2>3, <2>4, <2>5 DEF Check, Mark, Forget, SendFails, Disconnected, serverVars
<1>7. \A s \in Socket : s > tainted' => socket'[s].in = <<>> /\ socket'[s].out = <<>>
  BY <1>5, <1>6
<1>8. user'[u].pc \notin {"read", "recv"}
  BY <1>1, <1>4
<1>9. ~(user'[u].line > tainted')
  BY <1>4, Numbers DEF Types
<1> QED  BY <1>7, <1>8, <1>9, SoloAfter

LEMMA SendKeeps ==
  ASSUME IInv, Types, NEW u \in User, Solo(u), Lines,
         tainted' = tainted, \A v \in User : v # u => user'[v].pc = "idle" /\ ~UnderWay(v),
         user'[u].pc # "idle", user'[u].alone, Send(u)
  PROVE  Lines' /\ Exchanges'
<1>1. user[u].pc = "send" /\ Goto(u, "read") /\ Usable /\ sock_fd' = sock_fd
  BY DEF Send, At
<1>2. user[u].line = NoSocket /\ user[u].got = <<>> /\ user \in [User -> Locals]
  BY <1>1, ThreadsFit DEF IInv, Fits, Types
<1>3. user'[u].pc = "read" /\ user'[u].line = NoSocket /\ user'[u].got = <<>> /\ user'[u].request = user[u].request
  BY <1>1, <1>2 DEF Goto, Locals
<1>4. \A s \in Socket : s > tainted => Clear(s)
  BY <1>1 DEF Lines, Solo, Reading
<1>5. sock_fd \in Socket /\ socket[sock_fd].open /\ socket[sock_fd] \in Ends /\ socket \in [Socket -> Ends]
  BY <1>1 DEF Usable, Types
<1>6. PICK e : /\ socket' = [socket EXCEPT ![sock_fd] = e]
               /\ e.open /\ e.peer \in {"up", "closed", "reset"} /\ e.in = socket[sock_fd].in
               /\ e.out = socket[sock_fd].out \/ e.out = Append(socket[sock_fd].out, Own(u))
  <2>1. CASE /\ socket[sock_fd].peer = "up"
             /\ socket' = [socket EXCEPT ![sock_fd].out = Append(socket[sock_fd].out, Own(u))]
    <3> WITNESS [socket[sock_fd] EXCEPT !.out = Append(socket[sock_fd].out, Own(u))]
    <3> QED  BY <1>5, <2>1 DEF Ends
  <2>2. CASE socket[sock_fd].peer = "closed" /\ socket' = [socket EXCEPT ![sock_fd].peer = "reset"]
    <3> WITNESS [socket[sock_fd] EXCEPT !.peer = "reset"]
    <3> QED  BY <1>5, <2>2 DEF Ends
  <2> QED  BY <2>1, <2>2 DEF Send, Own
<1>7. /\ socket'[sock_fd] = e
      /\ \A s \in Socket : s # sock_fd => socket'[s] = socket[s]
  BY <1>5, <1>6
<1>8. \A s \in Socket : s > tainted' => (socket'[s].in = <<>> /\ socket'[s].out = <<>>) \/ s = sock_fd'
  BY <1>1, <1>4, <1>7 DEF Clear
<1>9. sock_fd' # NoSocket /\ socket'[sock_fd'].open /\ socket'[sock_fd'].peer \in {"up", "closed", "reset"}
  BY <1>1, <1>6, <1>7 DEF Usable
<1>10. ASSUME sock_fd' > tainted'
       PROVE  Exchange([of |-> user'[u].request, by |-> u], user'[u].got, socket'[sock_fd'])
  <2>1. socket[sock_fd].in = <<>> /\ socket[sock_fd].out = <<>>
    BY <1>1, <1>4, <1>5, <1>10 DEF Clear
  <2>2. e.in = <<>> /\ (e.out = <<>> \/ e.out = <<Own(u)>>)
    BY <1>6, <2>1
  <2>3. Own(u) = [of |-> user'[u].request, by |-> u]
    BY <1>3 DEF Own
  <2> QED  BY <1>1, <1>3, <1>7, <2>2, <2>3 DEF Exchange
<1> QED  BY <1>1, <1>3, <1>8, <1>9, <1>10, SoloAfter

\* What the reading thread has: its line, and a part of its answer.
LEMMA Has ==
  ASSUME IInv, Types, NEW u \in User, Solo(u), Reading(u), Exchanges
  PROVE  /\ sock_fd \in Socket /\ socket[sock_fd] \in Ends /\ user[u] \in Locals
         /\ user[u].got \in Seq(Piece) /\ Own(u).of = user[u].request /\ user[u].request \in 1 .. MaxRequests
         /\ sock_fd # NoSocket /\ socket[sock_fd].open /\ socket[sock_fd].peer \in {"up", "closed", "reset"}
         /\ user[u].line = sock_fd \/ (user[u].pc = "read" /\ user[u].line = NoSocket)
         /\ sock_fd > tainted => Exchange(Own(u), user[u].got, socket[sock_fd])
<1>1. user[u] \in Locals /\ UnderWay(u)
  BY DEF Types, Solo
<1>2. user[u].got \in Seq(Piece) /\ user[u].request \in 0 .. MaxRequests /\ user[u].request # NoRequest
  BY <1>1 DEF Locals, IInv, Threads
<1>3. Own(u).of = user[u].request /\ user[u].request \in 1 .. MaxRequests
  BY <1>2, Numbers DEF Own
<1>4. Usable /\ sock_fd \in Socket /\ socket[sock_fd] \in Ends
  BY DEF Exchanges, Usable, Types
<1> QED  BY <1>1, <1>2, <1>3, <1>4 DEF Exchanges, Usable

LEMMA KindsKnown == \A own : Kind(own) \subseteq Kinds
BY DEF Kind, Kinds

\* What was taken in an exchange is the thread's own.
LEMMA TakenIsOwn ==
  ASSUME NEW u \in User, user[u].request \in 1 .. MaxRequests, NEW got \in Seq(Piece), NEW e \in Ends,
         Exchange(Own(u), got, e)
  PROVE  /\ \A i \in DOMAIN got : got[i].of = user[u].request
         /\ Complete(got) => e.in = <<>>
         /\ got # <<>> => e.out = <<>>
<1>1. e.in \in Seq(Piece) /\ Own(u).of = user[u].request
  BY DEF Ends, Own
<1>2. CASE got = <<>> /\ e.in = <<>>
  BY <1>2
<1>3. CASE ~(got = <<>> /\ e.in = <<>>)
  <2>1. PICK kind \in Kind(Own(u)) : got \o e.in = Answer(user[u].request, kind) /\ e.out = <<>>
    BY <1>1, <1>3 DEF Exchange
  <2>2. kind \in Kinds
    BY <2>1, KindsKnown
  <2>3. PICK r \in 1 .. MaxRequests, rest \in Seq(Piece) : r = user[u].request /\ rest = e.in
    BY <1>1
  <2>4. got \o rest = Answer(r, kind)
    BY <2>1, <2>3
  <2>5. (\A i \in DOMAIN got : got[i].of = r) /\ (Complete(got) => rest = <<>>)
    <3>1. /\ r \in 1 .. MaxRequests /\ kind \in Kinds /\ got \in Seq(Piece) /\ rest \in Seq(Piece)
          /\ got \o rest = Answer(r, kind)
      BY <2>2, <2>4
    <3> QED  BY ONLY <3>1, CompleteIsAll
  <2> QED  BY <2>1, <2>3, <2>5
<1> QED  BY <1>2, <1>3

LEMMA Joined ==
  ASSUME NEW g \in Seq(Piece), NEW a \in Seq(Piece), NEW b \in Seq(Piece)
  PROVE  (g \o a) \o b = g \o (a \o b)
OBVIOUS

\* A read takes the beginning of what is there.
LEMMA Parts ==
  ASSUME NEW q \in Seq(Piece), NEW k \in 1 .. Len(q), NEW g \in Seq(Piece)
  PROVE  /\ SubSeq(q, 1, k) \in Seq(Piece) /\ SubSeq(q, k + 1, Len(q)) \in Seq(Piece)
         /\ (g \o SubSeq(q, 1, k)) \in Seq(Piece) /\ (g \o SubSeq(q, 1, k)) # <<>>
         /\ (g \o SubSeq(q, 1, k)) \o SubSeq(q, k + 1, Len(q)) = g \o q
<1>1. /\ Len(q) \in Nat /\ k \in Nat /\ 1 <= k /\ k <= Len(q) /\ 1 \in 1 .. Len(q)
      /\ SubSeq(q, 1, k) \in Seq(Piece) /\ Len(SubSeq(q, 1, k)) = k
      /\ SubSeq(q, k + 1, Len(q)) \in Seq(Piece)
  OBVIOUS
<1>2. /\ (g \o SubSeq(q, 1, k)) \in Seq(Piece) /\ Len(g \o SubSeq(q, 1, k)) = Len(g) + k /\ Len(g) \in Nat
  BY <1>1, ConcatProperties
<1>3. Len(g \o SubSeq(q, 1, k)) # 0
  BY <1>1, <1>2
<1>4. SubSeq(q, 1, k) \o SubSeq(q, k + 1, Len(q)) = q
  <2>1. CASE k = Len(q)
    <3>1. SubSeq(q, k + 1, Len(q)) = <<>>
      BY <1>1, <2>1
    <3>2. SubSeq(q, 1, k) = q
      BY <2>1, SubSeqFull
    <3> QED  BY <3>1, <3>2, ConcatEmptySeq
  <2>2. CASE k < Len(q)
    <3>1. 1 \in 1 .. k + 1 /\ k \in 1 - 1 .. Len(q) /\ Len(q) \in k .. Len(q)
      BY <1>1, <2>2
    <3>2. SubSeq(q, 1, k) \o SubSeq(q, k + 1, Len(q)) = SubSeq(q, 1, Len(q))
      BY <1>1, <3>1, ConcatAdjacentSubSeq
    <3> QED  BY <3>2, SubSeqFull
  <2> QED  BY <1>1, <2>1, <2>2
<1>5. (g \o SubSeq(q, 1, k)) \o SubSeq(q, k + 1, Len(q)) = g \o (SubSeq(q, 1, k) \o SubSeq(q, k + 1, Len(q)))
  BY <1>1, Joined
<1>6. ASSUME (g \o SubSeq(q, 1, k)) = <<>> PROVE FALSE
  BY <1>3, <1>6
<1> QED  BY <1>1, <1>2, <1>4, <1>5, <1>6

LEMMA EnterKeeps ==
  ASSUME IInv, Types, NEW u \in User, Solo(u), Lines, Exchanges,
         tainted' = tainted, \A v \in User : v # u => user'[v].pc = "idle" /\ ~UnderWay(v),
         user'[u].pc # "idle", user'[u].alone, EnterRecv(u)
  PROVE  Lines' /\ Exchanges'
<1>1. user[u].pc = "read" /\ Reading(u) /\ sock_fd' = sock_fd /\ socket' = socket
  BY DEF EnterRecv, At, Reading, serverVars
<1>2. Usable /\ socket[sock_fd].peer # "fresh"
  BY <1>1 DEF Exchanges
<1>3. user' = [user EXCEPT ![u].pc = "recv", ![u].line = sock_fd]
  BY <1>2 DEF EnterRecv
<1>4. /\ user'[u].pc = "recv" /\ user'[u].line = sock_fd /\ user'[u].got = user[u].got
      /\ user'[u].request = user[u].request
  BY <1>3, <1>1, Has DEF Types, Locals
<1>5. \A s \in Socket : s > tainted => Clear(s) \/ s = sock_fd
  BY <1>1 DEF Lines, Solo
<1>6. \A s \in Socket : s > tainted' => (socket'[s].in = <<>> /\ socket'[s].out = <<>>) \/ s = sock_fd'
  BY <1>1, <1>5 DEF Clear
<1>7. Own(u) = [of |-> user'[u].request, by |-> u]
  BY <1>4 DEF Own
<1>8. /\ sock_fd' # NoSocket /\ socket'[sock_fd'].open /\ socket'[sock_fd'].peer \in {"up", "closed", "reset"}
      /\ user'[u].line = sock_fd'
      /\ sock_fd' > tainted' => Exchange([of |-> user'[u].request, by |-> u], user'[u].got, socket'[sock_fd'])
  BY <1>1, <1>4, <1>7, Has
<1>9. ASSUME NEW s \in Socket, s > tainted'
      PROVE  \/ socket'[s].in = <<>> /\ socket'[s].out = <<>>
             \/ user'[u].pc \in {"read", "recv"} /\ s = sock_fd'
             \/ user'[u].pc = "done" /\ CutOff(user'[u])
  BY <1>4, <1>6, <1>9
<1>10. user'[u].pc # "done" /\ \A v \in User : v # u => user'[v].pc = "idle"
  BY <1>4
<1> QED  BY <1>4, <1>8, <1>9, <1>10, SoloAfter

LEMMA RecvKeeps ==
  ASSUME IInv, Types, NEW u \in User, Solo(u), Lines, Exchanges,
         tainted' = tainted, \A v \in User : v # u => user'[v].pc = "idle" /\ ~UnderWay(v),
         user'[u].pc # "idle", user'[u].alone, Recv(u)
  PROVE  Lines' /\ Exchanges'
<1> DEFINE in == socket[sock_fd].in
<1>1. user[u].pc = "recv" /\ Reading(u) /\ sock_fd' = sock_fd
  BY DEF Recv, At, Reading
<1>2. user[u].line = sock_fd /\ sock_fd \in Socket /\ in \in Seq(Piece) /\ user[u].got \in Seq(Piece)
  BY <1>1, Has DEF Ends
<1>3. PICK k, got, pc :
        /\ k \in 1 .. Len(in)
        /\ got = user[u].got \o SubSeq(in, 1, k)
        /\ pc = IF Complete(got) \/ LastRead(user[u].reads + 1) THEN "done" ELSE "read"
        /\ socket' = [socket EXCEPT ![sock_fd].in = SubSeq(in, k + 1, Len(in))]
        /\ user' = [user EXCEPT ![u].got = got, ![u].reads = user[u].reads + 1, ![u].pc = pc]
  <2>1. PICK k \in 1 .. Len(in) :
          /\ socket' = [socket EXCEPT ![sock_fd].in = SubSeq(in, k + 1, Len(in))]
          /\ user' = [user EXCEPT ![u].got = user[u].got \o SubSeq(in, 1, k), ![u].reads = user[u].reads + 1,
                                  ![u].pc = IF Complete(user[u].got \o SubSeq(in, 1, k)) \/ LastRead(user[u].reads + 1)
                                              THEN "done" ELSE "read"]
    BY <1>2 DEF Recv
  <2> QED  BY <2>1
<1>4. SubSeq(in, k + 1, Len(in)) \in Seq(Piece) /\ in # <<>>
  <2>0. k \in 1 .. Len(in)
    BY <1>3
  <2>1. in # <<>>
    BY <1>2, <2>0
  <2> QED  BY <1>2, <2>0, <2>1, Parts
<1>5. got \in Seq(Piece) /\ got # <<>> /\ got \o SubSeq(in, k + 1, Len(in)) = user[u].got \o in
  <2>1. PICK q \in Seq(Piece), g \in Seq(Piece) : q = in /\ g = user[u].got
    BY <1>2
  <2>2. k \in 1 .. Len(q)
    BY <1>3, <2>1
  <2>3. /\ (g \o SubSeq(q, 1, k)) \in Seq(Piece) /\ (g \o SubSeq(q, 1, k)) # <<>>
        /\ (g \o SubSeq(q, 1, k)) \o SubSeq(q, k + 1, Len(q)) = g \o q
    BY <2>2, Parts
  <2> HIDE DEF in
  <2>4. got = g \o SubSeq(q, 1, k)
    BY <1>3, <2>1
  <2> QED  BY <2>1, <2>3, <2>4
<1> HIDE DEF in
<1>6. /\ user'[u].pc = pc /\ pc \in {"done", "read"}
      /\ user'[u].line = sock_fd /\ user'[u].got = got /\ user'[u].reads = user[u].reads + 1
      /\ user'[u].request = user[u].request
  <2>1. user \in [User -> Locals] /\ user[u] \in Locals
    BY DEF Types
  <2>2. user'[u] = [user[u] EXCEPT !.got = got, !.reads = user[u].reads + 1, !.pc = pc]
    BY <1>3, <2>1
  <2>3. pc \in {"done", "read"}
    BY <1>3
  <2> QED  BY <1>2, <2>1, <2>2, <2>3 DEF Locals
<1>7. PICK e \in Ends : /\ socket' = [socket EXCEPT ![sock_fd] = e]
                        /\ e.in = SubSeq(in, k + 1, Len(in)) /\ e.out = socket[sock_fd].out
                        /\ e.peer = socket[sock_fd].peer /\ e.open = socket[sock_fd].open
  <2>1. [socket[sock_fd] EXCEPT !.in = SubSeq(in, k + 1, Len(in))] \in Ends
    BY <1>1, <1>4, Has DEF Ends
  <2> WITNESS [socket[sock_fd] EXCEPT !.in = SubSeq(in, k + 1, Len(in))] \in Ends
  <2> QED  BY <1>1, <1>3, Has DEF Ends
<1>8. socket'[sock_fd] = e /\ \A s \in Socket : s # sock_fd => socket'[s] = socket[s]
  BY <1>2, <1>7 DEF Types
<1>9. sock_fd > tainted => Exchange(Own(u), got, e)
  <2> SUFFICES ASSUME sock_fd > tainted PROVE Exchange(Own(u), got, e)
    OBVIOUS
  <2>1. PICK kind \in Kind(Own(u)) : /\ user[u].got \o in = Answer(Own(u).of, kind)
                                     /\ socket[sock_fd].out = <<>>
    BY <1>1, <1>4, Has DEF Exchange, in
  <2> QED  BY <1>5, <1>7, <2>1 DEF Exchange
<1>10. sock_fd > tainted => /\ \A i \in DOMAIN got : got[i].of = user[u].request
                            /\ Complete(got) => e.in = <<>>
                            /\ e.out = <<>>
  BY <1>1, <1>5, <1>7, <1>9, Has, TakenIsOwn
<1>11. \A s \in Socket : s > tainted => Clear(s) \/ s = sock_fd
  BY <1>1 DEF Lines, Solo
<1>12. sock_fd > tainted /\ pc = "done" => (e.in = <<>> /\ e.out = <<>>) \/ CutOff(user'[u])
  BY <1>3, <1>6, <1>10 DEF CutOff
<1>13. ASSUME NEW s \in Socket, s > tainted'
       PROVE  \/ socket'[s].in = <<>> /\ socket'[s].out = <<>>
              \/ user'[u].pc \in {"read", "recv"} /\ s = sock_fd'
              \/ user'[u].pc = "done" /\ CutOff(user'[u])
  <2>1. CASE s = sock_fd
    BY <1>1, <1>6, <1>8, <1>12, <1>13, <2>1
  <2>2. CASE s # sock_fd
    BY <1>8, <1>11, <1>13, <2>2 DEF Clear
  <2> QED  BY <2>1, <2>2
<1>14. user'[u].pc = "done" /\ user'[u].line > tainted' => OwnGot(user'[u])
  BY <1>6, <1>10 DEF OwnGot
<1>15. Own(u) = [of |-> user'[u].request, by |-> u]
  BY <1>6 DEF Own
<1>16. /\ sock_fd' # NoSocket /\ socket'[sock_fd'].open /\ socket'[sock_fd'].peer \in {"up", "closed", "reset"}
       /\ user'[u].line = sock_fd'
       /\ sock_fd' > tainted' => Exchange([of |-> user'[u].request, by |-> u], user'[u].got, socket'[sock_fd'])
  BY <1>1, <1>6, <1>7, <1>8, <1>9, <1>15, Has
<1>17. user'[u].pc \in {"read", "recv"} =>
         /\ sock_fd' # NoSocket /\ socket'[sock_fd'].open /\ socket'[sock_fd'].peer \in {"up", "closed", "reset"}
         /\ user'[u].line = sock_fd' \/ (user'[u].pc = "read" /\ user'[u].line = NoSocket)
         /\ sock_fd' > tainted' => Exchange([of |-> user'[u].request, by |-> u], user'[u].got, socket'[sock_fd'])
  BY <1>16
<1>18. \A v \in User : v # u => user'[v].pc = "idle"
  OBVIOUS
<1> QED  BY <1>13, <1>14, <1>17, <1>18, SoloAfter

LEMMA EndKeeps ==
  ASSUME IInv, Types, NEW u \in User, Solo(u), Lines, Exchanges,
         tainted' = tainted, \A v \in User : v # u => user'[v].pc = "idle" /\ ~UnderWay(v),
         user'[u].pc # "idle", user'[u].alone, RecvEnds(u)
  PROVE  Lines' /\ Exchanges'
<1>1. user[u].pc = "recv" /\ Reading(u) /\ Goto(u, "done") /\ socket' = socket
  BY DEF RecvEnds, At, Reading, serverVars
<1>2. user[u].line = sock_fd
  BY <1>1, Has
<1>3. /\ user'[u].pc = "done" /\ user'[u].line = sock_fd /\ user'[u].got = user[u].got
      /\ user'[u].request = user[u].request
  BY <1>1, <1>2, Has DEF Goto, Types, Locals
<1>4. socket[sock_fd].in = <<>> /\ socket[sock_fd].peer \in {"closed", "reset"}
  BY <1>2 DEF RecvEnds
<1>5. socket[sock_fd].out = <<>>
  BY <1>1, <1>4, Has DEF IInv, Sockets
<1>6. \A s \in Socket : s > tainted => Clear(s) \/ s = sock_fd
  BY <1>1 DEF Lines, Solo
<1>7. \A s \in Socket : s > tainted' => socket'[s].in = <<>> /\ socket'[s].out = <<>>
  BY <1>1, <1>4, <1>5, <1>6 DEF Clear
<1>8. sock_fd > tainted => \A i \in DOMAIN user[u].got : user[u].got[i].of = user[u].request
  BY <1>1, Has, TakenIsOwn
<1>9. user'[u].line > tainted' => OwnGot(user'[u])
  BY <1>3, <1>8 DEF OwnGot
<1> QED  BY <1>3, <1>7, <1>9, SoloAfter

\* What the server and the network do to a connection.
PeerStep(e, f) ==
  /\ f.open = e.open
  /\ f.peer = e.peer \/ f.peer \in {"closed", "reset"}
  /\ \/ f.in = e.in /\ f.out \in {e.out, <<>>}
     \/ /\ e.out # <<>> /\ f.out = Tail(e.out)
        /\ \E kind \in Kind(Head(e.out)) : f.in = e.in \o Answer(Head(e.out).of, kind)

LEMMA Answered ==
  ASSUME NEW own, own.of \in 1 .. MaxRequests, NEW got, NEW e, NEW f, PeerStep(e, f), Exchange(own, got, e)
  PROVE  Exchange(own, got, f)
<1>1. CASE f.in = e.in /\ f.out \in {e.out, <<>>}
  BY <1>1 DEF Exchange
<1>2. CASE e.out # <<>>
  <2>1. got = <<>> /\ e.in = <<>> /\ e.out = <<own>>
    BY <1>2 DEF Exchange
  <2>2. Head(e.out) = own /\ Tail(e.out) = <<>>
    BY <2>1
  <2>3. CASE ~(f.in = e.in /\ f.out \in {e.out, <<>>})
    <3>1. PICK kind \in Kind(own) : f.in = <<>> \o Answer(own.of, kind)
      BY <2>1, <2>2, <2>3 DEF PeerStep
    <3>2. f.out = <<>>
      BY <2>2, <2>3 DEF PeerStep
    <3>3. Answer(own.of, kind) \in Seq(Piece)
      BY AnswerIs, KindsKnown
    <3>4. <<>> \o (<<>> \o Answer(own.of, kind)) = Answer(own.of, kind)
      BY <3>3, ConcatEmptySeq
    <3> QED  BY <2>1, <3>1, <3>2, <3>4 DEF Exchange
  <2> QED  BY <1>1, <2>3
<1> QED  BY <1>1, <1>2 DEF PeerStep

LEMMA PeerKeeps ==
  ASSUME IInv, Types, user' = user, sock_fd' = sock_fd, tainted' = tainted,
         \A s \in Socket : PeerStep(socket[s], socket'[s])
  PROVE  Crowded' \/ (Lines' /\ Exchanges')
<1> SUFFICES ASSUME ~Crowded' PROVE Lines' /\ Exchanges'
  OBVIOUS
<1>1. Lines /\ Exchanges
  BY DEF IInv, Crowded, UnderWay
<1>2. \A s \in Socket : Clear(s) => socket'[s].in = <<>> /\ socket'[s].out = <<>>
  BY DEF PeerStep, Clear
<1>3. Lines'
  BY <1>1, <1>2 DEF Lines, Clear, Solo, Reading, UnderWay
<1>4. ASSUME NEW u \in User, Solo(u), Reading(u)
      PROVE  /\ sock_fd # NoSocket /\ socket'[sock_fd].open /\ socket'[sock_fd].peer \in {"up", "closed", "reset"}
             /\ user[u].line = sock_fd \/ (user[u].pc = "read" /\ user[u].line = NoSocket)
             /\ sock_fd > tainted => Exchange(Own(u), user[u].got, socket'[sock_fd])
  <2>1. PeerStep(socket[sock_fd], socket'[sock_fd])
    BY <1>1, <1>4, Has
  <2>2. sock_fd > tainted => Exchange(Own(u), user[u].got, socket'[sock_fd])
    BY <1>1, <1>4, <2>1, Has, Answered
  <2> QED  BY <1>1, <1>4, <2>1, <2>2, Has DEF PeerStep
<1>5. Exchanges'
  BY <1>1, <1>4 DEF Exchanges, Solo, Reading, UnderWay, Usable, Own, OwnGot
<1> QED  BY <1>3, <1>5

LEMMA ServerKeeps ==
  ASSUME IInv, Types, ServerStep \/ ServerFails \/ BeginStop \/ Finished \/ UNCHANGED vars
  PROVE  Crowded' \/ (Lines' /\ Exchanges')
<1>1. user' = user /\ sock_fd' = sock_fd /\ tainted' = tainted
  BY DEF ServerStep, Reply, CloseIdle, ServerFails, BeginStop, Finished, vars
<1>2. socket \in [Socket -> Ends]
  BY DEF Types
<1>3. \A s \in Socket : PeerStep(socket[s], socket[s])
  BY DEF PeerStep
<1>4. ASSUME NEW x \in Socket, Reply(x) PROVE \A s \in Socket : PeerStep(socket[s], socket'[s])
  <2>1. PICK kind \in Kind(Head(socket[x].out)) :
          socket' = [socket EXCEPT ![x].in = socket[x].in \o Answer(Head(socket[x].out).of, kind),
                                   ![x].out = Tail(socket[x].out)]
    BY <1>2, <1>4 DEF Reply, Ends
  <2>2. /\ socket'[x].open = socket[x].open /\ socket'[x].peer = socket[x].peer
        /\ socket'[x].in = socket[x].in \o Answer(Head(socket[x].out).of, kind)
        /\ socket'[x].out = Tail(socket[x].out)
        /\ \A s \in Socket : s # x => socket'[s] = socket[s]
    BY <1>2, <2>1 DEF Ends
  <2>3. PeerStep(socket[x], socket'[x])
    BY <1>4, <2>2 DEF PeerStep, Reply
  <2> QED  BY <1>3, <2>2, <2>3
<1>5. ASSUME NEW x \in Socket, CloseIdle(x) PROVE \A s \in Socket : PeerStep(socket[s], socket'[s])
  BY <1>2, <1>3, <1>5 DEF CloseIdle, PeerStep, Ends
<1>6. ASSUME ServerFails PROVE \A s \in Socket : PeerStep(socket[s], socket'[s])
  BY <1>2, <1>3, <1>6 DEF ServerFails, PeerStep, Ends
<1>7. CASE socket' = socket
  BY <1>1, <1>3, <1>7, PeerKeeps
<1> QED  BY <1>1, <1>4, <1>5, <1>6, <1>7, PeerKeeps DEF ServerStep, BeginStop, Finished, vars, serverVars

LEMMA MainKeeps ==
  ASSUME IInv, Types, Start \/ Disconnect
  PROVE  Lines' /\ Exchanges'
<1>1. tainted' = tainted /\ user' = user /\ socket \in [Socket -> Ends]
  BY DEF Start, Disconnect, Types
<1>2. \A u \in User : ~UnderWay(u)
  BY DEF Start, Disconnect, IInv, Sockets
<1>3. \A s \in Socket : s > tainted => Clear(s)
  BY <1>2, Nobody
<1>4. ASSUME Start PROVE \A s \in Socket : Clear(s) => socket'[s].in = <<>> /\ socket'[s].out = <<>>
  <2>1. PICK e : socket' = [socket EXCEPT ![1] = e] /\ e.in = <<>> /\ e.out = <<>>
    <3>1. LET e == [Unmade EXCEPT !.open = TRUE, !.peer = "up"] IN e.in = <<>> /\ e.out = <<>>
      BY DEF Unmade
    <3> QED  BY <1>4, <3>1, Records DEF Start
  <2> QED  BY <1>1, <2>1 DEF Clear
<1>5. ASSUME Disconnect PROVE \A s \in Socket : Clear(s) => socket'[s].in = <<>> /\ socket'[s].out = <<>>
  BY <1>1, <1>5, Records DEF Disconnect, Clear
<1> QED  BY <1>1, <1>2, <1>3, <1>4, <1>5, NobodyAfter DEF UnderWay

LEMMA UserKeeps ==
  ASSUME IInv, Types, NEW u \in User, UserStep(u)
  PROVE  Crowded' \/ (Lines' /\ Exchanges')
<1>1. CASE Dies
  BY <1>1, DiesKeeps
<1>2. CASE Return(u) /\ ~Dies
  BY <1>2, ReturnKeeps
<1>3. CASE ~Return(u) /\ ~Dies /\ ~Crowded'
  <2>1. /\ Solo(u) /\ user'[u].pc # "idle" /\ user'[u].alone /\ tainted' = tainted /\ Lines /\ Exchanges
        /\ \A v \in User : v # u => user'[v].pc = "idle" /\ ~UnderWay(v)
    BY <1>3, SoloSteps
  <2>2. CASE \/ Check(u) \/ MakeSocket(u) \/ Dial(u) \/ Mark(u) \/ Undo(u) \/ Forget(u)
             \/ SendFails(u) \/ Disconnected(u)
    BY <2>1, <2>2, BeforeKeeps
  <2>3. CASE Send(u)
    BY <2>1, <2>3, SendKeeps
  <2>4. CASE EnterRecv(u)
    BY <2>1, <2>4, EnterKeeps
  <2>5. CASE Recv(u)
    BY <2>1, <2>5, RecvKeeps
  <2>6. CASE RecvEnds(u)
    BY <2>1, <2>6, EndKeeps
  <2> QED  BY <1>3, <2>2, <2>3, <2>4, <2>5, <2>6 DEF UserStep, SendKills, QueryThrows
<1> QED  BY <1>1, <1>2, <1>3

LEMMA NextKeeps == IInv /\ [Next]_vars => IInv'
<1> SUFFICES ASSUME IInv, [Next]_vars PROVE IInv'
  OBVIOUS
<1>1. CASE Next
  <2>1. Types /\ TypeOK' /\ Types'
    BY <1>1, TypeKept
  <2>2. Threads'
    BY <1>1, <2>1, ThreadsKept
  <2>3. Sockets'
    BY <1>1, <2>1, SocketsKept
  <2>4. Alone'
    BY <1>1, <2>1, AloneKept
  <2>5. Crowded' \/ (Lines' /\ Exchanges')
    BY <1>1, <2>1, BeginKeeps, UserKeeps, ServerKeeps, MainKeeps DEF Next
  <2> QED  BY <2>1, <2>2, <2>3, <2>4, <2>5 DEF IInv
<1>2. CASE UNCHANGED vars
  BY <1>2 DEF IInv, TypeOK, Threads, Sockets, Alone, Crowded, Lines, Exchanges, UnderWay, Reading, Solo, Clear, Usable,
    Own, OwnGot, vars, serverVars
<1> QED  BY <1>1, <1>2

\* On a trusted connection the requests and the answers on the line are those of
\* the one thread that is at it, however requests, pieces of answers, closed
\* connections and ends of threads follow each other.
THEOREM LinkKept == Spec => []IInv
BY InitIInv, NextKeeps, PTL DEF Spec

\* The locals of every thread in send_http_request, and what is on every
\* connection, keep their types.
THEOREM TypeCorrect == Spec => []TypeOK
<1>1. IInv => TypeOK
  BY DEF IInv
<1> QED  BY <1>1, LinkKept, PTL

\* A request that is alone with the client gets nothing but its own answer on a
\* connection made since answers could last be mixed up: what send_http_request
\* takes from the line is the beginning of what the server made of its request.
THEOREM OwnAnswers == Spec => []AnswersAreOwn
<1>1. ASSUME IInv PROVE AnswersAreOwn
  <2> SUFFICES ASSUME NEW u \in User, user[u].alone, user[u].line > tainted, user[u].got # <<>>
               PROVE  \A i \in DOMAIN user[u].got : user[u].got[i].of = user[u].request
    BY DEF AnswersAreOwn
  <2>1. Types
    BY <1>1, TypeIs DEF IInv, TypesAre
  <2>2. user[u].pc \in {"read", "recv", "done"} /\ UnderWay(u) /\ Solo(u)
    BY <1>1, Records DEF IInv, Threads, Reading, UnderWay, Solo
  <2>3. ~Crowded
    BY <1>1, <2>2 DEF IInv, Alone, Crowded, Solo
  <2>4. Lines /\ Exchanges
    BY <1>1, <2>3 DEF IInv
  <2>5. CASE Reading(u)
    <3>1. user[u].line = sock_fd
      BY <1>1, <2>1, <2>2, <2>4, <2>5, Has, Numbers DEF Types
    <3> QED  BY <1>1, <2>1, <2>2, <2>4, <2>5, <3>1, Has, TakenIsOwn
  <2>6. CASE user[u].pc = "done"
    BY <2>2, <2>4, <2>6 DEF Exchanges, OwnGot
  <2> QED  BY <2>2, <2>5, <2>6 DEF Reading
<1> QED  BY <1>1, LinkKept, PTL
=============================================================================
