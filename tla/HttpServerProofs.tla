--------------------------- MODULE HttpServerProofs ---------------------------
(***************************************************************************)
(* Proofs about HttpServer, for any clients and requests, any number of    *)
(* reads and any backlog.                                                  *)
(***************************************************************************)
EXTENDS HttpServer, TLAPS

Serving == server \in {"recv", "process", "reply"}

\* A request is handled when it is whole, when all has come that its header
\* tells, or when no more of it is read.
Handled ==
  server \in {"process", "reply"} =>
    \/ shut[client] \/ reads = MaxReads
    \/ got >= Size(client)
    \/ /\ request[client].told < request[client].body
       /\ got >= request[client].head + request[client].told

\* The connection that is served is the open one, and those that wait are
\* those in the backlog, once each.
Connections ==
  /\ Serving => client \in Clients /\ conn[client] = "open"
  /\ \A c \in Clients : conn[c] = "open" => Serving /\ client = c
  /\ \A i \in 1 .. Len(backlog) : conn[backlog[i]] = "queued"
  /\ \A c \in Clients : conn[c] = "queued" => \E i \in 1 .. Len(backlog) : backlog[i] = c
  /\ \A i, j \in 1 .. Len(backlog) : backlog[i] = backlog[j] => i = j

\* Where stop has come to, and what is left of the socket.
Lifetime ==
  /\ main = "down" => server = "none"
  /\ main = "ended" => server \in {"none", "gone"}
  /\ server = "none" => main \in {"down", "ended"}
  /\ listening => main \in {"serving", "closing"}
  /\ ~SocketLives => backlog = <<>>

IInv == TypeOK /\ Connections /\ Handled /\ Lifetime

LEMMA InitIInv == Init => IInv
<1> USE HttpAssumption
<1> SUFFICES ASSUME Init PROVE IInv
  OBVIOUS
<1>1. TypeOK
  <2>1. backlog \in Seq(Clients) /\ Len(backlog) <= Backlog
    BY DEF Init
  <2>2. reads \in 0 .. MaxReads /\ got \in Nat
    BY DEF Init
  <2> QED  BY <2>1, <2>2 DEF Init, TypeOK
<1>2. Connections
  BY DEF Init, Connections, Serving
<1>3. Handled /\ Lifetime
  BY DEF Init, Handled, Lifetime, SocketLives
<1> QED  BY <1>1, <1>2, <1>3 DEF IInv

\* The next request takes the place of the one before.
LEMMA ConnectKeeps ==
  ASSUME IInv, NEW c \in Clients, Connect(c)
  PROVE  IInv'
<1> USE HttpAssumption
<1>1. TypeOK'
  BY DEF IInv, TypeOK, Connect, mainVars, serverVars
<1>2. Connections'
  <2>1. /\ backlog' = Append(backlog, c) /\ Len(backlog') = Len(backlog) + 1
        /\ backlog'[Len(backlog) + 1] = c /\ \A i \in 1 .. Len(backlog) : backlog'[i] = backlog[i]
        /\ Len(backlog) \in Nat /\ \A i \in 1 .. Len(backlog) : backlog[i] \in Clients
    BY DEF IInv, TypeOK, Connect
  <2>2. conn[c] = "away" /\ conn'[c] = "queued" /\ \A d \in Clients \ {c} : conn'[d] = conn[d]
    BY DEF IInv, TypeOK, Connect
  <2>3. /\ Serving' => client' \in Clients /\ conn'[client'] = "open"
        /\ \A d \in Clients : conn'[d] = "open" => Serving' /\ client' = d
    BY <2>2 DEF IInv, Connections, Serving, Connect, serverVars
  <2>4. \A i \in 1 .. Len(backlog) : backlog[i] # c
    BY <2>1, <2>2 DEF IInv, Connections
  <2>5. \A i \in 1 .. Len(backlog') : conn'[backlog'[i]] = "queued"
    BY <2>1, <2>2, <2>4 DEF IInv, Connections
  <2>6. ASSUME NEW d \in Clients, conn'[d] = "queued"
        PROVE  \E i \in 1 .. Len(backlog') : backlog'[i] = d
    <3>1. CASE d = c
      BY <2>1, <3>1
    <3>2. CASE d # c
      BY <2>1, <2>2, <2>6, <3>2 DEF IInv, Connections
    <3> QED  BY <3>1, <3>2
  <2>7. \A i, j \in 1 .. Len(backlog') : backlog'[i] = backlog'[j] => i = j
    BY <2>1, <2>4 DEF IInv, Connections
  <2> QED  BY <2>3, <2>5, <2>6, <2>7 DEF Connections
<1>3. Handled' /\ Lifetime'
  BY DEF IInv, TypeOK, Connections, Handled, Lifetime, Serving, SocketLives, Size, Connect, mainVars, serverVars
<1> QED  BY <1>1, <1>2, <1>3 DEF IInv

\* What a client sends changes nothing but what can be read.
LEMMA ClientKeeps ==
  ASSUME IInv, NEW c \in Clients, Send(c) \/ Shut(c) \/ Leave(c)
  PROVE  IInv'
<1> USE HttpAssumption
<1>1. CASE Send(c)
  <2>1. TypeOK'
    BY <1>1 DEF IInv, TypeOK, Send, mainVars, serverVars
  <2>2. Connections'
    BY <1>1 DEF IInv, TypeOK, Connections, Serving, Send, mainVars, serverVars
  <2>3. Handled' /\ Lifetime'
    BY <1>1 DEF IInv, TypeOK, Connections, Handled, Lifetime, Serving, SocketLives, Size, Send, mainVars, serverVars
  <2> QED  BY <2>1, <2>2, <2>3 DEF IInv
<1>2. CASE Shut(c)
  <2>1. TypeOK'
    BY <1>2 DEF IInv, TypeOK, Shut, mainVars, serverVars
  <2>2. Connections'
    BY <1>2 DEF IInv, TypeOK, Connections, Serving, Shut, mainVars, serverVars
  <2>3. Handled' /\ Lifetime'
    BY <1>2 DEF IInv, TypeOK, Connections, Handled, Lifetime, Serving, SocketLives, Size, Shut, mainVars, serverVars
  <2> QED  BY <2>1, <2>2, <2>3 DEF IInv
<1>3. CASE Leave(c)
  <2>1. TypeOK'
    BY <1>3 DEF IInv, TypeOK, Leave, mainVars, serverVars
  <2>2. Connections'
    <3>1. /\ conn[c] \in {"answered", "reset"} /\ conn'[c] = "away"
          /\ \A d \in Clients \ {c} : conn'[d] = conn[d]
          /\ UNCHANGED <<server, client, backlog>>
      BY <1>3 DEF IInv, TypeOK, Leave, serverVars
    <3>2. /\ Serving => client \in Clients /\ conn'[client] = "open"
          /\ \A d \in Clients : conn'[d] = "open" => Serving /\ client = d
      BY <3>1 DEF IInv, Connections
    <3>3. \A i \in 1 .. Len(backlog) : conn'[backlog[i]] = "queued"
      <4>1. \A i \in 1 .. Len(backlog) : backlog[i] \in Clients /\ conn[backlog[i]] = "queued"
        <5>1. backlog \in Seq(Clients)
          BY DEF IInv, TypeOK
        <5>2. \A i \in 1 .. Len(backlog) : backlog[i] \in Clients
          BY ONLY <5>1
        <5>3. \A i \in 1 .. Len(backlog) : conn[backlog[i]] = "queued"
          BY DEF IInv, Connections
        <5> QED  BY <5>2, <5>3
      <4> QED  BY <3>1, <4>1
    <3> QED  BY <3>1, <3>2, <3>3 DEF IInv, Connections, Serving
  <2>3. Handled' /\ Lifetime'
    BY <1>3 DEF IInv, TypeOK, Connections, Handled, Lifetime, Serving, SocketLives, Size, Leave, mainVars, serverVars
  <2> QED  BY <2>1, <2>2, <2>3 DEF IInv
<1> QED  BY <1>1, <1>2, <1>3

\* Everybody in a sequence is reset, and nobody else.
LEMMA ResetWho ==
  ASSUME NEW q \in Seq(Clients), conn \in [Clients -> {"away", "queued", "open", "answered", "reset"}]
  PROVE  /\ Reset(q) \in [Clients -> {"away", "queued", "open", "answered", "reset"}]
         /\ \A i \in 1 .. Len(q) : Reset(q)[q[i]] = "reset"
         /\ \A c \in Clients : (\A i \in 1 .. Len(q) : q[i] # c) => Reset(q)[c] = conn[c]
         /\ \A c \in Clients : Reset(q)[c] # "reset" => Reset(q)[c] = conn[c]
<1>1. /\ \A i \in 1 .. Len(q) : q[i] \in Clients /\ q[i] \in ToSet(q)
      /\ \A c \in ToSet(q) : \E i \in 1 .. Len(q) : q[i] = c
  BY DEF ToSet
<1> QED  BY <1>1 DEF Reset

\* When the whole backlog is reset nobody waits.
LEMMA NobodyLeft ==
  ASSUME IInv
  PROVE  /\ Reset(backlog) \in [Clients -> {"away", "queued", "open", "answered", "reset"}]
         /\ \A c \in Clients : Reset(backlog)[c] # "queued"
         /\ \A c \in Clients : Reset(backlog)[c] = "open" => conn[c] = "open"
<1>1. backlog \in Seq(Clients) /\ conn \in [Clients -> {"away", "queued", "open", "answered", "reset"}]
  BY DEF IInv, TypeOK
<1>2. \A c \in Clients : conn[c] = "queued" => \E i \in 1 .. Len(backlog) : backlog[i] = c
  BY DEF IInv, Connections
<1> QED  BY <1>1, <1>2, ResetWho

\* accept takes the first in the backlog, and the rest stays or is reset.
LEMMA AcceptKeeps ==
  ASSUME IInv, Accept
  PROVE  IInv'
<1> USE HttpAssumption
<1> DEFINE rest == Tail(backlog)
           first == Head(backlog)
           States == {"away", "queued", "open", "answered", "reset"}
<1>1. /\ backlog \in Seq(Clients) /\ backlog # <<>> /\ first \in Clients /\ rest \in Seq(Clients)
      /\ Len(rest) = Len(backlog) - 1 /\ first = backlog[1]
      /\ \A i \in 1 .. Len(rest) : rest[i] = backlog[i + 1]
      /\ conn \in [Clients -> States]
  BY DEF IInv, TypeOK, Accept
<1>2. /\ Released(rest) \in [Clients -> States]
      /\ ~listening => \A i \in 1 .. Len(rest) : Released(rest)[rest[i]] = "reset"
      /\ \A c \in Clients : Released(rest)[c] # "reset" => Released(rest)[c] = conn[c]
      /\ listening => Released(rest) = conn
  BY <1>1, ResetWho DEF Released
<1>3. conn' = [Released(rest) EXCEPT ![first] = "open"] /\ backlog' = IF listening THEN rest ELSE <<>>
  BY DEF Accept, Left
<1>4. TypeOK'
  <2>1. conn' \in [Clients -> States]
    BY <1>1, <1>2, <1>3
  <2>2. backlog' \in Seq(Clients) /\ Len(backlog') <= Backlog
    <3>1. Len(backlog) <= Backlog /\ Len(backlog) \in Nat
      BY DEF IInv, TypeOK
    <3>2. CASE listening
      BY <1>1, <1>3, <3>1, <3>2
    <3>3. CASE ~listening
      BY <1>3, <3>3
    <3> QED  BY <3>2, <3>3
  <2>3. /\ main' = main /\ running' = running /\ listening' = listening /\ server' = "recv"
        /\ client' = first /\ reads' = 0 /\ got' = 0
        /\ request' = request /\ sent' = sent /\ shut' = shut
    BY DEF Accept, mainVars
  <2> QED  BY <1>1, <2>1, <2>2, <2>3 DEF IInv, TypeOK
<1>5. \A i \in 1 .. Len(rest) : rest[i] # first
  BY <1>1 DEF IInv, Connections
<1>6. \A c \in Clients : conn[c] # "open"
  BY DEF IInv, Connections, Serving, Accept
<1>7. Connections'
  <2>1. Serving' /\ client' = first /\ conn'[first] = "open"
    BY <1>1, <1>2, <1>3 DEF Accept, Serving
  <2>2. \A c \in Clients : conn'[c] = "open" => c = first
    BY <1>1, <1>2, <1>3, <1>6
  <2>3. \A i \in 1 .. Len(backlog') : conn'[backlog'[i]] = "queued"
    BY <1>1, <1>2, <1>3, <1>5 DEF IInv, Connections
  <2>4. ASSUME NEW c \in Clients, conn'[c] = "queued"
        PROVE  \E i \in 1 .. Len(backlog') : backlog'[i] = c
    <3>1. conn[c] = "queued" /\ c # first
      BY <1>1, <1>2, <1>3, <2>4
    <3>2. PICK i \in 1 .. Len(backlog) : backlog[i] = c
      BY <3>1 DEF IInv, Connections
    <3>3. i - 1 \in 1 .. Len(rest) /\ rest[i - 1] = c
      BY <1>1, <3>1, <3>2
    <3>4. listening
      BY <1>1, <1>2, <1>3, <3>3, <2>4
    <3> QED  BY <1>3, <3>3, <3>4
  <2>5. \A i, j \in 1 .. Len(backlog') : backlog'[i] = backlog'[j] => i = j
    BY <1>1, <1>3 DEF IInv, Connections
  <2> QED  BY <1>1, <2>1, <2>2, <2>3, <2>4, <2>5 DEF Connections
<1>8. Handled' /\ Lifetime'
  BY <1>3 DEF IInv, Handled, Lifetime, SocketLives, Accept, mainVars
<1> QED  BY <1>4, <1>7, <1>8 DEF IInv

\* accept fails; where the socket is closed already, those who wait are reset.
LEMMA AcceptFailsKeeps ==
  ASSUME IInv, AcceptFails
  PROVE  IInv'
<1> USE HttpAssumption
<1>1. backlog \in Seq(Clients) /\ conn \in [Clients -> {"away", "queued", "open", "answered", "reset"}]
  BY DEF IInv, TypeOK
<1>2. /\ conn' = (IF listening THEN conn ELSE Reset(backlog))
      /\ backlog' = IF listening THEN backlog ELSE <<>>
  BY DEF AcceptFails, Left, Released
<1>3. TypeOK'
  <2>1. conn' \in [Clients -> {"away", "queued", "open", "answered", "reset"}]
    BY <1>1, <1>2, NobodyLeft
  <2>2. backlog' \in Seq(Clients) /\ Len(backlog') <= Backlog
    BY <1>1, <1>2 DEF IInv, TypeOK
  <2> QED  BY <2>1, <2>2 DEF IInv, TypeOK, AcceptFails, AtAccept, mainVars
<1>4. Connections'
  <2>1. ~Serving' /\ \A c \in Clients : conn[c] # "open"
    BY DEF IInv, Connections, Serving, AcceptFails, AtAccept
  <2>2. CASE listening
    BY <1>2, <2>1, <2>2 DEF IInv, Connections
  <2>3. CASE ~listening
    BY <1>2, NobodyLeft, <2>1, <2>3 DEF Connections
  <2> QED  BY <2>2, <2>3
<1>5. Handled' /\ Lifetime'
  BY <1>2 DEF IInv, Handled, Lifetime, SocketLives, AcceptFails, AtAccept, mainVars
<1> QED  BY <1>3, <1>4, <1>5 DEF IInv

\* Between connections.
LEMMA LoopKeeps ==
  ASSUME IInv, TestRunning \/ EnterAccept \/ Failed
  PROVE  IInv'
<1> USE HttpAssumption
<1>1. CASE TestRunning
  <2>1. TypeOK'
    BY <1>1 DEF IInv, TypeOK, TestRunning, AtAccept, mainVars, clientVars
  <2>2. Connections'
    BY <1>1 DEF IInv, TypeOK, Connections, Serving, TestRunning, AtAccept, mainVars, clientVars
  <2>3. Handled' /\ Lifetime'
    BY <1>1 DEF IInv, TypeOK, Connections, Handled, Lifetime, Serving, SocketLives, Size, TestRunning, AtAccept, mainVars, clientVars
  <2> QED  BY <2>1, <2>2, <2>3 DEF IInv
<1>2. CASE EnterAccept
  <2>1. TypeOK'
    BY <1>2 DEF IInv, TypeOK, EnterAccept, AtAccept, mainVars, clientVars
  <2>2. Connections'
    BY <1>2 DEF IInv, TypeOK, Connections, Serving, EnterAccept, AtAccept, mainVars, clientVars
  <2>3. Handled' /\ Lifetime'
    BY <1>2 DEF IInv, TypeOK, Connections, Handled, Lifetime, Serving, SocketLives, Size, EnterAccept, AtAccept, mainVars, clientVars
  <2> QED  BY <2>1, <2>2, <2>3 DEF IInv
<1>3. CASE Failed
  <2>1. TypeOK'
    BY <1>3 DEF IInv, TypeOK, Failed, AtAccept, mainVars, clientVars
  <2>2. Connections'
    BY <1>3 DEF IInv, TypeOK, Connections, Serving, Failed, AtAccept, mainVars, clientVars
  <2>3. Handled' /\ Lifetime'
    BY <1>3 DEF IInv, TypeOK, Connections, Handled, Lifetime, Serving, SocketLives, Size, Failed, AtAccept, mainVars, clientVars
  <2> QED  BY <2>1, <2>2, <2>3 DEF IInv
<1> QED  BY <1>1, <1>2, <1>3

\* Reading and answering: this is where a request becomes handled.
LEMMA ReadKeeps ==
  ASSUME IInv, Recv \/ StopReading \/ ProcessRequest
  PROVE  IInv'
<1> USE HttpAssumption
<1>1. CASE Recv
  <2>1. TypeOK'
    BY <1>1 DEF IInv, TypeOK, Connections, Serving, Recv, MoreReads, mainVars, clientVars
  <2>2. Connections' /\ Lifetime'
    BY <1>1 DEF IInv, Connections, Lifetime, Serving, SocketLives, Recv, mainVars, clientVars
  <2>3. Handled'
    <3>1. /\ UNCHANGED <<client, request, shut>>
          /\ server' \in {"process", "reply"} => got' >= request[client].head + request[client].told
      BY <1>1 DEF Recv, Complete, clientVars
    <3>2. request[client] \in Requests /\ got' \in Nat
      BY <1>1, <2>1 DEF IInv, TypeOK, Connections, Serving, Recv
    <3>3. /\ request[client].head \in Nat /\ request[client].body \in Nat /\ request[client].told \in Nat
          /\ request[client].told <= request[client].body
      BY <3>2
    <3> QED  BY <3>1, <3>2, <3>3 DEF Handled, Size
  <2> QED  BY <2>1, <2>2, <2>3 DEF IInv
<1>2. CASE StopReading
  <2>1. TypeOK' /\ Connections' /\ Lifetime'
    BY <1>2 DEF IInv, TypeOK, Connections, Lifetime, Serving, SocketLives, StopReading, mainVars, clientVars
  <2>2. Handled'
    BY <1>2 DEF IInv, TypeOK, Handled, StopReading, MoreReads, Size, mainVars, clientVars
  <2> QED  BY <2>1, <2>2 DEF IInv
<1>3. CASE ProcessRequest
  <2>1. TypeOK'
    BY <1>3 DEF IInv, TypeOK, ProcessRequest, Size, mainVars, clientVars
  <2>2. Connections'
    BY <1>3 DEF IInv, TypeOK, Connections, Serving, ProcessRequest, Size, mainVars, clientVars
  <2>3. Handled' /\ Lifetime'
    BY <1>3 DEF IInv, TypeOK, Connections, Handled, Lifetime, Serving, SocketLives, Size, ProcessRequest, Size, mainVars, clientVars
  <2> QED  BY <2>1, <2>2, <2>3 DEF IInv
<1> QED  BY <1>1, <1>2, <1>3

LEMMA CloseKeeps ==
  ASSUME IInv, RejectBroken \/ Reply
  PROVE  IInv'
<1> USE HttpAssumption
<1>1. /\ Serving /\ client \in Clients /\ conn[client] = "open" /\ Close
      /\ UNCHANGED <<mainVars, backlog, request, sent, shut>>
  BY DEF IInv, Connections, Serving, RejectBroken, Reply
<1>2. PICK end \in {"answered", "reset"} : conn' = [conn EXCEPT ![client] = end]
  BY <1>1 DEF Close
<1>3. server' = "test" /\ client' = Nobody /\ reads' = 0 /\ got' = 0
  BY <1>1 DEF Close, AtAccept
<1>4. TypeOK'
  BY <1>1, <1>2, <1>3 DEF IInv, TypeOK, mainVars
<1>5. Connections'
  <2>1. /\ conn'[client] # "open" /\ conn'[client] # "queued"
        /\ \A d \in Clients \ {client} : conn'[d] = conn[d]
    BY <1>1, <1>2 DEF IInv, TypeOK
  <2>2. ~Serving' /\ \A d \in Clients : conn'[d] # "open"
    BY <1>1, <1>3, <2>1 DEF IInv, Connections, Serving
  <2>3. \A i \in 1 .. Len(backlog) : backlog[i] \in Clients /\ backlog[i] # client
    <3>1. backlog \in Seq(Clients)
      BY DEF IInv, TypeOK
    <3>2. \A i \in 1 .. Len(backlog) : backlog[i] \in Clients
      BY ONLY <3>1
    <3>3. conn[client] = "open" /\ \A i \in 1 .. Len(backlog) : conn[backlog[i]] = "queued"
      BY <1>1 DEF IInv, Connections
    <3>4. \A i \in 1 .. Len(backlog) : backlog[i] # client
      BY ONLY <3>3
    <3> QED  BY <3>2, <3>4
  <2>4. backlog' = backlog /\ \A i \in 1 .. Len(backlog) : conn'[backlog[i]] = "queued"
    BY <1>1, <2>1, <2>3 DEF IInv, Connections
  <2>5. \A d \in Clients : conn'[d] = "queued" => \E i \in 1 .. Len(backlog) : backlog[i] = d
    BY <2>1 DEF IInv, Connections
  <2>6. \A i, j \in 1 .. Len(backlog) : backlog[i] = backlog[j] => i = j
    BY DEF IInv, Connections
  <2> QED  BY ONLY <2>2, <2>4, <2>5, <2>6 DEF Connections
<1>6. Handled' /\ Lifetime'
  BY <1>1, <1>3 DEF IInv, Handled, Lifetime, Serving, SocketLives, mainVars
<1> QED  BY <1>4, <1>5, <1>6 DEF IInv

\* The steps of main.
LEMMA MainKeeps ==
  ASSUME IInv, Start \/ StartFails \/ StopServer \/ JoinServer
  PROVE  IInv'
<1> USE HttpAssumption
<1>1. CASE Start
  <2>1. TypeOK' /\ Handled' /\ Lifetime'
    BY <1>1 DEF IInv, TypeOK, Handled, Lifetime, SocketLives, Start, clientVars
  <2>2. server = "none" /\ server' = "test" /\ UNCHANGED <<client, conn, backlog>>
    BY <1>1 DEF IInv, Lifetime, Start, clientVars
  <2>3. Connections'
    BY <2>2 DEF IInv, Connections, Serving
  <2> QED  BY <2>1, <2>3 DEF IInv
<1>2. CASE StartFails
  <2>1. TypeOK' /\ Handled' /\ Lifetime'
    BY <1>2 DEF IInv, TypeOK, Handled, Lifetime, SocketLives, Size, StartFails, serverVars, clientVars
  <2>2. Connections'
    BY <1>2 DEF IInv, Connections, Serving, StartFails, serverVars, clientVars
  <2> QED  BY <2>1, <2>2 DEF IInv
<1>3. CASE StopServer
  <2>1. TypeOK' /\ Handled' /\ Lifetime'
    BY <1>3 DEF IInv, TypeOK, Handled, Lifetime, SocketLives, Size, StopServer, serverVars, clientVars
  <2>2. Connections'
    BY <1>3 DEF IInv, Connections, Serving, StopServer, serverVars, clientVars
  <2> QED  BY <2>1, <2>2 DEF IInv
<1>4. CASE JoinServer
  <2>1. TypeOK'
    BY <1>4 DEF IInv, TypeOK, JoinServer, serverVars, clientVars
  <2>2. Connections'
    BY <1>4 DEF IInv, TypeOK, Connections, Serving, JoinServer, serverVars, clientVars
  <2>3. Handled' /\ Lifetime'
    BY <1>4 DEF IInv, TypeOK, Connections, Handled, Lifetime, Serving, SocketLives, Size, JoinServer, serverVars, clientVars
  <2> QED  BY <2>1, <2>2, <2>3 DEF IInv
<1> QED  BY <1>1, <1>2, <1>3, <1>4

LEMMA CloseSocketKeeps ==
  ASSUME IInv, CloseSocket
  PROVE  IInv'
<1> USE HttpAssumption
<1>1. backlog \in Seq(Clients) /\ conn \in [Clients -> {"away", "queued", "open", "answered", "reset"}]
  BY DEF IInv, TypeOK
<1>2. \/ server = "accept" /\ UNCHANGED <<backlog, conn>>
      \/ server # "accept" /\ backlog' = <<>> /\ conn' = Reset(backlog)
  BY DEF CloseSocket
<1>3. TypeOK'
  <2>1. conn' \in [Clients -> {"away", "queued", "open", "answered", "reset"}]
    BY <1>1, <1>2, NobodyLeft
  <2>2. backlog' \in Seq(Clients) /\ Len(backlog') <= Backlog
    <3>1. CASE server = "accept"
      BY <1>2, <3>1 DEF IInv, TypeOK
    <3>2. CASE server # "accept"
      <4>1. backlog' = <<>>
        BY <1>2, <3>2
      <4> QED  BY <4>1
    <3> QED  BY <3>1, <3>2
  <2>3. main' = "joining" /\ listening' = FALSE /\ UNCHANGED <<running, serverVars, request, sent, shut>>
    BY DEF CloseSocket
  <2> QED  BY <2>1, <2>2, <2>3 DEF IInv, TypeOK, serverVars
<1>4. Connections'
  <2>1. UNCHANGED <<server, client>>
    BY DEF CloseSocket, serverVars
  <2>2. CASE server = "accept"
    BY <1>2, <2>1, <2>2 DEF IInv, Connections, Serving
  <2>3. CASE server # "accept"
    <3>1. \A c \in Clients : conn'[c] # "queued" /\ (conn'[c] = "open" => conn[c] = "open")
      BY <1>2, NobodyLeft, <2>3
    <3>2. Serving => client \in Clients /\ conn'[client] = "open"
      <4>1. SUFFICES ASSUME Serving PROVE client \in Clients /\ conn'[client] = "open"
        OBVIOUS
      <4>2. client \in Clients /\ conn[client] = "open"
        BY <4>1 DEF IInv, Connections
      <4>3. \A i \in 1 .. Len(backlog) : backlog[i] # client
        BY <4>2 DEF IInv, Connections
      <4> QED  BY <1>1, <1>2, <2>3, <4>2, <4>3, ResetWho
    <3> QED  BY <1>2, <2>1, <2>3, <3>1, <3>2 DEF IInv, Connections, Serving
  <2> QED  BY <2>2, <2>3
<1>5. Handled' /\ Lifetime'
  BY <1>2 DEF IInv, Handled, Lifetime, SocketLives, Size, CloseSocket, serverVars
<1> QED  BY <1>3, <1>4, <1>5 DEF IInv

LEMMA NextKeeps == IInv /\ [Next]_vars => IInv'
<1> SUFFICES ASSUME IInv, [Next]_vars PROVE IInv'
  OBVIOUS
<1>1. CASE \E c \in Clients : Connect(c) \/ Send(c) \/ Shut(c) \/ Leave(c)
  BY <1>1, ConnectKeeps, ClientKeeps
<1>2. CASE Accept \/ AcceptFails
  BY <1>2, AcceptKeeps, AcceptFailsKeeps
<1>3. CASE ServerStep
  BY <1>3, LoopKeeps, ReadKeeps, CloseKeeps DEF ServerStep
<1>4. CASE Start \/ StartFails \/ StopServer \/ StopStep
  BY <1>4, MainKeeps, CloseSocketKeeps DEF StopStep
<1>5. CASE UNCHANGED vars
  BY <1>5 DEF IInv, TypeOK, Connections, Handled, Lifetime, Serving, SocketLives, Size,
              vars, mainVars, serverVars, clientVars
<1> QED  BY <1>1, <1>2, <1>3, <1>4, <1>5 DEF Next

\* The inductive invariant: who is connected, who waits, and how far stop is.
THEOREM ConnectionsKept == Spec => []IInv
<1>1. Init => IInv
  BY InitIInv
<1>2. IInv /\ [Next]_vars => IInv'
  BY NextKeeps
<1> QED  BY <1>1, <1>2, PTL DEF Spec

\* Types of the HTTP server (http_serves checks it on two clients).
THEOREM TypeCorrect == Spec => []TypeOK
<1>1. IInv => TypeOK
  BY DEF IInv
<1> QED  BY <1>1, ConnectionsKept, PTL

\* handle_client answers a request whose header tells the length of its body in
\* part only where nothing more of it comes or is read, and no request before
\* what its header tells of is there.
THEOREM RequestsHandledWhole == Spec => []BodyWhole
<1>1. IInv => BodyWhole
  BY DEF IInv, Handled, BodyWhole
<1> QED  BY <1>1, ConnectionsKept, PTL

\* Once stop has returned nobody is served and nobody is left waiting, whatever
\* accept was doing when the socket was closed under it.
THEOREM StopLeavesNothing == Spec => []NothingAfterStop
<1>1. IInv => NothingAfterStop
  BY DEF IInv, TypeOK, Connections, Lifetime, Serving, SocketLives, NothingAfterStop, Connected
<1> QED  BY <1>1, ConnectionsKept, PTL
=============================================================================
