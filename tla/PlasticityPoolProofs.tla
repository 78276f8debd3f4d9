------------------------- MODULE PlasticityPoolProofs -------------------------
(***************************************************************************)
(* Proofs about PlasticityPool, for any threads, pool and number of tasks. *)
(***************************************************************************)
EXTENDS PlasticityPool, FiniteSetTheorems, TLAPS

Quiet(c) == cpc[c] \in {"idle", "off"}
Runners == Loops \union Callers

\* An id is given once.
Ids ==
  /\ \A t \in tasks \union completed : t < nextId
  /\ \A i \in 1 .. Len(queue) : queue[i] < nextId
  /\ \A w \in Pool : wtask[w] < nextId
  /\ \A c \in Clients : cid[c] < nextId
  /\ \A c, d \in Clients : cid[c] = cid[d] /\ cid[c] # NoTask => c = d

\* What is in the queue is there once, registered and not begun.
QueueFresh ==
  /\ \A i, j \in 1 .. Len(queue) : queue[i] = queue[j] => i = j
  /\ \A i \in 1 .. Len(queue) : queue[i] \in tasks /\ queue[i] \notin completed
  /\ \A i \in 1 .. Len(queue), w \in Pool : wtask[w] # queue[i]

\* What is in a hand is in no other, and not done.
HandsFresh ==
  /\ \A w \in Pool : wtask[w] # NoTask <=> wpc[w] = "run"
  /\ \A w \in Pool : wtask[w] \notin completed
  /\ \A v, w \in Pool : wtask[v] = wtask[w] /\ wtask[v] # NoTask => v = w

\* What is registered is somewhere.
Somewhere ==
  \A t \in tasks :
    \/ \E i \in 1 .. Len(queue) : queue[i] = t
    \/ \E w \in Pool : wtask[w] = t
    \/ t \in completed
    \/ main \in {"stopped", "destroyed"} /\ \A c \in Runners : cid[c] # t

\* Who holds the mutex across steps has seen an empty queue.
Mutex ==
  /\ \A w \in Pool : wpc[w] = "deciding" <=> holder = w
  /\ holder # NoThread => queue = <<>>

\* What each position of main says of the threads.
Life ==
  /\ running <=> main \in {"starting", "up", "closing"}
  /\ main = "new" => ~poolUp /\ \A c \in Clients : Quiet(c) /\ (c \in Loops => cpc[c] = "off")
  /\ poolUp \/ main \in {"notifyAll", "joinPool"} \/ \A w \in Pool : wpc[w] = "off"
  /\ main \in {"closing", "joinLoops"} => \A c \in Callers \union Testers : cpc[c] = "idle"
  /\ main \in {"notifyAll", "joinPool", "stopped", "destroyed"} =>
       ~poolUp /\ \A c \in Clients : Quiet(c)

\* A run_simulation under way finds its task, one that is over has removed it.
Calls ==
  /\ CallGetsItsResult /\ EntriesLastTheirTask
  /\ \A c \in Testers : cpc[c] # "remove"

IInv ==
  /\ TypeOK
  /\ Ids /\ QueueFresh /\ HandsFresh /\ Somewhere
  /\ Mutex /\ NobodySleepsOnWork
  /\ Life /\ Calls

LEMMA InitIInv == Init => IInv
<1> USE PoolAssumption
<1> SUFFICES ASSUME Init PROVE IInv
  OBVIOUS
<1>1. TypeOK
  <2>1. queue \in Seq(Task)
    BY DEF Init
  <2>2. nextId \in 1 .. MaxTasks + 1
    BY DEF Init, FirstId
  <2>3. cpc \in [Clients -> ClientPc] /\ wpc \in [Pool -> WorkerPc] /\ main \in MainPc
    BY DEF Init, ClientPc, WorkerPc, MainPc
  <2> QED  BY <2>1, <2>2, <2>3 DEF Init, TypeOK
<1>2. Ids /\ QueueFresh /\ HandsFresh /\ Somewhere
  BY DEF Init, Ids, QueueFresh, HandsFresh, Somewhere, FirstId, NoTask
<1>3. Mutex /\ NobodySleepsOnWork
  BY DEF Init, Mutex, NobodySleepsOnWork
<1>4. Life
  BY DEF Init, Life, Quiet
<1>5. Calls
  BY DEF Init, Calls, CallGetsItsResult, EntriesLastTheirTask, FirstId, Task, NoTask, Clients
<1> QED  BY <1>1, <1>2, <1>3, <1>4, <1>5 DEF IInv

-----------------------------------------------------------------------------
(* The actions in groups: what they leave alone is all that most parts of  *)
(* the invariant need to know of them.                                     *)

\* Clients look, wait and go on.
Moves(c) == CheckPool(c) \/ Lookup(c) \/ LookupMissing(c) \/ GetResult(c) \/ GetTimeout(c)
            \/ Ask(c) \/ LoopExit(c)

\* Pool threads go round.
Turns(w) == LoopTest(w) \/ PopNothing(w) \/ SpuriousWake(w)

LEMMA TypeKept ==
  ASSUME IInv, Next
  PROVE  TypeOK'
<1> USE PoolAssumption DEF IInv, TypeOK, Task, ClientPc, WorkerPc, MainPc, NoTask
<1>1. ASSUME NEW c \in Clients, Submit(c) PROVE TypeOK'
  <2>1. nextId \in Task
    BY <1>1 DEF Submit
  <2> QED  BY <1>1, <2>1 DEF Submit, Goto, lifeVars, workerVars
<1>2. ASSUME NEW c \in Clients, CheckPool(c) \/ Lookup(c) \/ Ask(c) \/ LoopExit(c) PROVE TypeOK'
  BY <1>2 DEF CheckPool, Lookup, Ask, LoopExit, Goto, lifeVars, workerVars
<1>3. ASSUME NEW c \in Clients, LookupMissing(c) \/ GetResult(c) \/ GetTimeout(c) PROVE TypeOK'
  BY <1>3 DEF LookupMissing, GetResult, GetTimeout, Returned, Calculated, Goto, lifeVars, workerVars
<1>4. ASSUME NEW c \in Clients, StartPool(c) \/ NotifyOne(c) PROVE TypeOK'
  BY <1>4 DEF StartPool, NotifyOne, StartWorkers, Waiting, Goto, lifeVars, workerVars
<1>5. ASSUME NEW c \in Clients, RemoveTask(c) \/ Cleanup(c) PROVE TypeOK'
  BY <1>5 DEF RemoveTask, Cleanup, Erased, Uncompleted, Goto, lifeVars, workerVars, clientVars
<1>6. ASSUME NEW w \in Pool, Turns(w) \/ DecideToWait(w) \/ Wait(w) PROVE TypeOK'
  BY <1>6 DEF Turns, LoopTest, PopNothing, SpuriousWake, DecideToWait, Wait, WorkerGoto, lifeVars, clientVars
<1>7. ASSUME NEW w \in Pool, PopTask(w) PROVE TypeOK'
  <2>1. Head(queue) \in Task /\ Tail(queue) \in Seq(Task)
    BY <1>7 DEF PopTask
  <2> QED  BY <1>7, <2>1 DEF PopTask, FrontPopped, WorkerGoto, lifeVars, clientVars
<1>8. ASSUME NEW w \in Pool, RunTask(w) PROVE TypeOK'
  <2>1. wtask[w] \in Task
    BY <1>8 DEF RunTask, HandsFresh
  <2> QED  BY <1>8, <2>1 DEF RunTask, WorkerGoto, lifeVars, clientVars
<1>9. ASSUME MainStep PROVE TypeOK'
  <2>1. CASE Start
    BY <2>1 DEF Start, MainGoto, workerVars
  <2>2. CASE StartWorkerPool
    BY <2>2 DEF StartWorkerPool, StartWorkers, MainGoto, clientVars
  <2>3. CASE CloseCallers \/ StopRunning \/ StopPool \/ Destroy
    BY <2>3 DEF CloseCallers, StopRunning, StopPool, Destroy, MainGoto, workerVars, clientVars
  <2>4. CASE NotifyAll
    BY <2>4 DEF NotifyAll, MainGoto, Waiting, clientVars
  <2>5. CASE JoinPool
    <3>1. queue' \in Seq(Task)
      BY <2>5 DEF JoinPool
    <3> QED  BY <2>5, <3>1 DEF JoinPool, MainGoto, clientVars
  <2> QED  BY <1>9, <2>1, <2>2, <2>3, <2>4, <2>5 DEF MainStep, StopStep
<1>10. CASE Finished
  BY <1>10 DEF Finished, vars, lifeVars, workerVars, clientVars
<1> HIDE DEF IInv, TypeOK
<1> QED  BY <1>1, <1>2, <1>3, <1>4, <1>5, <1>6, <1>7, <1>8, <1>9, <1>10
         DEF Next, ClientStep, WorkerStep, Turns

idVars == <<tasks, completed, queue, wtask, cid, nextId>>

\* Which actions give ids, take them away, or move them.
LEMMA IdsMove ==
  ASSUME Next
  PROVE  \/ \E c \in Clients : Submit(c) \/ RemoveTask(c) \/ Cleanup(c)
         \/ \E w \in Pool : PopTask(w) \/ RunTask(w)
         \/ JoinPool
         \/ UNCHANGED idVars
<1>1. ASSUME NEW c \in Clients, Moves(c) PROVE UNCHANGED idVars
  BY <1>1 DEF Moves, CheckPool, Lookup, LookupMissing, GetResult, GetTimeout, Ask, LoopExit,
              idVars, workerVars
<1>2. ASSUME NEW c \in Clients, StartPool(c) \/ NotifyOne(c) PROVE UNCHANGED idVars
  BY <1>2 DEF StartPool, NotifyOne, idVars
<1>3. ASSUME NEW w \in Pool, Turns(w) \/ DecideToWait(w) \/ Wait(w) PROVE UNCHANGED idVars
  BY <1>3 DEF Turns, LoopTest, PopNothing, SpuriousWake, DecideToWait, Wait, idVars, clientVars
<1>4. CASE Start \/ StartWorkerPool \/ CloseCallers \/ StopRunning \/ StopPool \/ NotifyAll \/ Destroy
  BY <1>4 DEF Start, StartWorkerPool, CloseCallers, StopRunning, StopPool, NotifyAll, Destroy,
              idVars, workerVars, clientVars
<1>5. CASE Finished
  BY <1>5 DEF Finished, vars, idVars, workerVars, clientVars
<1> QED  BY <1>1, <1>2, <1>3, <1>4, <1>5
         DEF Next, ClientStep, WorkerStep, MainStep, StopStep, Moves, Turns

LEMMA IdsKept ==
  ASSUME IInv, Next
  PROVE  Ids'
<1> USE PoolAssumption DEF NoTask
<1> TypeOK /\ Ids
  BY DEF IInv
<1>1. ASSUME NEW c \in Clients, Submit(c) PROVE Ids'
  <2>1. nextId \in Task /\ nextId' = nextId + 1 /\ tasks' = tasks \union {nextId}
        /\ queue' = Append(queue, nextId) /\ cid' = [cid EXCEPT ![c] = nextId]
        /\ completed' = completed /\ wtask' = wtask
    BY <1>1 DEF Submit, TypeOK, Task, workerVars
  <2>2. /\ Len(queue') = Len(queue) + 1 /\ queue'[Len(queue) + 1] = nextId
        /\ \A i \in 1 .. Len(queue) : queue'[i] = queue[i] /\ queue[i] \in Nat
    BY <2>1 DEF TypeOK, Task
  <2>3. /\ \A t \in tasks' \union completed' : t < nextId'
        /\ \A w \in Pool : wtask'[w] < nextId'
    BY <2>1 DEF TypeOK, Ids, Task
  <2>4. \A i \in 1 .. Len(queue') : queue'[i] < nextId'
    BY <2>1, <2>2 DEF TypeOK, Ids, Task
  <2>5. \A d \in Clients : cid'[d] = IF d = c THEN nextId ELSE cid[d]
    BY <2>1 DEF TypeOK
  <2>6. \A d \in Clients : cid[d] < nextId /\ cid[d] \in Nat
    BY DEF TypeOK, Ids, Task
  <2>7. \A d, e \in Clients : cid'[d] = cid'[e] /\ cid'[d] # NoTask => d = e
    BY <2>1, <2>5, <2>6 DEF Ids, Task
  <2> QED  BY <2>1, <2>3, <2>4, <2>5, <2>6, <2>7 DEF Ids, Task
<1>2. ASSUME NEW c \in Clients, RemoveTask(c) \/ Cleanup(c) PROVE Ids'
  BY <1>2 DEF RemoveTask, Cleanup, Erased, Uncompleted, Ids, workerVars, clientVars
<1>3. ASSUME NEW w \in Pool, PopTask(w) PROVE Ids'
  <2>1. /\ Head(queue) = queue[1] /\ 1 \in 1 .. Len(queue) /\ queue' = Tail(queue)
        /\ Len(queue') = Len(queue) - 1 /\ \A i \in 1 .. Len(queue') : queue'[i] = queue[i + 1]
    BY <1>3 DEF PopTask, FrontPopped, TypeOK
  <2>2. \A i \in 1 .. Len(queue') : queue'[i] < nextId
    BY <2>1 DEF Ids, TypeOK
  <2> QED  BY <1>3, <2>1, <2>2 DEF PopTask, Ids, TypeOK, clientVars
<1>4. ASSUME NEW w \in Pool, RunTask(w) PROVE Ids'
  BY <1>4 DEF RunTask, Ids, TypeOK, clientVars
<1>5. CASE JoinPool
  BY <1>5 DEF JoinPool, Ids, clientVars
<1>6. CASE UNCHANGED idVars
  BY <1>6 DEF idVars, Ids
<1> QED  BY <1>1, <1>2, <1>3, <1>4, <1>5, <1>6, IdsMove

\* A task can only be taken away when it is done.
LEMMA OnlyDoneGoes ==
  ASSUME IInv, NEW c \in Clients, RemoveTask(c) \/ Cleanup(c)
  PROVE  /\ tasks' \subseteq tasks
         /\ \A t \in tasks : t \notin completed => t \in tasks'
<1>1. CASE RemoveTask(c)
  <2>1. c \in Runners
    BY <1>1 DEF IInv, Calls, RemoveTask, Clients, Runners
  <2>2. cid[c] \in completed
    BY <1>1, <2>1 DEF IInv, Calls, CallGetsItsResult, RemoveTask, Runners
  <2> QED  BY <1>1, <2>2 DEF RemoveTask, Erased
<1>2. CASE Cleanup(c)
  BY <1>2 DEF Cleanup, Uncompleted
<1> QED  BY <1>1, <1>2

\* Taking the first of the queue.
LEMMA PopFacts ==
  ASSUME TypeOK, NEW w \in Pool, PopTask(w)
  PROVE  /\ queue # <<>> /\ Head(queue) = queue[1] /\ 1 \in 1 .. Len(queue) /\ queue[1] \in Task
         /\ Len(queue') = Len(queue) - 1
         /\ \A i \in 1 .. Len(queue') : i + 1 \in 1 .. Len(queue) /\ queue'[i] = queue[i + 1]
         /\ \A i \in 1 .. Len(queue) : i = 1 \/ (i - 1 \in 1 .. Len(queue') /\ queue'[i - 1] = queue[i])
BY DEF PopTask, FrontPopped, TypeOK

\* What is popped is registered: no pool thread finds an id without a task.
LEMMA PopFinds ==
  ASSUME IInv, NEW w \in Pool, PopTask(w)
  PROVE  /\ queue[1] \in tasks /\ queue[1] \notin completed /\ \A v \in Pool : wtask[v] # queue[1]
         /\ wtask' = [wtask EXCEPT ![w] = queue[1]] /\ wpc' = [wpc EXCEPT ![w] = "run"]
         /\ wpc[w] = "lock" /\ wtask[w] = NoTask
         /\ UNCHANGED <<tasks, completed, nextId, cid>>
<1>1. queue[1] \in tasks /\ queue[1] \notin completed /\ \A v \in Pool : wtask[v] # queue[1]
  BY PopFacts DEF IInv, QueueFresh
<1>2. Head(queue) = queue[1]
  BY PopFacts DEF IInv
<1> QED  BY <1>1, <1>2 DEF IInv, HandsFresh, PopTask, WorkerGoto, clientVars

LEMMA SubmitFacts ==
  ASSUME IInv, NEW c \in Clients, Submit(c)
  PROVE  /\ nextId \in Task /\ tasks' = tasks \union {nextId}
         /\ Len(queue') = Len(queue) + 1 /\ queue'[Len(queue) + 1] = nextId
         /\ \A i \in 1 .. Len(queue) : queue'[i] = queue[i] /\ queue[i] # nextId
         /\ Len(queue) \in Nat
         /\ nextId \notin tasks /\ nextId \notin completed /\ \A w \in Pool : wtask[w] # nextId
         /\ \A d \in Clients : cid[d] # nextId /\ cid'[d] = IF d = c THEN nextId ELSE cid[d]
         /\ UNCHANGED <<completed, wtask, wpc, main>>
<1>1. nextId \in Task /\ tasks' = tasks \union {nextId} /\ queue' = Append(queue, nextId)
      /\ UNCHANGED <<completed, wtask, wpc, main>> /\ cid' = [cid EXCEPT ![c] = nextId]
  BY PoolAssumption DEF IInv, Submit, TypeOK, Task, workerVars, lifeVars
<1>2. /\ Len(queue') = Len(queue) + 1 /\ queue'[Len(queue) + 1] = nextId
      /\ Len(queue) \in Nat /\ \A i \in 1 .. Len(queue) : queue'[i] = queue[i]
  BY <1>1 DEF IInv, TypeOK
<1>3. \A i \in 1 .. Len(queue) : queue[i] # nextId
  BY <1>1 DEF IInv, Ids, Task
<1>4. nextId \notin tasks /\ nextId \notin completed
  BY <1>1 DEF IInv, Ids, Task
<1>5. \A w \in Pool : wtask[w] # nextId
  BY <1>1 DEF IInv, Ids, Task
<1>6. \A d \in Clients : cid[d] # nextId /\ cid'[d] = IF d = c THEN nextId ELSE cid[d]
  BY <1>1 DEF IInv, TypeOK, Ids, Task
<1> QED  BY <1>1, <1>2, <1>3, <1>4, <1>5, <1>6

LEMMA QueueKept ==
  ASSUME IInv, Next
  PROVE  QueueFresh'
<1> QueueFresh /\ TypeOK
  BY DEF IInv
<1>1. ASSUME NEW c \in Clients, Submit(c) PROVE QueueFresh'
  <2>1. \A i, j \in 1 .. Len(queue') : queue'[i] = queue'[j] => i = j
    BY <1>1, SubmitFacts DEF QueueFresh
  <2>2. \A i \in 1 .. Len(queue') : queue'[i] \in tasks' /\ queue'[i] \notin completed'
    BY <1>1, SubmitFacts DEF QueueFresh
  <2>3. \A i \in 1 .. Len(queue'), w \in Pool : wtask'[w] # queue'[i]
    BY <1>1, SubmitFacts DEF QueueFresh
  <2> QED  BY <2>1, <2>2, <2>3 DEF QueueFresh
<1>2. ASSUME NEW c \in Clients, RemoveTask(c) \/ Cleanup(c) PROVE QueueFresh'
  <2>1. UNCHANGED <<queue, completed, wtask>>
    BY <1>2 DEF RemoveTask, Cleanup, workerVars
  <2> QED  BY <1>2, <2>1, OnlyDoneGoes DEF QueueFresh
<1>3. ASSUME NEW w \in Pool, PopTask(w) PROVE QueueFresh'
  <2>1. \A i \in 1 .. Len(queue') : queue'[i] # queue[1]
    BY <1>3, PopFacts DEF QueueFresh
  <2>2. \A v \in Pool : wtask'[v] = IF v = w THEN queue[1] ELSE wtask[v]
    BY <1>3, PopFinds DEF TypeOK
  <2>3. UNCHANGED <<tasks, completed>>
    BY <1>3, PopFinds
  <2>4. \A i \in 1 .. Len(queue') : queue'[i] \in tasks /\ queue'[i] \notin completed
    BY <1>3, PopFacts DEF QueueFresh
  <2>5. \A i \in 1 .. Len(queue'), v \in Pool : wtask'[v] # queue'[i]
    BY <1>3, <2>1, <2>2, PopFacts DEF QueueFresh
  <2>6. \A i, j \in 1 .. Len(queue') : queue'[i] = queue'[j] => i = j
    BY <1>3, PopFacts DEF QueueFresh
  <2> QED  BY <2>3, <2>4, <2>5, <2>6 DEF QueueFresh
<1>4. ASSUME NEW w \in Pool, RunTask(w) PROVE QueueFresh'
  <2>1. /\ UNCHANGED <<tasks, queue>> /\ completed' = completed \union {wtask[w]}
        /\ \A v \in Pool : wtask'[v] = wtask[v] \/ wtask'[v] = NoTask
    BY <1>4 DEF RunTask, TypeOK
  <2>2. \A i \in 1 .. Len(queue) : queue[i] # NoTask /\ queue[i] # wtask[w]
    BY DEF QueueFresh, TypeOK, Task, NoTask
  <2> QED  BY <2>1, <2>2 DEF QueueFresh
<1>5. CASE JoinPool
  BY <1>5 DEF JoinPool, QueueFresh
<1>6. CASE UNCHANGED idVars
  BY <1>6 DEF idVars, QueueFresh
<1> QED  BY <1>1, <1>2, <1>3, <1>4, <1>5, <1>6, IdsMove

LEMMA HandsKept ==
  ASSUME IInv, Next
  PROVE  HandsFresh'
<1> HandsFresh /\ TypeOK
  BY DEF IInv
<1>1. ASSUME NEW c \in Clients, Submit(c) \/ RemoveTask(c) \/ Cleanup(c) \/ Moves(c) PROVE HandsFresh'
  <2>1. UNCHANGED <<completed, wpc, wtask>>
    BY <1>1 DEF Submit, RemoveTask, Cleanup, Moves, CheckPool, Lookup, LookupMissing, GetResult,
                GetTimeout, Ask, LoopExit, workerVars
  <2> QED  BY <2>1 DEF HandsFresh
<1>2. ASSUME NEW c \in Clients, StartPool(c) \/ NotifyOne(c) PROVE HandsFresh'
  <2>1. UNCHANGED <<completed, wtask>>
    BY <1>2 DEF StartPool, NotifyOne
  <2>2. \A w \in Pool : wpc'[w] = "run" <=> wpc[w] = "run"
    <3>1. CASE StartPool(c)
      <4>1. c \in Clients /\ ~Quiet(c)
        BY <3>1 DEF StartPool, Quiet
      <4>2. poolUp \/ \A w \in Pool : wpc[w] = "off"
        BY <4>1 DEF IInv, Life
      <4> QED  BY <3>1, <4>2 DEF StartPool, StartWorkers
    <3>2. CASE NotifyOne(c)
      BY <3>2 DEF NotifyOne, Waiting, TypeOK
    <3> QED  BY <1>2, <3>1, <3>2
  <2> QED  BY <2>1, <2>2 DEF HandsFresh
<1>3. ASSUME NEW w \in Pool, Turns(w) \/ DecideToWait(w) \/ Wait(w) PROVE HandsFresh'
  <2>1. UNCHANGED <<completed, wtask>>
    BY <1>3 DEF Turns, LoopTest, PopNothing, SpuriousWake, DecideToWait, Wait
  <2>2. \A v \in Pool : wpc'[v] = "run" <=> wpc[v] = "run"
    BY <1>3 DEF Turns, LoopTest, PopNothing, SpuriousWake, DecideToWait, Wait, WorkerGoto, TypeOK
  <2> QED  BY <2>1, <2>2 DEF HandsFresh
<1>4. ASSUME NEW w \in Pool, PopTask(w) PROVE HandsFresh'
  <2>1. queue[1] # NoTask
    BY <1>4, PopFacts DEF Task, NoTask
  <2>2. \A v \in Pool : wtask'[v] = (IF v = w THEN queue[1] ELSE wtask[v])
                        /\ wpc'[v] = (IF v = w THEN "run" ELSE wpc[v])
    BY <1>4, PopFinds DEF TypeOK
  <2>3. completed' = completed /\ queue[1] \notin completed /\ \A v \in Pool : wtask[v] # queue[1]
    BY <1>4, PopFinds
  <2> QED  BY <2>1, <2>2, <2>3 DEF HandsFresh
<1>5. ASSUME NEW w \in Pool, RunTask(w) PROVE HandsFresh'
  <2>1. \A v \in Pool : wtask'[v] = (IF v = w THEN NoTask ELSE wtask[v])
                        /\ wpc'[v] = (IF v = w THEN "top" ELSE wpc[v])
    BY <1>5 DEF RunTask, WorkerGoto, TypeOK
  <2>2. completed' = completed \union {wtask[w]} /\ wpc[w] = "run" /\ wtask[w] # NoTask
    BY <1>5 DEF RunTask, HandsFresh
  <2>3. NoTask \notin completed
    BY DEF TypeOK, Task, NoTask
  <2> QED  BY <2>1, <2>2, <2>3 DEF HandsFresh
<1>6. CASE MainStep
  <2>1. UNCHANGED <<completed, wtask>>
    BY <1>6 DEF MainStep, StopStep, Start, StartWorkerPool, CloseCallers, StopRunning, StopPool, NotifyAll,
                JoinPool, Destroy, workerVars
  <2>2. \A w \in Pool : wpc'[w] = "run" <=> wpc[w] = "run"
    <3>1. CASE StartWorkerPool
      <4>1. poolUp \/ \A w \in Pool : wpc[w] = "off"
        BY <3>1 DEF IInv, Life, StartWorkerPool, MainGoto
      <4> QED  BY <3>1, <4>1 DEF StartWorkerPool, StartWorkers
    <3>2. CASE NotifyAll
      BY <3>2 DEF NotifyAll, Waiting
    <3>3. CASE JoinPool
      BY <3>3 DEF JoinPool
    <3>4. CASE Start \/ CloseCallers \/ StopRunning \/ StopPool \/ Destroy
      BY <3>4 DEF Start, CloseCallers, StopRunning, StopPool, Destroy, workerVars
    <3> QED  BY <1>6, <3>1, <3>2, <3>3, <3>4 DEF MainStep, StopStep
  <2> QED  BY <2>1, <2>2 DEF HandsFresh
<1>7. CASE Finished
  BY <1>7 DEF Finished, vars, workerVars, HandsFresh
<1> QED  BY <1>1, <1>2, <1>3, <1>4, <1>5, <1>6, <1>7 DEF Next, ClientStep, WorkerStep, Moves, Turns

\* A stopped service stays stopped.
LEMMA StoppedStays ==
  ASSUME IInv, Next, main \in {"stopped", "destroyed"}
  PROVE  main' \in {"stopped", "destroyed"}
<1>1. CASE main' = main
  BY <1>1
<1>2. CASE MainStep
  BY <1>2 DEF MainStep, StopStep, Start, StartWorkerPool, CloseCallers, StopRunning, StopPool, NotifyAll,
              JoinPool, Destroy, MainGoto
<1>3. ASSUME NEW c \in Clients, Submit(c) \/ ClientStep(c) \/ GetTimeout(c) \/ Ask(c) \/ Cleanup(c)
      PROVE  main' = main
  BY <1>3 DEF Submit, ClientStep, CheckPool, StartPool, NotifyOne, Lookup, LookupMissing, GetResult,
              RemoveTask, LoopExit, GetTimeout, Ask, Cleanup, lifeVars
<1>4. ASSUME NEW w \in Pool, WorkerStep(w) \/ SpuriousWake(w) PROVE main' = main
  BY <1>4 DEF WorkerStep, LoopTest, PopTask, PopNothing, DecideToWait, Wait, RunTask, SpuriousWake, lifeVars
<1> QED  BY <1>1, <1>2, <1>3, <1>4 DEF Next, Finished, vars, lifeVars

LEMMA SomewhereKept ==
  ASSUME IInv, Next
  PROVE  Somewhere'
<1> Somewhere /\ TypeOK
  BY DEF IInv
<1> DEFINE Cleared(t) == main \in {"stopped", "destroyed"} /\ \A c \in Runners : cid[c] # t
<1>1. ASSUME NEW c \in Clients, Submit(c) PROVE Somewhere'
  <2>1. /\ Len(queue') = Len(queue) + 1 /\ queue'[Len(queue) + 1] = nextId /\ Len(queue) \in Nat
        /\ \A i \in 1 .. Len(queue) : i \in 1 .. Len(queue') /\ queue'[i] = queue[i]
        /\ tasks' = tasks \union {nextId}
        /\ UNCHANGED <<completed, wtask, main>>
        /\ \A d \in Clients : cid'[d] = nextId \/ cid'[d] = cid[d]
    BY <1>1, SubmitFacts
  <2>2. ASSUME NEW t \in tasks, t # nextId
        PROVE  \/ \E i \in 1 .. Len(queue') : queue'[i] = t
               \/ \E w \in Pool : wtask'[w] = t
               \/ t \in completed'
               \/ Cleared(t)'
    BY <2>1, <2>2 DEF Somewhere, Runners, Clients
  <2>3. \E i \in 1 .. Len(queue') : queue'[i] = nextId
    BY <2>1
  <2> QED  BY <2>1, <2>2, <2>3 DEF Somewhere
<1>2. ASSUME NEW c \in Clients, RemoveTask(c) \/ Cleanup(c) PROVE Somewhere'
  <2>1. UNCHANGED <<queue, completed, wtask, cid, main>>
    BY <1>2 DEF RemoveTask, Cleanup, workerVars, lifeVars, clientVars
  <2> QED  BY <1>2, <2>1, OnlyDoneGoes DEF Somewhere
<1>3. ASSUME NEW w \in Pool, PopTask(w) PROVE Somewhere'
  <2>1. /\ UNCHANGED <<tasks, completed, cid, main>>
        /\ wtask[w] = NoTask /\ \A v \in Pool : wtask'[v] = IF v = w THEN queue[1] ELSE wtask[v]
    BY <1>3, PopFinds DEF TypeOK, PopTask, lifeVars
  <2>2. ASSUME NEW t \in tasks
        PROVE  \/ \E i \in 1 .. Len(queue') : queue'[i] = t
               \/ \E v \in Pool : wtask'[v] = t
               \/ t \in completed'
               \/ Cleared(t)'
    <3>1. t # NoTask
      BY DEF TypeOK, Task, NoTask
    <3>2. CASE \E i \in 1 .. Len(queue) : queue[i] = t
      BY <1>3, <2>1, <3>2, PopFacts
    <3>3. CASE \E v \in Pool : wtask[v] = t
      BY <2>1, <3>1, <3>3
    <3>4. CASE t \in completed \/ Cleared(t)
      BY <2>1, <3>4
    <3> QED  BY <3>2, <3>3, <3>4 DEF Somewhere
  <2> QED  BY <2>1, <2>2 DEF Somewhere
<1>4. ASSUME NEW w \in Pool, RunTask(w) PROVE Somewhere'
  <2>1. /\ UNCHANGED <<tasks, queue, cid, main>> /\ completed' = completed \union {wtask[w]}
        /\ \A v \in Pool : v = w \/ wtask'[v] = wtask[v]
    BY <1>4 DEF RunTask, TypeOK, lifeVars, clientVars
  <2> QED  BY <2>1 DEF Somewhere
<1>5. CASE JoinPool
  <2>1. UNCHANGED <<tasks, completed, wtask, cid>> /\ main' = "stopped" /\ main = "joinPool"
    BY <1>5 DEF JoinPool, MainGoto, clientVars
  <2>2. \A c \in Runners : cid[c] \notin tasks
    BY <2>1 DEF IInv, Life, Calls, EntriesLastTheirTask, Quiet, Runners, Clients
  <2> QED  BY <2>1, <2>2 DEF Somewhere
<1>6. CASE UNCHANGED idVars
  <2>1. main \in {"stopped", "destroyed"} => main' \in {"stopped", "destroyed"}
    BY StoppedStays
  <2> QED  BY <1>6, <2>1 DEF idVars, Somewhere
<1> QED  BY <1>1, <1>2, <1>3, <1>4, <1>5, <1>6, IdsMove

LEMMA MutexKept ==
  ASSUME IInv, Next
  PROVE  Mutex'
<1> Mutex /\ TypeOK
  BY DEF IInv
<1> USE PoolAssumption DEF MutexFree
<1>1. ASSUME NEW c \in Clients, Submit(c) \/ RemoveTask(c) \/ Cleanup(c) \/ Moves(c) PROVE Mutex'
  <2>1. UNCHANGED <<holder, wpc>> /\ (queue' = queue \/ holder = NoThread)
    BY <1>1 DEF Submit, RemoveTask, Cleanup, Moves, CheckPool, Lookup, LookupMissing, GetResult,
                GetTimeout, Ask, LoopExit, workerVars
  <2> QED  BY <2>1 DEF Mutex
<1>2. ASSUME NEW c \in Clients, StartPool(c) \/ NotifyOne(c) PROVE Mutex'
  <2>1. UNCHANGED <<holder, queue>>
    BY <1>2 DEF StartPool, NotifyOne
  <2>2. \A w \in Pool : wpc'[w] = "deciding" <=> wpc[w] = "deciding"
    <3>1. CASE StartPool(c)
      <4>1. c \in Clients /\ ~Quiet(c)
        BY <3>1 DEF StartPool, Quiet
      <4>2. poolUp \/ \A w \in Pool : wpc[w] = "off"
        BY <4>1 DEF IInv, Life
      <4> QED  BY <3>1, <4>2 DEF StartPool, StartWorkers
    <3>2. CASE NotifyOne(c)
      BY <3>2 DEF NotifyOne, Waiting, TypeOK
    <3> QED  BY <1>2, <3>1, <3>2
  <2> QED  BY <2>1, <2>2 DEF Mutex
<1>3. ASSUME NEW w \in Pool, Turns(w) \/ RunTask(w) \/ PopTask(w) PROVE Mutex'
  <2>1. holder' = holder /\ (queue' = queue \/ holder = NoThread)
    BY <1>3 DEF Turns, LoopTest, PopNothing, SpuriousWake, RunTask, PopTask
  <2>2. \A v \in Pool : wpc'[v] = "deciding" <=> wpc[v] = "deciding"
    BY <1>3 DEF Turns, LoopTest, PopNothing, SpuriousWake, RunTask, PopTask, WorkerGoto, TypeOK
  <2> QED  BY <2>1, <2>2 DEF Mutex
<1>4. ASSUME NEW w \in Pool, DecideToWait(w) PROVE Mutex'
  BY <1>4 DEF DecideToWait, WorkerGoto, Mutex, TypeOK
<1>5. ASSUME NEW w \in Pool, Wait(w) PROVE Mutex'
  BY <1>5 DEF Wait, WorkerGoto, Mutex, TypeOK
<1>6. CASE MainStep
  <2>1. holder' = holder /\ (queue' = queue \/ queue' = <<>>)
    BY <1>6 DEF MainStep, StopStep, Start, StartWorkerPool, CloseCallers, StopRunning, StopPool, NotifyAll,
                JoinPool, Destroy
  <2>2. \A w \in Pool : wpc'[w] = "deciding" <=> wpc[w] = "deciding"
    <3>1. CASE StartWorkerPool
      <4>1. poolUp \/ \A w \in Pool : wpc[w] = "off"
        BY <3>1 DEF IInv, Life, StartWorkerPool, MainGoto
      <4> QED  BY <3>1, <4>1 DEF StartWorkerPool, StartWorkers
    <3>2. CASE NotifyAll
      BY <3>2 DEF NotifyAll, Waiting
    <3>3. CASE JoinPool
      BY <3>3 DEF JoinPool
    <3>4. CASE Start \/ CloseCallers \/ StopRunning \/ StopPool \/ Destroy
      BY <3>4 DEF Start, CloseCallers, StopRunning, StopPool, Destroy, workerVars
    <3> QED  BY <1>6, <3>1, <3>2, <3>3, <3>4 DEF MainStep, StopStep
  <2> QED  BY <2>1, <2>2 DEF Mutex
<1>7. CASE Finished
  BY <1>7 DEF Finished, vars, workerVars, Mutex
<1> QED  BY <1>1, <1>2, <1>3, <1>4, <1>5, <1>6, <1>7 DEF Next, ClientStep, WorkerStep, Moves, Turns

\* While anybody sleeps on work, somebody is about to notify: the queue is
\* filled by one who will, and no thread is between its test and its sleep then.
LEMMA WakersKept ==
  ASSUME IInv, Next
  PROVE  NobodySleepsOnWork'
<1> NobodySleepsOnWork /\ TypeOK /\ Mutex
  BY DEF IInv
<1> USE PoolAssumption
<1> DEFINE Asleep == \A w \in Pool : wpc[w] \in {"deciding", "waiting"}
           Waker(c) == cpc[c] \in {"submitted", "starting", "notify"}
<1> SUFFICES ASSUME queue' # <<>>, poolUp', Asleep'
             PROVE  \E c \in Clients : Waker(c)'
  BY DEF NobodySleepsOnWork
<1>1. ASSUME NEW c \in Clients, Submit(c) PROVE Waker(c)'
  BY <1>1 DEF Submit, Goto, TypeOK
<1>2. ASSUME NEW c \in Clients, RemoveTask(c) \/ Cleanup(c) \/ Moves(c)
      PROVE  \E d \in Clients : Waker(d)'
  <2>1. UNCHANGED <<queue, poolUp, wpc>>
    BY <1>2 DEF RemoveTask, Cleanup, Moves, CheckPool, Lookup, LookupMissing, GetResult,
                GetTimeout, Ask, LoopExit, workerVars, lifeVars
  <2>2. PICK d \in Clients : Waker(d)
    BY <2>1 DEF NobodySleepsOnWork
  <2>3. Waker(d)'
    BY <1>2, <2>2 DEF RemoveTask, Cleanup, Moves, CheckPool, Lookup, LookupMissing, GetResult,
                      GetTimeout, Ask, LoopExit, Goto, TypeOK, clientVars
  <2> QED  BY <2>3
<1>3. ASSUME NEW c \in Clients, StartPool(c) PROVE Waker(c)'
  BY <1>3 DEF StartPool, Goto, TypeOK
<1>4. ASSUME NEW c \in Clients, NotifyOne(c) PROVE FALSE
  <2>1. CASE Waiting = {}
    <3>1. Asleep /\ queue # <<>>
      BY <1>4, <2>1 DEF NotifyOne
    <3>2. PICK w \in Pool : wpc[w] = "deciding"
      BY <2>1, <3>1 DEF Waiting
    <3> QED  BY <3>1, <3>2 DEF Mutex
  <2>2. CASE Waiting # {}
    BY <1>4, <2>2 DEF NotifyOne, Waiting, TypeOK
  <2> QED  BY <2>1, <2>2
<1>5. ASSUME NEW w \in Pool, WorkerStep(w) \/ SpuriousWake(w)
      PROVE  FALSE
  <2>1. CASE LoopTest(w) \/ PopTask(w) \/ PopNothing(w) \/ RunTask(w) \/ SpuriousWake(w)
    BY <2>1 DEF LoopTest, PopTask, PopNothing, RunTask, SpuriousWake, WorkerGoto, TypeOK
  <2>2. CASE DecideToWait(w)
    BY <2>2 DEF DecideToWait
  <2>3. CASE Wait(w)
    BY <2>3 DEF Wait, Mutex
  <2> QED  BY <1>5, <2>1, <2>2, <2>3 DEF WorkerStep
<1>6. CASE StartWorkerPool
  <2>1. poolUp
    BY <1>6 DEF StartWorkerPool, StartWorkers
  <2> QED  BY <1>6, <2>1 DEF StartWorkerPool, StartWorkers, NobodySleepsOnWork, clientVars
<1>7. CASE Start
  <2>1. FALSE
    BY <1>7 DEF Start, MainGoto, IInv, Life
  <2> QED  BY <2>1
<1>8. CASE CloseCallers \/ StopRunning \/ StopPool \/ Destroy
  BY <1>8 DEF CloseCallers, StopRunning, StopPool, Destroy, NobodySleepsOnWork, workerVars, clientVars
<1>9. CASE NotifyAll \/ JoinPool
  <2>1. FALSE
    BY <1>9 DEF NotifyAll, JoinPool, MainGoto, IInv, Life
  <2> QED  BY <2>1
<1>10. CASE Finished
  BY <1>10 DEF Finished, vars, lifeVars, workerVars, clientVars, NobodySleepsOnWork
<1> QED  BY <1>1, <1>2, <1>3, <1>4, <1>5, <1>6, <1>7, <1>8, <1>9, <1>10
         DEF Next, ClientStep, MainStep, StopStep, Moves

\* Positions of main change in main only, and poolUp only where it is set.
LEMMA LifeKept ==
  ASSUME IInv, Next
  PROVE  Life'
<1> Life /\ TypeOK
  BY DEF IInv
<1> USE PoolAssumption DEF Clients
<1>1. ASSUME NEW c \in Clients, Submit(c) \/ Ask(c) \/ Cleanup(c) PROVE Life'
  <2>1. /\ UNCHANGED <<running, poolUp, main, wpc>>
        /\ \A d \in Clients \ {c} : cpc'[d] = cpc[d]
        /\ IF c \in Loops THEN running ELSE main = "up"
    BY <1>1 DEF Submit, Ask, Cleanup, MayCall, Goto, lifeVars, workerVars, clientVars, TypeOK
  <2>2. main \in {"starting", "up", "closing"} /\ (main = "closing" => c \in Loops)
    BY <2>1 DEF Life
  <2> QED  BY <2>1, <2>2 DEF Life
<1>2. ASSUME NEW c \in Clients, LoopExit(c) PROVE Life'
  <2>1. /\ UNCHANGED <<running, poolUp, main, wpc>> /\ c \in Loops /\ main # "new"
        /\ cpc' = [cpc EXCEPT ![c] = "off"]
    BY <1>2 DEF LoopExit, Goto, lifeVars, workerVars, Life
  <2> QED  BY <2>1 DEF Life, Quiet, TypeOK
<1>3. ASSUME NEW c \in Clients, ClientStep(c) \/ GetTimeout(c), ~LoopExit(c) PROVE Life'
  <2>1. /\ UNCHANGED <<running, main>> /\ \A d \in Clients \ {c} : cpc'[d] = cpc[d]
        /\ ~Quiet(c)
    BY <1>3 DEF ClientStep, CheckPool, StartPool, NotifyOne, Lookup, LookupMissing, GetResult, RemoveTask,
                GetTimeout, Goto, Quiet, lifeVars, TypeOK
  <2>2. main \in {"starting", "up", "closing", "joinLoops"} /\ (main \in {"closing", "joinLoops"} => c \in Loops)
    BY <2>1 DEF Life, Quiet, TypeOK, MainPc
  <2>3. poolUp' \/ main \in {"notifyAll", "joinPool"} \/ \A w \in Pool : wpc'[w] = "off"
    <3>1. CASE StartPool(c)
      BY <3>1 DEF StartPool, StartWorkers
    <3>2. CASE NotifyOne(c)
      BY <3>2 DEF NotifyOne, Waiting, Life, lifeVars
    <3>3. CASE UNCHANGED <<poolUp, wpc>>
      BY <3>3 DEF Life
    <3> QED  BY <1>3, <3>1, <3>2, <3>3
             DEF ClientStep, CheckPool, Lookup, LookupMissing, GetResult, RemoveTask, GetTimeout, lifeVars, workerVars
  <2> QED  BY <2>1, <2>2, <2>3 DEF Life
<1>4. ASSUME NEW w \in Pool, WorkerStep(w) \/ SpuriousWake(w) PROVE Life'
  <2>1. UNCHANGED <<running, poolUp, main, cpc>> /\ wpc[w] # "off"
    BY <1>4 DEF WorkerStep, LoopTest, PopTask, PopNothing, DecideToWait, Wait, RunTask, SpuriousWake,
                lifeVars, clientVars
  <2> QED  BY <2>1 DEF Life, Quiet
<1>5. CASE Start
  BY <1>5 DEF Start, MainGoto, workerVars, Life, Quiet
<1>6. CASE StartWorkerPool
  BY <1>6 DEF StartWorkerPool, StartWorkers, MainGoto, clientVars, Life, Quiet
<1>7. CASE CloseCallers \/ StopRunning
  BY <1>7 DEF CloseCallers, StopRunning, MainGoto, workerVars, clientVars, Life, Quiet
<1>8. CASE StopPool
  BY <1>8 DEF StopPool, MainGoto, workerVars, clientVars, Life, Quiet
<1>9. CASE NotifyAll
  BY <1>9 DEF NotifyAll, MainGoto, clientVars, Life, Quiet
<1>10. CASE JoinPool
  BY <1>10 DEF JoinPool, MainGoto, clientVars, Life, Quiet
<1>11. CASE Destroy
  BY <1>11 DEF Destroy, workerVars, clientVars, Life, Quiet
<1>12. CASE Finished
  BY <1>12 DEF Finished, vars, lifeVars, workerVars, clientVars, Life, Quiet
<1> QED  BY <1>1, <1>2, <1>3, <1>4, <1>5, <1>6, <1>7, <1>8, <1>9, <1>10, <1>11, <1>12
         DEF Next, ClientStep, MainStep, StopStep

\* The tasks of calls under way are registered, those of calls that are over
\* are not, and no entry goes before its task has run.
LEMMA CallsKept ==
  ASSUME IInv, Next
  PROVE  Calls'
<1> Calls /\ TypeOK /\ Ids
  BY DEF IInv
<1> USE PoolAssumption
<1> DEFINE InCall(c) == cpc[c] \in {"submitted", "starting", "notify", "lookup", "poll"}
           CallFits(c) == /\ InCall(c) => cid[c] \in tasks
                          /\ cpc[c] = "remove" => result[c] = cid[c] /\ cid[c] \in completed
                          /\ cpc[c] \in {"idle", "off"} => cid[c] \notin tasks
           Kept == \A t \in Task : t < nextId /\ t \notin completed => t \in tasks
<1>a. Calls <=> Kept /\ (\A c \in Runners : CallFits(c)) /\ \A c \in Testers : cpc[c] # "remove"
  BY DEF Calls, CallGetsItsResult, EntriesLastTheirTask, Runners
<1>b. Calls' <=> Kept' /\ (\A c \in Runners : CallFits(c)') /\ \A c \in Testers : cpc'[c] # "remove"
  BY DEF Calls, CallGetsItsResult, EntriesLastTheirTask, Runners
<1>c. Runners \subseteq Clients /\ Testers \subseteq Clients /\ Testers \intersect Runners = {}
  BY DEF Runners, Clients
<1> HIDE DEF Calls
<1>1. ASSUME NEW c \in Clients, Submit(c) PROVE Calls'
  <2>1. /\ tasks' = tasks \union {nextId} /\ nextId' = nextId + 1 /\ nextId \in Task
        /\ UNCHANGED <<completed, result>>
        /\ cid' = [cid EXCEPT ![c] = nextId] /\ cpc' = [cpc EXCEPT ![c] = "submitted"]
    BY <1>1 DEF Submit, Goto, Task, TypeOK
  <2>2. Kept'
    BY <1>a, <2>1 DEF Task, TypeOK
  <2>3. \A d \in Clients : cid[d] # nextId
    BY <1>1, SubmitFacts
  <2> QED  BY <1>a, <1>b, <1>c, <2>1, <2>2, <2>3 DEF TypeOK
<1>2. ASSUME NEW c \in Clients, RemoveTask(c) PROVE Calls'
  <2>1. /\ tasks' = tasks \ {cid[c]} /\ cpc[c] = "remove" /\ cpc' = [cpc EXCEPT ![c] = "idle"]
        /\ UNCHANGED <<completed, nextId, cid, result>>
    BY <1>2 DEF RemoveTask, Erased, Goto, workerVars
  <2>2. c \in Runners /\ cid[c] \in completed /\ cid[c] \in Task
    BY <1>a, <2>1 DEF Runners, Clients, TypeOK
  <2>3. \A d \in Clients : d # c => cid[d] # cid[c]
    BY <2>2 DEF Ids, Task, NoTask
  <2>4. \A d \in Runners : CallFits(d)'
    BY <1>a, <1>c, <2>1, <2>3 DEF TypeOK
  <2> QED  BY <1>a, <1>b, <1>c, <2>1, <2>2, <2>4 DEF TypeOK
<1>3. ASSUME NEW c \in Clients, Cleanup(c) PROVE Calls'
  <2>1. /\ tasks' = tasks \ completed /\ \A d \in Runners : cpc[d] \in {"idle", "off"}
        /\ UNCHANGED <<completed, nextId, cid, result, cpc>>
    BY <1>3 DEF Cleanup, Uncompleted, Runners, clientVars
  <2> QED  BY <1>a, <1>b, <2>1
<1>4. ASSUME NEW c \in Clients, CheckPool(c) \/ StartPool(c) \/ NotifyOne(c) \/ Lookup(c) PROVE Calls'
  <2>1. /\ UNCHANGED <<tasks, completed, nextId, cid, result>> /\ InCall(c)
        /\ \E pc \in {"starting", "notify", "lookup", "poll"} : cpc' = [cpc EXCEPT ![c] = pc]
    BY <1>4 DEF CheckPool, StartPool, NotifyOne, Lookup, Goto
  <2> QED  BY <1>a, <1>b, <1>c, <2>1 DEF TypeOK
<1>5. ASSUME NEW c \in Clients, LookupMissing(c) PROVE Calls'
  <2>1. c \in Testers
    BY <1>5, <1>a DEF LookupMissing, Runners, Clients
  <2>2. UNCHANGED <<tasks, completed, nextId, cid>> /\ cpc' = [cpc EXCEPT ![c] = "idle"]
        /\ result' = [result EXCEPT ![c] = NoTask]
    BY <1>5, <2>1 DEF LookupMissing, Returned, Goto
  <2> QED  BY <1>a, <1>b, <1>c, <2>1, <2>2 DEF TypeOK
<1>6. ASSUME NEW c \in Clients, GetResult(c) PROVE Calls'
  <2>1. /\ UNCHANGED <<tasks, completed, nextId, cid>>
        /\ cpc' = [cpc EXCEPT ![c] = IF c \in Testers THEN "idle" ELSE "remove"]
        /\ result' = [result EXCEPT ![c] = cid[c]] /\ cid[c] \in completed
    BY <1>6 DEF GetResult, Ready, Calculated, Returned, Goto
  <2> QED  BY <1>a, <1>b, <1>c, <2>1 DEF TypeOK
<1>7. ASSUME NEW c \in Clients, GetTimeout(c) \/ Ask(c) PROVE Calls'
  <2>1. /\ c \in Testers /\ UNCHANGED <<tasks, completed, nextId, cid>>
        /\ \E pc \in {"idle", "lookup"} : cpc' = [cpc EXCEPT ![c] = pc]
        /\ \A d \in Clients \ {c} : result'[d] = result[d]
    BY <1>7 DEF GetTimeout, Ask, Goto, TypeOK
  <2> QED  BY <1>a, <1>b, <1>c, <2>1 DEF TypeOK
<1>8. ASSUME NEW c \in Clients, LoopExit(c) PROVE Calls'
  <2>1. /\ cpc[c] = "idle" /\ cpc' = [cpc EXCEPT ![c] = "off"]
        /\ UNCHANGED <<tasks, completed, nextId, cid, result>>
    BY <1>8 DEF LoopExit, Goto
  <2> QED  BY <1>a, <1>b, <1>c, <2>1 DEF TypeOK
<1>9. ASSUME NEW w \in Pool, WorkerStep(w) \/ SpuriousWake(w) PROVE Calls'
  <2>1. UNCHANGED <<tasks, nextId, cid, cpc, result>> /\ completed \subseteq completed'
    BY <1>9 DEF WorkerStep, LoopTest, PopTask, PopNothing, DecideToWait, Wait, RunTask, SpuriousWake, clientVars
  <2> QED  BY <1>a, <1>b, <2>1
<1>10. CASE MainStep
  <2>1. UNCHANGED <<tasks, completed, nextId, cid, result>>
    BY <1>10 DEF MainStep, StopStep, Start, StartWorkerPool, CloseCallers, StopRunning, StopPool, NotifyAll,
                 JoinPool, Destroy, clientVars
  <2>2. \A c \in Clients : cpc'[c] = cpc[c] \/ (cpc[c] = "off" /\ cpc'[c] = "idle")
    BY <1>10 DEF MainStep, StopStep, Start, StartWorkerPool, CloseCallers, StopRunning, StopPool, NotifyAll,
                 JoinPool, Destroy, MainGoto, IInv, Life, clientVars
  <2> QED  BY <1>a, <1>b, <1>c, <2>1, <2>2
<1>11. CASE Finished
  BY <1>11, <1>a, <1>b DEF Finished, vars, clientVars
<1> QED  BY <1>1, <1>2, <1>3, <1>4, <1>5, <1>6, <1>7, <1>8, <1>9, <1>10, <1>11 DEF Next, ClientStep

LEMMA NextKeeps == IInv /\ [Next]_vars => IInv'
<1> SUFFICES ASSUME IInv, [Next]_vars PROVE IInv'
  OBVIOUS
<1>1. CASE Next
  BY <1>1, TypeKept, IdsKept, QueueKept, HandsKept, SomewhereKept, MutexKept, WakersKept, LifeKept, CallsKept
     DEF IInv
<1>2. CASE UNCHANGED vars
  BY <1>2 DEF IInv, TypeOK, Ids, QueueFresh, HandsFresh, Somewhere, Mutex, NobodySleepsOnWork, Life, Calls,
              CallGetsItsResult, EntriesLastTheirTask, Quiet, vars, lifeVars, workerVars, clientVars
<1> QED  BY <1>1, <1>2
-----------------------------------------------------------------------------
\* The inductive invariant of the pool: ids given once, each task in one place,
\* the mutex and its waiters, main and the threads, and the calls.
THEOREM PoolKept == Spec => []IInv
<1>1. Init => IInv
  BY InitIInv
<1>2. IInv /\ [Next]_vars => IInv'
  BY NextKeeps
<1> QED  BY <1>1, <1>2, PTL DEF Spec

\* Types of the pool (pool_serves checks it on three tasks).
THEOREM TypeCorrect == Spec => []TypeOK
<1>1. IInv => TypeOK
  BY DEF IInv
<1> QED  BY <1>1, PoolKept, PTL

\* No task is lost or run twice by the pool threads, also while stop_workers
\* brings them down.
THEOREM TasksInOnePlace == Spec => []OnePlace
<1>1. IInv => OnePlace
  <2> SUFFICES ASSUME IInv PROVE OnePlace
    OBVIOUS
  <2>0. DOMAIN queue = 1 .. Len(queue)
    BY DEF IInv, TypeOK
  <2>1. \A i, j \in DOMAIN queue : i # j => queue[i] # queue[j]
    BY <2>0 DEF IInv, QueueFresh
  <2>2. ASSUME NEW t \in tasks
        PROVE  \/ Queued(t) \/ InHand(t) # {} \/ t \in completed
               \/ main \in {"stopped", "destroyed"} /\ \A c \in Loops \union Callers : cid[c] # t
    BY <2>0 DEF IInv, Somewhere, Queued, InHand, Runners
  <2>3. ASSUME NEW t \in Task
        PROVE  /\ Cardinality(InHand(t)) <= 1
               /\ Queued(t) => InHand(t) = {} /\ t \notin completed /\ t \in tasks
               /\ InHand(t) # {} => t \notin completed
    <3>1. t # NoTask
      BY PoolAssumption DEF Task, NoTask
    <3>2. Cardinality(InHand(t)) <= 1
      <4>1. CASE InHand(t) = {}
        BY <4>1, FS_EmptySet
      <4>2. CASE InHand(t) # {}
        <5>1. PICK w \in InHand(t) : TRUE
          BY <4>2
        <5>2. InHand(t) = {w}
          BY <3>1, <5>1 DEF IInv, HandsFresh, InHand
        <5> QED  BY <5>2, FS_Singleton
      <4> QED  BY <4>1, <4>2
    <3>3. Queued(t) => InHand(t) = {} /\ t \notin completed /\ t \in tasks
      BY <2>0 DEF IInv, QueueFresh, Queued, InHand
    <3>4. InHand(t) # {} => t \notin completed
      BY DEF IInv, HandsFresh, InHand
    <3> QED  BY <3>2, <3>3, <3>4
  <2> QED  BY <2>1, <2>2, <2>3 DEF OnePlace
<1> QED  BY <1>1, PoolKept, PTL

\* run_simulation returns the result of the task it submitted, where nobody calls
\* cleanup_completed_tasks beside it.
THEOREM CallsGetTheirResults == Spec => []CallGetsItsResult
<1>1. IInv => CallGetsItsResult
  BY DEF IInv, Calls
<1> QED  BY <1>1, PoolKept, PTL

\* tasks_ keeps an entry until its task has run and its call is over, and no
\* longer.
THEOREM EntriesStayAndGo == Spec => []EntriesLastTheirTask
<1>1. IInv => EntriesLastTheirTask
  BY DEF IInv, Calls
<1> QED  BY <1>1, PoolKept, PTL

\* No wakeup of a pool thread is lost while the pool serves.
THEOREM NoWakeupLost == Spec => []NobodySleepsOnWork
<1>1. IInv => NobodySleepsOnWork
  BY DEF IInv
<1> QED  BY <1>1, PoolKept, PTL
=============================================================================
