---------------------------- MODULE PlasticityPool ----------------------------
(***************************************************************************)
(* The task pool of ImpactSimulator (impact_simulator.cpp).                *)
(*                                                                         *)
(* Every simulation, from a worker_loop thread or from an HTTP handler, is *)
(* a task: run_simulation submits it, polls until a pool thread has run    *)
(* it, and removes it.  Pool threads sleep on task_cv_.  start and stop    *)
(* bring both groups of threads up and down, in the order of main.cpp:     *)
(* the HTTP server is closed first, then the simulator stops.              *)
(*                                                                         *)
(* One action per critical section of task_mutex_ or atomic access.  Only  *)
(* a pool thread between its predicate check and its wait holds the mutex  *)
(* across steps.                                                           *)
(***************************************************************************)
EXTENDS Naturals, Sequences, FiniteSets

CONSTANTS
  Loops,     \* worker_loop threads, started by start
  Callers,   \* threads that call run_simulation directly (HTTP handlers)
  Testers,   \* threads that use submit and get_task_result with a timeout
  Pool,      \* pool threads of one start_workers
  MaxTasks   \* bound of the model: tasks ever submitted

NoThread == "none"

ASSUME PoolAssumption ==
  /\ Pool # {} /\ NoThread \notin Pool
  /\ Loops \intersect Callers = {} /\ Testers \intersect (Loops \union Callers) = {}
  /\ MaxTasks \in Nat

Clients == Loops \union Callers \union Testers
Task == 1 .. MaxTasks
NoTask == 0       \* also the simulation_id of an empty SimulationResult

VARIABLES
  tasks,      \* keys of tasks_
  queue,      \* task_queue_
  completed,  \* ids of the tasks whose completed flag is set
  nextId,     \* next_task_id_
  holder,     \* pool thread that holds task_mutex_ across steps
  running,    \* running_
  poolUp,     \* workers_running_
  main,       \* where start, stop and the destructor stand
  wpc, wtask, \* pool threads: position and task in hand
  cpc, cid,   \* clients: position and task waited for
  result      \* clients: simulation_id of the last result returned

clientVars == <<cpc, cid, result>>
workerVars == <<wpc, wtask>>
lifeVars == <<running, poolUp, main>>
vars == <<tasks, queue, completed, nextId, holder, lifeVars, workerVars, clientVars>>

FirstIdZero == 0   \* mutant: the id of no task is given to the first one
FirstId == 1

Init ==
  /\ tasks = {} /\ queue = <<>> /\ completed = {} /\ nextId = FirstId
  /\ holder = NoThread
  /\ running = FALSE /\ poolUp = FALSE
  /\ main = "new"
  /\ wpc = [w \in Pool |-> "off"]
  /\ wtask = [w \in Pool |-> NoTask]
  /\ cpc = [c \in Clients |-> IF c \in Loops THEN "off" ELSE "idle"]
  /\ cid = [c \in Clients |-> NoTask]
  /\ result = [c \in Clients |-> NoTask]
-----------------------------------------------------------------------------
MutexIgnored == TRUE   \* mutant: submit without task_mutex_
MutexFree == holder = NoThread

Goto(c, pc) == cpc' = [cpc EXCEPT ![c] = pc]

MayCall(c) == IF c \in Loops THEN running ELSE main = "up"

\* submit_plasticity_task, its critical section: register and enqueue.  The
\* id is drawn just before, from an atomic counter; it is taken with it here,
\* since ids are only ever compared for equality.
Submit(c) ==
  /\ cpc[c] = "idle" /\ MayCall(c)
  /\ nextId <= MaxTasks
  /\ MutexFree
  /\ nextId' = nextId + 1
  /\ cid' = [cid EXCEPT ![c] = nextId]
  /\ tasks' = tasks \union {nextId}
  /\ queue' = Append(queue, nextId)
  /\ Goto(c, "submitted")
  /\ UNCHANGED <<completed, holder, lifeVars, workerVars, result>>

\* submit_plasticity_task reads workers_running_.
CheckPool(c) ==
  /\ cpc[c] = "submitted"
  /\ Goto(c, IF poolUp THEN "notify" ELSE "starting")
  /\ UNCHANGED <<tasks, queue, completed, nextId, holder, lifeVars, workerVars, cid, result>>

\* start_workers: the exchange admits one caller, which spawns the threads.
StartWorkers ==
  IF poolUp
    THEN UNCHANGED <<poolUp, wpc>>
    ELSE poolUp' = TRUE /\ wpc' = [w \in Pool |-> "top"]

StartPool(c) ==
  /\ cpc[c] = "starting"
  /\ StartWorkers
  /\ Goto(c, "notify")
  /\ UNCHANGED <<tasks, queue, completed, nextId, holder, running, main, wtask, cid, result>>

Waiting == {w \in Pool : wpc[w] = "waiting"}

\* Mutant: submit does not notify.
NotifyNobody(c) ==
  /\ cpc[c] = "notify"
  /\ Goto(c, "lookup")
  /\ UNCHANGED <<tasks, queue, completed, nextId, holder, lifeVars, workerVars, cid, result>>

\* task_cv_.notify_one, outside the mutex; submit returns.
NotifyOne(c) ==
  /\ cpc[c] = "notify"
  /\ IF Waiting = {}
       THEN UNCHANGED wpc
       ELSE \E w \in Waiting : wpc' = [wpc EXCEPT ![w] = "lock"]
  /\ Goto(c, "lookup")
  /\ UNCHANGED <<tasks, queue, completed, nextId, holder, lifeVars, wtask, cid, result>>

\* get_task_result finds its task in tasks_.
Lookup(c) ==
  /\ cpc[c] = "lookup" /\ MutexFree
  /\ cid[c] \in tasks
  /\ Goto(c, "poll")
  /\ UNCHANGED <<tasks, queue, completed, nextId, holder, lifeVars, workerVars, cid, result>>

Returned(c) == IF c \in Testers THEN "idle" ELSE "remove"

\* get_task_result does not find it: an empty SimulationResult.
LookupMissing(c) ==
  /\ cpc[c] = "lookup" /\ MutexFree
  /\ cid[c] \notin tasks
  /\ result' = [result EXCEPT ![c] = NoTask]
  /\ Goto(c, Returned(c))
  /\ UNCHANGED <<tasks, queue, completed, nextId, holder, lifeVars, workerVars, cid>>

ReadyAtOnce(c) == TRUE   \* mutant: get_task_result does not wait
Ready(c) == cid[c] \in completed

\* run_plasticity_calc: of what it calculates, simulation_id is kept, which is
\* the id of its task.
Calculated(id) == id

\* The poll sees completed: the result is the task's.
GetResult(c) ==
  /\ cpc[c] = "poll"
  /\ Ready(c)
  /\ result' = [result EXCEPT ![c] = Calculated(cid[c])]
  /\ Goto(c, Returned(c))
  /\ UNCHANGED <<tasks, queue, completed, nextId, holder, lifeVars, workerVars, cid>>

\* The wait of a caller that gave a timeout runs out: an empty result.
GetTimeout(c) ==
  /\ c \in Testers
  /\ cpc[c] = "poll"
  /\ ~Ready(c)
  /\ result' = [result EXCEPT ![c] = NoTask]
  /\ Goto(c, "idle")
  /\ UNCHANGED <<tasks, queue, completed, nextId, holder, lifeVars, workerVars, cid>>

Erased(c) == tasks \ {cid[c]}

\* remove_task at the end of run_simulation.
RemoveTask(c) ==
  /\ cpc[c] = "remove" /\ MutexFree
  /\ tasks' = Erased(c)
  /\ Goto(c, "idle")
  /\ UNCHANGED <<queue, completed, nextId, holder, lifeVars, workerVars, cid, result>>

EraseAll == {}   \* mutant: the completed flag is not looked at
Uncompleted == tasks \ completed

\* cleanup_completed_tasks.  The code lets it run at any time; between submit
\* and lookup of a run_simulation it would erase the task that call asks for.
\* Only a test calls it, with no run_simulation beside it, hence the guard.
Cleanup(c) ==
  /\ c \in Testers
  /\ cpc[c] = "idle" /\ MayCall(c) /\ MutexFree
  /\ \A d \in Loops \union Callers : cpc[d] \in {"idle", "off"}
  /\ tasks' = Uncompleted
  /\ UNCHANGED <<queue, completed, nextId, holder, lifeVars, workerVars, clientVars>>

\* get_task_result once more for the last task, or at first for an unknown id.
Ask(c) ==
  /\ c \in Testers
  /\ cpc[c] = "idle" /\ MayCall(c)
  /\ Goto(c, "lookup")
  /\ UNCHANGED <<tasks, queue, completed, nextId, holder, lifeVars, workerVars, cid, result>>

\* worker_loop sees running_ false.
LoopExit(c) ==
  /\ c \in Loops
  /\ cpc[c] = "idle" /\ ~running
  /\ Goto(c, "off")
  /\ UNCHANGED <<tasks, queue, completed, nextId, holder, lifeVars, workerVars, cid, result>>

\* What a thread inside a call does next.
ClientStep(c) ==
  \/ CheckPool(c) \/ StartPool(c) \/ NotifyOne(c)
  \/ Lookup(c) \/ LookupMissing(c) \/ GetResult(c) \/ RemoveTask(c) \/ LoopExit(c)
-----------------------------------------------------------------------------
WorkerGoto(w, pc) == wpc' = [wpc EXCEPT ![w] = pc]

\* while (workers_running_.load())
LoopTest(w) ==
  /\ wpc[w] = "top"
  /\ WorkerGoto(w, IF poolUp THEN "lock" ELSE "exited")
  /\ UNCHANGED <<tasks, queue, completed, nextId, holder, lifeVars, wtask, clientVars>>

FrontStays == queue    \* mutant: front without pop_front
FrontPopped == Tail(queue)

\* pop_next_task, queue not empty: take the front and look it up.
PopTask(w) ==
  /\ wpc[w] = "lock" /\ MutexFree
  /\ queue # <<>>
  /\ queue' = FrontPopped
  /\ IF Head(queue) \in tasks
       THEN /\ WorkerGoto(w, "run")
            /\ wtask' = [wtask EXCEPT ![w] = Head(queue)]
       ELSE /\ WorkerGoto(w, "top")
            /\ UNCHANGED wtask
  /\ UNCHANGED <<tasks, completed, nextId, holder, lifeVars, clientVars>>

\* pop_next_task, pool stopped and queue empty: nullptr.
PopNothing(w) ==
  /\ wpc[w] = "lock" /\ MutexFree
  /\ queue = <<>> /\ ~poolUp
  /\ WorkerGoto(w, "top")
  /\ UNCHANGED <<tasks, queue, completed, nextId, holder, lifeVars, wtask, clientVars>>

\* The predicate is false.  The thread still holds the mutex but is not yet
\* among the waiters: workers_running_ may change under its feet.
DecideToWait(w) ==
  /\ wpc[w] = "lock" /\ MutexFree
  /\ queue = <<>> /\ poolUp
  /\ holder' = w
  /\ WorkerGoto(w, "deciding")
  /\ UNCHANGED <<tasks, queue, completed, nextId, lifeVars, wtask, clientVars>>

\* task_cv_.wait releases the mutex and sleeps, in one step.
Wait(w) ==
  /\ wpc[w] = "deciding"
  /\ holder' = NoThread
  /\ WorkerGoto(w, "waiting")
  /\ UNCHANGED <<tasks, queue, completed, nextId, lifeVars, wtask, clientVars>>

\* A wait may end without a notification.
SpuriousWake(w) ==
  /\ wpc[w] = "waiting"
  /\ WorkerGoto(w, "lock")
  /\ UNCHANGED <<tasks, queue, completed, nextId, holder, lifeVars, wtask, clientVars>>

\* run_plasticity_calc, then completed.store(true).  Nothing sets cancelled.
RunTask(w) ==
  /\ wpc[w] = "run"
  /\ completed' = completed \union {wtask[w]}
  /\ wtask' = [wtask EXCEPT ![w] = NoTask]
  /\ WorkerGoto(w, "top")
  /\ UNCHANGED <<tasks, queue, nextId, holder, lifeVars, clientVars>>

WorkerStep(w) ==
  LoopTest(w) \/ PopTask(w) \/ PopNothing(w) \/ DecideToWait(w) \/ Wait(w) \/ RunTask(w)
-----------------------------------------------------------------------------
MainGoto(from, to) == main = from /\ main' = to

\* start: running_.exchange(true), the worker_loop threads.
Start ==
  /\ MainGoto("new", "starting")
  /\ running' = TRUE
  /\ cpc' = [c \in Clients |-> IF c \in Loops THEN "idle" ELSE cpc[c]]
  /\ UNCHANGED <<tasks, queue, completed, nextId, holder, poolUp, workerVars, cid, result>>

\* start: start_workers.
StartWorkerPool ==
  /\ MainGoto("starting", "up")
  /\ StartWorkers
  /\ UNCHANGED <<tasks, queue, completed, nextId, holder, running, wtask, clientVars>>

\* main.cpp closes the HTTP server, whose thread is joined, before stop.
CloseCallers ==
  /\ MainGoto("up", "closing")
  /\ \A c \in Callers \union Testers : cpc[c] = "idle"
  /\ UNCHANGED <<tasks, queue, completed, nextId, holder, running, poolUp, workerVars, clientVars>>

\* stop: running_.exchange(false).
StopRunning ==
  /\ MainGoto("closing", "joinLoops")
  /\ running' = FALSE
  /\ UNCHANGED <<tasks, queue, completed, nextId, holder, poolUp, workerVars, clientVars>>

\* stop: join the worker_loop threads; stop_workers: exchange(false), with
\* task_mutex_ not held.
StopPool ==
  /\ MainGoto("joinLoops", "notifyAll")
  /\ \A c \in Loops : cpc[c] = "off"
  /\ poolUp' = FALSE
  /\ UNCHANGED <<tasks, queue, completed, nextId, holder, running, workerVars, clientVars>>

\* stop_workers: notify_all, with task_mutex_ not held.
NotifyAll ==
  /\ MainGoto("notifyAll", "joinPool")
  /\ wpc' = [w \in Pool |-> IF w \in Waiting THEN "lock" ELSE wpc[w]]
  /\ UNCHANGED <<tasks, queue, completed, nextId, holder, running, poolUp, wtask, clientVars>>

\* stop_workers: join the pool threads, clear the queue; stop returns.
JoinPool ==
  /\ MainGoto("joinPool", "stopped")
  /\ \A w \in Pool : wpc[w] = "exited"
  /\ wpc' = [w \in Pool |-> "off"]
  /\ queue' = <<>>
  /\ UNCHANGED <<tasks, completed, nextId, holder, running, poolUp, wtask, clientVars>>

\* ~ImpactSimulator: stop returns at once when running_ is false, then the
\* members are destroyed.
Destroy ==
  /\ main \in {"new", "stopped"}
  /\ \A c \in Clients : cpc[c] \in {"idle", "off"}
  /\ main' = "destroyed"
  /\ UNCHANGED <<tasks, queue, completed, nextId, holder, running, poolUp, workerVars, clientVars>>

StopStep == StopRunning \/ StopPool \/ NotifyAll \/ JoinPool

MainStep == Start \/ StartWorkerPool \/ CloseCallers \/ StopStep \/ Destroy

Finished == main = "destroyed" /\ UNCHANGED vars

Next ==
  \/ \E c \in Clients : Submit(c) \/ ClientStep(c) \/ GetTimeout(c) \/ Ask(c) \/ Cleanup(c)
  \/ \E w \in Pool : WorkerStep(w) \/ SpuriousWake(w)
  \/ MainStep
  \/ Finished

Spec == Init /\ [][Next]_vars

\* Threads that can run do run, and task_mutex_ does not starve a thread that
\* keeps trying to lock it (hence SF).  Nothing obliges a client to submit,
\* main to stop, or a wait to end spuriously.
Fairness ==
  /\ \A c \in Clients : SF_vars(ClientStep(c))
  /\ \A w \in Pool : SF_vars(WorkerStep(w))
  /\ WF_vars(StartWorkerPool)
  /\ WF_vars(StopStep)

FairSpec == Spec /\ Fairness
-----------------------------------------------------------------------------
ClientPc == {"off", "idle", "submitted", "starting", "notify", "lookup", "poll", "remove"}
WorkerPc == {"off", "top", "lock", "deciding", "waiting", "run", "exited"}
MainPc == {"new", "starting", "up", "closing", "joinLoops", "notifyAll", "joinPool",
           "stopped", "destroyed"}

\* Type invariant.
TypeOK ==
  /\ tasks \in SUBSET Task
  /\ queue \in Seq(Task)
  /\ completed \in SUBSET Task
  /\ nextId \in 1 .. MaxTasks + 1
  /\ holder \in Pool \union {NoThread}
  /\ running \in BOOLEAN /\ poolUp \in BOOLEAN
  /\ main \in MainPc
  /\ wpc \in [Pool -> WorkerPc]
  /\ wtask \in [Pool -> Task \union {NoTask}]
  /\ cpc \in [Clients -> ClientPc]
  /\ cid \in [Clients -> Task \union {NoTask}]
  /\ result \in [Clients -> Task \union {NoTask}]

Queued(t) == \E i \in DOMAIN queue : queue[i] = t
InHand(t) == {w \in Pool : wtask[w] = t}

\* A registered task is in exactly one place: waiting in task_queue_, in the
\* hand of one pool thread, or completed.  None is lost or run twice, even
\* while the pool is being stopped; what stop_workers clears from the queue is
\* only what no run_simulation is waiting for.
OnePlace ==
  /\ \A i, j \in DOMAIN queue : i # j => queue[i] # queue[j]
  /\ \A t \in tasks :
       \/ Queued(t) \/ InHand(t) # {} \/ t \in completed
       \/ main \in {"stopped", "destroyed"} /\ \A c \in Loops \union Callers : cid[c] # t
  /\ \A t \in Task :
       /\ Cardinality(InHand(t)) <= 1
       /\ Queued(t) => InHand(t) = {} /\ t \notin completed /\ t \in tasks
       /\ InHand(t) # {} => t \notin completed

\* run_simulation always returns the result of the task it submitted, never
\* the empty result: its task stays registered until it removes it itself.
CallGetsItsResult ==
  \A c \in Loops \union Callers :
    /\ cpc[c] \in {"submitted", "starting", "notify", "lookup", "poll"} => cid[c] \in tasks
    /\ cpc[c] = "remove" => result[c] = cid[c] /\ cid[c] \in completed

\* An entry of tasks_ goes neither too soon nor too late.  It goes only after
\* its task has run, whatever mix of run_simulation, timed-out waits and
\* cleanup_completed_tasks goes on, so that no pool thread pops an id it cannot
\* find; and it is gone when the run_simulation that made it returns, so that
\* tasks_ does not grow.
EntriesLastTheirTask ==
  /\ \A t \in Task : t < nextId /\ t \notin completed => t \in tasks
  /\ \A c \in Loops \union Callers : cpc[c] \in {"idle", "off"} => cid[c] \notin tasks

\* No wakeup is lost while the pool serves: work never lies in the queue with
\* every pool thread asleep, unless a submitter has yet to notify.
NobodySleepsOnWork ==
  queue # <<>> /\ poolUp /\ (\A w \in Pool : wpc[w] \in {"deciding", "waiting"}) =>
    \E c \in Clients : cpc[c] \in {"submitted", "starting", "notify"}

\* Every run_simulation returns, whenever stop is called.
EveryCallReturns ==
  \A c \in Loops \union Callers : cpc[c] = "submitted" ~> cpc[c] \in {"idle", "off"}

\* TearDown and StartStop_WorksCorrectly of tests/impact_simulator_test.cpp
\* rely on stop to return.
StopReturns == main = "closing" ~> main \in {"stopped", "destroyed"}
=============================================================================
