# The fenyun simulation service in TLA+

The repository is the back end of a "fenyun" (轒辒, a covered siege vehicle)
simulation: sensors post readings of rocks hitting a vehicle, a C++ service
simulates each impact, stores the result in ClickHouse, raises alarms over
MQTT, evaluates protection schemes, and runs interactive sessions.  These
modules model the C++ service under `src/backend`; `CMakeLists.txt` builds
`src/backend/src/main.cpp` and the component directories beside it.

1. [The system](#1-the-system)
2. [Plan](#2-plan)
3. [Modules](#3-modules)
4. [Runs](#4-runs)
5. [Fairness](#5-fairness)
6. [Proofs](#6-proofs)
7. [What the runs found](#7-what-the-runs-found)
8. [What is not modelled](#8-what-is-not-modelled)

## 1. The system

```
 HTTP thread ──DtuReceiver──► sensor_queue ──worker_loop ×N──► simulation_queue ──┬─ AlarmMqtt ──► MQTT
   │                                            │                                 └─ storage writer ─► ClickHouse
   │                                            ▼
   ├── run_simulation ───────────────► task pool (task_queue_, tasks_, pool threads)
   ├── ProtectionOptimizer ──► evaluation_queue ──► evaluation writer ──► ClickHouse
   ├── UserSessionManager, VRAssaultEngine ◄── session cleanup thread
   └── FormationOptimizer, VehicleComparator, EraComparator
```

`main` creates a `FenyunApplication`, which wires the components together, and
a `FenyunHttpServer`, which serves one client at a time in one thread.

| Component | State | Operations | Hard behaviour | What makes it correct |
|---|---|---|---|---|
| `LockFreeQueue` (`common/lockfree_queue.h`) | `data_`, `head_`, `tail_` | `push`, `pop` | two threads between the atomic accesses of one call | bounded FIFO; slots never raced for; accepted items delivered once |
| `ImpactSimulator` task pool | `tasks_`, `task_queue_`, flags, `task_mutex_`, `task_cv_`, pool threads | `submit_plasticity_task`, `get_task_result`, `remove_task`, `cleanup_completed_tasks`, `run_simulation`, `start`, `stop` | lost wakeups; stop racing with pool threads; pool started by a submit; polling callers | each call gets its own result; each task runs once; `tasks_` does not grow; every call and `stop` return |
| `FenyunApplication` (pipeline, start and stop) | the three queues, `running_`, writer threads, counters | `start`, `stop`, the writer loops | order of shutdown; two consumers of one queue; full queues | a reading is in one place; counters balance; nothing in hand is lost at stop |
| `DtuReceiver` | four counters | ingestion of JSON, batches and readings; parsing, defaults, ten rules | counted before or after it is queued; full queue; a body that was cut off | every reading is accounted for; what is queued was in the request |
| `AlarmMqtt` | worker thread, counters, MQTT handle | `worker_loop`, `check_and_alert`, `publish_alert` | competes with the storage writer; a thickness that results do not carry | every result over a threshold raises its alarms, and no lower one for a worse impact |
| `ClickHouseClient` | `sock_fd_`, `connected_` | `connect`, inserts, queries, `disconnect` | one socket for the writer and the HTTP thread, no lock; idle connections closed by the server; answers in pieces, at most a hundred reads | a request gets its own answer; every request returns |
| `FenyunHttpServer` | listening socket, thread, the client served | accept, read, answer, `start`, `stop`, the routes | requests in pieces; a client that stalls; `stop` closes the socket under `accept` | every request is answered; nothing runs after `stop`, and `stop` returns |
| `UserSessionManager` | three maps under one mutex, id counters | create, action, attack, tick, reset, cleanup | `has_session` and the operation are two critical sections; expiry between them | the maps agree; health and armour stay in range; reset restores the start |
| `VRAssaultEngine` | four maps under one mutex | start, action, tick, trigger, reset, end, cleanup | entries that no operation erases; result of an ended round | the maps agree; a result belongs to its round |
| `ProtectionOptimizer` | settings, cached experts, last weights | `evaluate_all`, worker | settings set twice, from route and evaluation, clamped in one place of two; four calls make one answer | scores, ratio, report and weights of an answer show one judgement |
| `FormationOptimizer`, `VehicleComparator`, `EraComparator` | nothing that outlives a call but counters | optimize, evaluate, compare, summarise | ties; the same score computed in two places | vehicles have places of their own; the best is best by every scoring; two summaries agree |
| `ConfigLoader`, `common/json.h` | the settings read at the start | `load_config`, `parse`, the getters | nothing is ever an error: what is missing is 0, an unknown name gets another's entry | what was loaded stands in the file; nothing made up is queued |
| metrics, logging, schema, front end, sensor script | — | — | — | not modelled, see section 8 |

The components meet in three ways: queues (`sensor_queue`, `simulation_queue`,
`evaluation_queue`), direct calls from the HTTP thread, and objects shared by
several threads (the pool, the ClickHouse client, the session maps).
`PROJECT.json` lists under `hazards` what can go wrong at each of these places,
with its line, and the property that watches it.

## 2. Plan

The order follows the way of a reading: the queue it travels through, the pool
that computes its result, the pipeline that joins them, then the interactive
components, then the algorithms.

| | Modules | Abstract specification | Theorems |
|---|---|---|---|
| done | `BoundedFifo`, `RingQueue`, `RingQueueProofs` | `BoundedFifo` | types, index validity, no slot race, FIFO order, refinement, one delivery |
| done | `PlasticityPool`, `PlasticityPoolProofs` | — | types, one place per task, own results, entries, wakeups |
| done | `SensorPipeline` over queues as `BoundedFifo` promises them, `SensorPipelineProofs` | `ReadingJourney` | types, one stage per reading, counters, stop, refinement |
| done | `ClickHouseLink`, `ClickHouseLinkProofs` (the writer and the HTTP thread on one socket) | — | types, own answers |
| done | `Vehicle`, `UserSessions`, `UserSessionsProofs` | — | types, maps, wear and way, answers, expiry |
| done | `VRAssault`, `VRAssaultProofs` | — | types, maps, results |
| done | `HttpServer` (accept, one client, `start` and `stop`), `HttpServerProofs` | — | types, whole requests, nothing after `stop` |
| done | `Json`, `Config`, `Intake`, `AlarmRules` (from text to queued reading and to alert) | — | types, the parser's end and result, what is read of a text that was cut off, what is queued of it, levels of alerts |
| done | `Evaluation` (`ProtectionOptimizer` and its routes: settings and cached experts from one request to the next) | — | types, one judgement per answer |
| done | `Formation` (places, candidates, search), `VehicleComparison` (scores, rankings, eras), `Selection`, composed by `Analysis`, with `AnalysisProofs` | — | types, best by both scorings, places and leads, rankings, both summaries |
| next | the cleanup thread's part of `stop`, joined to `HttpServer` and `UserSessions` | — | — |
| then | the routes that call `VehicleComparator` and `FormationOptimizer`, with their parsing of queries | — | — |

`SensorPipeline` composes the queues (as `BoundedFifo` promises them), the
receiver, the simulator's loops, the alarm thread, the writer and the link.  The
pool inside `run_simulation` is composed by argument: `PlasticityPool` shows
that a call returns the result of its own task while the service is up, which is
what the single step `Simulate` of `SensorPipeline`, and `Throw` of the two
session modules, assume.  `UserSessions` and `VRAssault` share `Vehicle`.

## 3. Modules

**`BoundedFifo`** is what a queue promises: an item offered is accepted at the
end of a sequence while there is room, refused otherwise; a pop takes the first.

**`RingQueue`** is the default build of `LockFreeQueue` (`USE_BOOST_LOCKFREE` is
off).  `head`, `tail` and `data` are the members; `ppc`, `ptail`, `pitem` and
`cpc`, `chead`, `chand` are the locals of each thread in `push` and `pop`.  Each
load, store and slot access is an action, so that `PushLoadTail`, `PushRefuse` or
`PushRoom`, `PushWrite`, `PushStoreTail` are the lines of `push` and their counterparts
those of `pop`.  `offered`, `accepted`, `refused` and `delivered` are history.
The release and acquire orders of the code make sequentially consistent atomics
a fair picture for one thread on each side: the slot written is seen with the
index that publishes it.

**`PlasticityPool`** is the task pool with its users.  One action is a critical
section of `task_mutex_`, an atomic access, or a call to the condition variable.
A pool thread that found the predicate of `task_cv_.wait` false holds the mutex
for one more step (`DecideToWait`, `Wait`): this is where a notification given without
the mutex gets lost.  Clients are of three kinds: `Loops` (the `worker_loop`
threads), `Callers` (HTTP handlers inside `run_simulation`) and `Testers` (the
library interface with timeouts, as the unit tests use it).  `main` walks
through `start` and `stop` in the order of `main.cpp`.
Clients call while the service is up; a pool that a submit brings up before
`start`, as in the unit tests, is left out (section 7).

**`SensorPipeline`** has one action per step of each thread between two places
where another thread can see a difference: taking from a queue, simulating,
pushing, counting.  `http`, `loop`, `alarm` and `writer` hold a thread's position
and the reading in its hand; the counters are those the service reports.
`Links` is what one request makes of the ClickHouse link: a dead socket may fail
on `send`, or take the data and end at once on `recv`; `SendKills` is the third
outcome, the signal `SIGPIPE` of a connection that was reset, which the service
does not handle.  `fate` is history: the
ends each reading has met.

**`ClickHouseLink`** is `send_http_request` with `connect` and `disconnect`, step
by step, for the threads that share one `ClickHouseClient`: `Writers` look at
`is_connected()` first and drop their result if it is false, `Askers` do not look.
`sock_fd` and `connected` are the members, `user[u]` the position and locals of a thread;
an action is the code between two points where the other thread or the server can make a
difference, so that one thread's failed `connect` closes the socket another has
just made (`Undo`), and each `recv` reads `sock_fd_` anew (`EnterRecv`).  Sockets
are numbered as they are made and belong to the environment: the server answers in
pieces, closes idle connections, fails; what is sent on a closed connection is taken
and comes back as a reset, the next send finds the reset out, and one after it kills the process.
An answer is `bare`, `sized` or `chunked`; `Complete` is how the code looks for its end.
`tainted` is history: connections made up to it may carry what belongs to an earlier request.

**`ReadingJourney`** is the abstract life of a reading: which stage may follow
which.  `SensorPipeline` implements it (`ImplementsJourney`) through the mapping
`Stage`.

**`Vehicle`** holds `UserVehicleState` and what both session components do to
it.  A blow of force `k` deals `5k` points of damage; armour takes up to four fifths
(`Absorbed`), and half of what it took is spared the health, so that health is
counted in half points and everything stays in integers.  The vehicle drives on
a line, and a vibration is there or not (`shaken`).

**`UserSessions`** is `UserSessionManager` with the HTTP thread and the cleanup
thread.  `sessions`, `states`, `recent` are its three maps; `sessions[s]` is the
time since `last_active_ms`, counted up to just past the timeout.  A request is three critical
sections, `has_session` (`Check`), the operation, and `get_vehicle_state`
(`Read`), and the cleanup may come between any two.  An attack keeps the mutex
while its rocks are simulated (`Throw`), during which time passes but nobody
gets in.  `dealt` and `quiet` are history: the damage since the last reset and
the time since the last operation; `WearAndWay` joins the books of a vehicle with
what the session was told to do.  The GET routes `/api/user/session/{id}/...` and
`/api/vr/session/...` compare `substr(0, 22)` and `substr(0, 20)` with literals
of 18 and 16 characters, so that no path reaches them; they have no action.
**`MCUserSessions`** adds a set of time steps with a negative one, which a
configuration file cannot write.

**`VRAssault`** is `VRAssaultEngine`, whose operations any thread may call; each
is one critical section, `tick` and `trigger_attack` with one step for each
rock.  `ended` is history.  `end_session` takes a round out of `sessions` and
`modes` only, expiry takes it out of all four maps.

**`HttpServer`** is `FenyunHttpServer` with the lines of `main` that start and
stop it.  `server` is the position of `accept_thread_` in `accept_loop` and
`handle_client`, `client` its `client_fd`, `reads` the loop counter of the at most
twenty reads, `got` how much of the request they brought.  A request is a number
of pieces of header and of body; a read takes any number of those that have
been sent, and the loop ends when the header is there and of the body as much as it
tells (`told`), when the client sends no more, or when the reads are used up.  `told` is the
number after the literal `Content-Length:` and nothing where the header does not have that text: with
the name in small letters, or a chunked body, `handle_client` leaves the loop with the header and takes what
came with it for the whole body.  A header that tells more than its client sends is a
client that stops in the middle.  `backlog`, `conn`, `request`, `sent` and `shut` belong to the system and
to the clients.  The modelled `close` is that of Linux, for which
`docker-compose.yml` builds the service: it does not wake a thread inside
`accept`, whose call keeps the socket alive and may still take a connection, and
whoever waits when the socket goes is reset.  A connection closed with
data unread may be reset although it was answered.  What a route does is
in the module of its component.
**`MCHttpServer`** adds the records of four requests: header only, header and
a body that is told, header and a body that is not, and a header of more pieces than there are reads.

**`VehicleComparison`** is `VehicleComparator` and `EraComparator`.  `absorbed` is
what the simulation makes of each vehicle, chosen once: one rock is thrown
at all of them, and `PlasticityPool` shows that a call gets the result of its own task.  A
ranking is any descending arrangement, because `std::sort` is not stable.
`EraCompareCrossEra` makes three comparisons and `EraCompareFull` one that it parts
by era, as the code does; `EraGap` has the factors of `calculate_era_gap` as fractions
and keeps the cases in which it divides by nothing.

**`Formation`** has the places of `create_vehicle_in_formation` for the six types (in
spacings and tenths of one) and the search of `optimize`: templates, random
draws that are not close to a candidate, and the choice of the first of the
best.  `Merit` is a parameter for the three formulas and their penalties.  The two
scorings, `optimize`'s own and `evaluate_formation`, resolve the terrain each in
its way (`Score`, `Evaluate`).

**`Evaluation`** is the settings and the cache of `ProtectionOptimizer` along
`POST /api/evaluate` and `GET /api/ahp/weights`, a step for each call the route
makes.  A *judgement* is where the weights of the criteria come from: the reference matrix,
or experts by the time they were drawn (`std::time` is their seed) and their
number.  The parts of an `answer` record the judgement they were computed from.

**`Json`** is `parse` and `Value` of `common/json.h` over tokens.  The parser has no
errors: where it does not know on it returns what it has.  Its three functions, which
call one another, are one recursive function over the function that is called and
the place in the text: no `RECURSIVE` operator, so that it can be reasoned about.
`Beginnings` are a text and everything it may have been cut down to, also within a
token, of a number after any of its digits (`Shorter`); `IsText` is what a text is, tokens whose numbers are integers.  `KeysOnce` says of a text that no
object in it gives a key twice; it is no part of the parser, which takes the last value, but what the theorem about
cut texts assumes of bodies (section 6).
**`Config`** is `ConfigLoader` on top of it: the settings the other modules use, the
two maps of materials filled side by side, criteria and matrix, vehicles with
what is guessed for them, and the conditions on which `load_config` succeeds.
**`Intake`** follows a request from its text to the sensor queue: both
ingesting routes, `parse_sensor_json` with its defaults, the ten rules of
`validate` in their order, and the reply.  Each text, of a file or of a body, comes whole or
cut off.  **`AlarmRules`** is what `worker_loop` of `AlarmMqtt` makes of a result:
thresholds from the settings, the thickness it makes up, levels and alerts.

**`Selection`** has what `OfEra` of `VehicleComparison` and `Intake`'s routes share:
the elements of a vector at chosen places, in their order.

**`Analysis`** composes `VehicleComparison`, `Formation`, `Evaluation` and
`Intake`; its constants are theirs.  They share no state and one thread
calls them, so a behaviour has requests for one of them only, its `subject`:
each component's own behaviours are all there, and the states add up instead
of multiplying.  **`MCAnalysis`** gives the constants for TLC: a fleet of four
vehicles, the four files, the bodies.  What is computed without state it checks as
assumptions over bounded inputs: `TextsKeysOnce` for the bodies and files, `PlacesDiffer` and `OneLead` for formations, `LevelsRise`,
`ThinRoofsUnwarned` and `NoSettingsNoBounds` for alarms.

**`RingQueueProofs`, `PlasticityPoolProofs`, `SensorPipelineProofs`, `ClickHouseLinkProofs`, `HttpServerProofs`,
`UserSessionsProofs`, `VRAssaultProofs`, `AnalysisProofs`** hold the proofs (section 6).

## 4. Runs

| Run | Shows |
|---|---|
| `ring_spsc` | one thread on each side, two-item ring, six items: FIFO order at every step inside both calls, no slot race, refinement of `BoundedFifo`, and delivery of each accepted item |
| `ring_two_consumers` | the header's promise for several threads fails (section 7) |
| `pool_serves` | a `worker_loop` thread and a thread that submits, waits with a timeout and cleans up, two pool threads, three tasks, start to stop: one place per task, each call its own result, an entry of `tasks_` lasts as long as its task and its call need it and no longer, no lost wakeup while the pool serves, and every `run_simulation` returns also when `stop` comes in between |
| `pool_stop_hangs` | section 7 |
| `pipeline_serves` | two loops, three readings, queues of one, a server that comes and goes, start to stop: one stage per reading, the counters balance, nothing in a hand is lost at stop, refinement of `ReadingJourney`; while the service is up each queued reading meets an end, whatever becomes of the ClickHouse link |
| `pipeline_stored_unchecked` | section 7 |
| `link` | the writer and the HTTP thread on one socket, four requests, two connections: a request gets nothing but its own answer, on a connection made after the last time that two requests were under way at once or one gave up reading; every request returns |
| `sessions` | two sessions, all operations with expiry between the critical sections of a request, three rocks: the maps agree, an answer shows the state its attack left, wear, damage and way agree, a session in use stays and an abandoned one goes |
| `http_serves` | two clients whose requests come whole, in pieces or never whole, start to stop: a body that is told is handled whole or because no more can come, one that is not told never before its header, nothing is left running or waiting after `stop`, every connection let in is answered or reset |
| `http_stop_hangs` | section 7 |
| `analysis` | four vehicles in all outcomes of the simulation, two optimizations, evaluations with four expert counts: both ways to compare eras agree, the best formation is best by both scorings, an answer shows one judgement; requests and configuration files read whole or cut off anywhere: nothing is queued that was not in the text or a default of the code |
| `assault` | two rounds in two modes, all operations, expiry: the maps nest, state and result tell the same story, a final result is right and stays |

**Bounds.**  `MaxItems`, `MaxTasks`, `MaxReadings`, `MaxSessions` and `MaxRocks`
bound only how much is ever put in.  A ring of two has three slots; six items
pass all of them twice, so that both indices wrap twice, and full, empty and the
single free slot occur at every position.  `MaxTasks` is more than the number of
client threads, so that all of them are inside a call at once and one comes
back.  In the pipeline, three readings with queues of one fill both queues and
every hand on the way: a reading can be dropped, shed, stored and checked in one
behaviour.  Queue capacities are 1 or 2 instead of 4096 (`system.json`) because
a full queue is the interesting state.  A vehicle of 14 points loses 8 points of armour and
6 of health (12 of 28 half points) to the first rock of force 2, the last
6 points of armour and the next 14 half points to the second, and what is left to the third:
armour that is whole, worn through in the middle of a blow, and gone, and health
that runs out.  Seven rocks bring a round past five impacts into the second wave
of `SURVIVAL`, whose ticks throw two.  `IdleTimeout` of 0 and 1 with time counted
one past it tells expired, just not expired and fresh apart.  One speed and one force are
enough for sums that are linear in them; `sessions` drives back and forth.
Two reads stand for the hundred of an answer from ClickHouse, whose three pieces may
take one more; two sockets are one that goes and one made after it, and four requests
let two threads connect at once and ask again afterwards.
Two reads stand for twenty and a backlog of one for 32: a request of three
pieces needs more reads than there are, one of one or two pieces need not, and the
second client finds the backlog full.  Five comparisons let both era summaries
(three runs and one) meet with one to spare; the percentages 0, 50 and 100 tie vehicles and tell them
apart.  Eight candidates are the code's number, two of them drawn; two
optimizations let a second request follow the first.  The expert counts lie below one, at
one, inside and above the range 1 to 10, and three seconds pass between the four calls of an answer.
The range of a `vehicle_id` is 2048 instead of 2^32: a number past it comes back in as another vehicle's.
The code's own counters are 64 bits wide and cannot wrap in the life of a process.

## 5. Fairness

- *Ring*: a thread inside `push` goes on (weak fairness), and consumers poll in
  a loop for ever; no producer has to offer anything.
- *Pool*: a thread that can run does run.  It is strong fairness because
  `task_mutex_` is taken and released by others in between: a mutex that lets
  one contender fail for ever is not what the code counts on, and the holder
  never keeps it.  Spurious wakeups, timeouts, submissions and the call of `stop`
  are not fair.
- *Pipeline*: weak fairness of each thread and of the steps of `stop`, no fairness of
  clients, of the ClickHouse server, or of the operator.  `EveryReadingEnds` needs no
  server: a result nobody can store is discarded, which is an end.  A server that goes
  away closes its connections: one that falls silent would hold `recv`, which has no
  timeout, and the writer with it.
- *Link*: threads go on, the server answers what it has received and closes connections
  without requests (weak fairness of each).  It must: `recv` has no timeout, and a thread
  left reading by the other's taking its answer waits for the server to hang up.
- *Sessions*: the HTTP thread goes on with the request it has begun and the clock
  goes on (weak fairness); the cleanup thread gets the mutex in the end (strong
  fairness, because requests hold it in between).  No client has to ask anything.
- *HTTP server*: the thread goes on and so do the steps of `stop` (weak fairness).
  `accept` may fail for one connection, again and again but not for ever (strong fairness of `Accept`).  A
  connected client sends its request or stops sending: the code sets no
  timeout on a connection, so that a client which does neither keeps all others waiting.
- *VR rounds and analysis*: no liveness is stated, since nothing there waits.

## 6. Proofs

`RingQueueProofs` holds for every capacity, every number of items, and, for the
types, every number of threads.  The only assumption on the constants is
`RingAssumption` (a positive capacity, naturals, finite sets of threads); the
theorems about order assume `OneProducerOneConsumer`.

1. `TypeCorrect`: `[]TypeOK`, inductive as it stands.
2. `IndicesStayValid`: `[]LoadedIndexStaysValid`.  This is the strengthening
   everything rests on.  `FifoOrder` says nothing about a producer between its
   check and its store; without knowing that the tail it loaded is still
   the tail, that the slot is still free, and that the slot holds its item when
   it is published, storing the tail could append anything.  With several
   producers it is false, which is why the ring is not safe for them.
3. `SlotsDoNotRace`: a producer at its slot and a consumer at its own have the ring
   neither full nor empty, hence two different slots.
4. `OrderPreserved`: `accepted = delivered \o Contents`.  Only the two stores change
   `Contents`: `StoreTailAppends` (the published slot becomes the last element)
   and `StoreHeadRemovesFirst` (the rest moves one place forward, over the wrap);
   writing the free slot and moving the first item into the consumer's
   hand leave it alone (`WriteKeepsContents`, `MoveKeepsContents`).
5. `RefinesFifo`: the same lemmas, read as steps of `BoundedFifo`.
6. `OneConsumerDeliversOnce`: `DeliveredOnce`, which `ring_two_consumers` refutes for two consumers, holds for one.
   A producer offers rising numbers (`AcceptedRise`), and by `FifoOrder` what is delivered is a beginning of what was accepted.

The two modules that follow begin with what an operation does to a vehicle: it stays one, driving
leaves the wear alone (`SameBodyAccounts`), and a blow adds to the wear what it
deals until no health is left.  They rest on
`VehicleAssumption` (`Full` is positive) and the assumption that the bounds are
naturals and the sets hold numbers (`SessionAssumption`, `AssaultAssumption`).

`UserSessionsProofs`, for any number of sessions and rocks, any forces, speeds
and time steps:

1. `ShapeKept`: the inductive invariant `Shape`.  `MapsAgree` alone is not
   inductive: `MapsType` says that the three maps are functions on one set of
   sessions, `RequestFits` that a request under way names a known session, has its
   session while it attacks, and cannot throw more rocks than the bound or make more
   events than three, and `Unborn` that nothing is written down yet about sessions
   to come.  `TypeCorrect` and `MapsAlwaysAgree` follow.
2. `WearAccounted`: `WearAndWay`, from `Shape` and the lemmas about vehicles.
3. `AnswersFit`: needs `RocksShow`, that a session still there between attack
   and answer has at least as many impacts as the request has events.
4. `ActiveSessionsStay`: an action property.  It needs `AgesTrue`: the age kept in
   `sessions` is the time the session has been quiet.

`VRAssaultProofs`, likewise:

1. `ShapeKept`, with all four maps on `live \union ended` or `live`, and
   the attack that holds the mutex on a live round; `TypeCorrect` and `MapsAlwaysNest` follow.
2. `SameStory`: `OneStory`.  `Story` relates result
   and vehicle of each round; a rock is the step that moves both.
3. `FinalResultsStay`, `FinalResultsFit`: no step touches result or vehicle of an
   ended round (`EndedUntouched`), and `end_session` closes it with its vehicle's
   figures (`FinalIsFinal`).

`PlasticityPoolProofs`, for any threads, pool and number of tasks; `PoolAssumption` asks
that there is a pool and that the three kinds of clients are different threads.
`PoolKept` is the inductive invariant `IInv`: an id is given once (`Ids`), what is
queued or in a hand is there once and not done (`QueueFresh`, `HandsFresh`), what is
registered is somewhere (`Somewhere`), who holds the mutex across steps has seen an
empty queue (`Mutex`), where `main` is says which threads there are (`Life`), and a
`run_simulation` under way finds its task (`Calls`).
`TasksInOnePlace`, `CallsGetTheirResults`, `EntriesStayAndGo` and `NoWakeupLost` follow.
The last one rests on `Mutex`: a pool thread between its predicate and its wait has the mutex,
so that no task can come in behind its back.  It says nothing of `stop`, which takes no mutex.

`SensorPipelineProofs`, for any loops, capacities and number of readings
(`PipelineAssumption`: finitely many loops, positive capacities).  `PipelineKept` is the
inductive invariant `PInv`:

1. `Shape` and `Life`: a thread holds a reading exactly between taking it and passing
   it on, and which threads are left as `stop` goes on.
2. `Placed`: each reading is at one stage (`In`), and each stage says of every
   queue, hand and end whether the reading is there.  Each thread's steps move one reading from one stage to
   another (`HttpMoves`, `LoopMoves`, `AlarmMoves`, `WriterMoves`) and leave the others
   where they are (`OthersStay`).  `ReadingsInOnePlace` adds it up to the sum of
   `OneStage`, and `RefinesJourney` reads the same moves as steps of `ReadingJourney`.
3. `Counts`: three equations, of what was received, what the loops took and what
   came out of them, which the counters need to be compared at any moment.  `CountersAddUp` is their sum;
   `TypeCorrect` needs them too, to show that no counter passes the number of readings sent.

`StopLeavesHandsEmpty` follows from `Life` and `Placed`.

`ClickHouseLinkProofs`, for any threads, reads, sockets and requests (`LinkAssumption`).  A thread that
is alone is the only one (`Alone`).  While two are together (`Crowded`) nothing is claimed, and the return
of each makes all connections so far tainted.  Otherwise a trusted line is clear but for the exchange that
is going on (`Lines`), and that exchange is either the request on its way or its answer, split between
what the thread has taken and what is left on the line (`Exchanges`); `CompleteIsAll` says that where the
code sees the end of an answer nothing is left of it, which is what hands the next request a clear line.

`HttpServerProofs`, for any clients, requests, reads and backlog.  `ConnectionsKept` is the
inductive invariant: the connection served is the open one and those that wait are those in
the backlog, once each (`Connections`), a request handled is whole, or has what its header tells, or no more of it is read
(`Handled`), and what is left of socket and thread at each point of `stop` (`Lifetime`).
`RequestsHandledWhole` and `StopLeavesNothing` follow.

`AnalysisProofs`, for any fleet, scores, terrains, expert counts, configuration files
and bodies that `ConstantsFit` allows.  A step of `Analysis` is a step of one component or
leaves its variables alone (`StepsOfComponents`), so that each has an invariant of its own, and
`TypesHold` follows from all four:

1. *Evaluation*: `JudgementAlwaysKept` is the inductive invariant `JInv`.  `AnswerIsOneJudgement` speaks of
   finished answers only; `JudgementKept` says what is known before each call of a request:
   whether the settings are already those of the request (`Configured`), whether somebody
   would have to be drawn again (`Settled`), and which parts of the answer are filled in.
   `AnswersAreOneJudgement` follows.
2. *Formation*: `CandidatesKept` is the inductive invariant `FInv`; candidates all stand on the terrain of the
   request, which is why both ways to resolve it agree on them (`BestIsBestUnderBoth`).  That there is
   a first candidate of the highest score is `FirstMaximumThere`.  `PlacesOfTheirOwn` and
   `OneLeads` are about any number of vehicles, where `MCAnalysis` tries up to thirteen; the one collision,
   in the diamond of five, comes out of `LayersSuffice`.
3. *Comparison*: `AnswersRankTheFleet` is the inductive invariant `CInv`: an answer comes of descending listings
   of the fleet and of each era.  A *listing* has each element of a set once
   (`Listing`), which sorting keeps (`ArrangedLists`), filtering keeps (`SelectedLists`), and adding
   what was asked for does not undo (`NobodyAdded`).  `BothSummariesAgree` then needs no more than that
   sums over two listings of one set are equal (`SameSums`) and that their first elements have the same
   score (`RankingTop`, `TopOfTwo`), in whatever order equal scores come out.
4. *Texts*: the induction theorems of the library take an operator as parameter, which the provers
   cannot instantiate; induction is by a least counterexample instead (`LeastOf`, and `FromTheEnd` where
   it goes from the end of a text backwards).  `ParserEnds` shows that the parser is well defined on every text: from each
   place it goes on further to the end, and what it reads is what its equations say.  `ParsedIsWhole` says of
   the result that its members and elements are values again, at any depth.  `ParsedUpToTheCut` compares a text with one
   that was cut off: before the cut the parser reads the same of both (`SameReading`); in the token the cut is in it
   reads nothing or what is left of it (`ScalarBlurred`); and of each object and array that was still open
   it keeps what was read before (`AllMembersCut`, `AllElementsCut`), from the end of the text backwards.  This needs
   `KeysOnce`: of a key that is given twice the last value counts, so that a cut between the two brings back the first.
5. *Intake*: `QueuedAreReadings` is the inductive invariant `IInv`.  `MaterialIsItsOwn` alone is not
   inductive: while no material is loaded, `validate` lets four names pass that no map knows; that `main` is never up
   then, and queues nothing before, is part of `IInv`.  `MaterialsAreTheirOwn` follows.  `NothingIsMadeUp` is
   `NothingMadeUp` for all bodies with `KeysOnce`, files and cuts: by the invariant `RInv` what was read is what
   the route makes of a beginning of a body; the objects in it are picked out at the places they would have been
   picked out at (`ObjectsCut`), and only the last of them can miss fields or have one blurred (`FieldsCut`).
6. *Alarms*: `WorseIsNoLower` is `LevelsRise` of `MCAnalysis` for any configuration that was
   read, whose settings are numbers because of `ParsedIsWhole` (`LoadedHasNumbers`).

Model-checked only:

- the liveness properties (`EveryItemDelivered`, `EveryCallReturns`,
  `EveryReadingEnds`, `EveryRequestReturns`, `AbandonedGoes`, `EveryRequestAnswered`), which are
  beyond the proof system used;
- `ThinRoofsUnwarned` and `NoSettingsNoBounds`, which are about the files the service comes with.

## 7. What the runs found

Each is a `violation` run; `PROJECT.json` quotes the line it contradicts.

- The queue's header promises several producers and consumers; `push` and `pop`
  have neither a compare-and-swap nor a spin.  Two threads in `pop` return one item
  twice (`ring_two_consumers`); in the same way two threads in `push` overwrite
  one another's item.  The application does use it that way:
  `simulation_queue` has two consumers always and two producers with
  `simulation.threads` of 2.
- `stop_workers` clears its flag and notifies without the mutex: a pool thread
  about to wait sleeps for ever and `stop` never returns (`pool_stop_hangs`).
- The README draws the results going to the alarm component and to ClickHouse; both pop the
  same queue, so that a result reaches one of them (`pipeline_stored_unchecked`).
- `main.cpp` tells its user to press Ctrl+C to stop; `stop` then closes the listening
  socket and joins a thread that sits in `accept`, which stays there until somebody
  connects (`http_stop_hangs`).

Seen while modelling, and modelled as the code has it:

- *Pool and queues.*  A task may be complete before its submitter has the handle.
  A task submitted before `start` brings the pool up, and a `stop` without a `start` leaves its
  threads joinable, which ends the process; the unit tests submit this way.
  Nothing pushes to the optimizer's input queue, so that only the HTTP thread
  evaluates and nothing ever reaches `evaluation_queue`, to which the
  repository's README draws `POST /api/evaluate`.
- *ClickHouse.*  Nothing but a history query reconnects after a failed send.  When the
  server has closed an idle connection, the next insert is taken by the socket and lost, and
  counted as stored.  A send on a connection the server has reset ends the whole service (`SIGPIPE` is not
  ignored), and a failed send forgets its socket without closing it.  A failed `connect` closes
  whatever `sock_fd_` names by then, which may be the other thread's connection.  A query whose
  answer comes in chunks, or is an error message, reaches `stoul`, which throws where
  nobody catches.  A host name is not looked up (`inet_pton`).
- *Requests.*  The length of a body is looked for by the very text `Content-Length:`.  Without it, as with a name in
  small letters or a chunked body, reading ends with the header, and the route gets whatever part of
  the body came with it (`BodyWhole` says when a request is handled in part).
- *Texts.*  A configuration file that was cut off loads, with zeros for what is missing
  (`NoSettingsNoBounds` of `MCAnalysis`: with alarm thresholds of zero everything is critical).  A body that was
  cut off may be a valid reading, also when the whole one was not.  A `vehicle_id` is taken modulo 2^32.
  A refused reading and a full queue are answered with an empty error message.
- *Settings.*  `--ch-host`, `--mqtt-broker` and `--def-threshold` of `main.cpp` are printed and not used.
- *Alarms.*  `worker_loop` makes up the thickness of a roof from its deformation, so that thin
  roofs get no penetration warning (`ThinRoofsUnwarned`).  The table of alarms in the repository's README (lines
  586 to 596) has other thresholds, levels and topics than the code, and one, `fatigue`, which nothing raises.
- *Counters.*  `sensors_stored_` of the application is never incremented.
- *Sessions.*  `reset_session` leaves the vibration of the last attack; a negative
  time step drives a vehicle backwards; state and result of a VR round that was
  ended are never erased.  Idle time is compared strictly, while a unit test cleans up
  with a timeout of zero right after it has created a session and expects it gone.
- *Formation.*  The diamond of five, the default number, puts the fifth vehicle
  where the first one stands (`PlacesDiffer`, `PlacesOfTheirOwn`); a line of an even number has no lead
  vehicle (`OneLead`, `OneLeads`).  `optimize` draws two candidates from a generator seeded by
  `random_device`, so that equal requests may have different best formations;
  `Optimization_Deterministic` of the unit tests expects the same.  A wedge of one stands half a
  spacing ahead of the other formations of one.
- *Evaluation.*  The answer's `expert_count` repeats the request, while
  settings are clamped to 1 to 10 and experts are generated in the number asked for.
- *Routes.*  The era comparisons have no route (the front end calls one), and the
  GET routes of sessions are never reached.  Numbers in query strings are parsed by
  functions that throw.

## 8. What is not modelled

- *Within the modelled parts*: the numbers of the impact calculation; the
  evaluation writer, to whose queue nothing pushes; the Boost build of the queue, which delegates
  to a library; `MPMCLockFreeQueue`, which is not used.  Of a vehicle the
  heading, roll and pitch and the amplitudes and frequencies of a vibration; of
  a VR round the rank its score earns and the callbacks, which only tests set; of
  session and attack lists their contents.
  `SensorPipeline` takes a call of `push` or `pop` as one step.  That is proved for
  one thread on each side; with two consumers the default build can do worse,
  as `ring_two_consumers` shows, and the pipeline's properties are those of
  an otherwise correct queue.
- *Of the HTTP server*: its routes beyond those of the modelled components, which only
  read; the text of requests and answers; a client that resets its connection.
- *Of the analysing components*: the formulas behind `Merit` and behind the weights of
  a judgement, the wording of insights and recommendations, schemes and their
  scores, `eval_id`.
- *Of texts*: escapes, fractions and exponents, white space, and `dump`, which writes answers.
  `Intake` has a queue with room, `SensorPipeline` readings without fields: which of them are valid is its choice.
- *Of the ClickHouse client*: the SQL and the fields of rows; the threads' ends in `stop`
  beyond their finishing the request they are in.
- *Planned*: see section 2.
- *Left aside*: metrics and logging
  (output only), the superseded single-file server in `src/backend/src/*.cpp`, which
  is not built, the front end, the sensor script, schema and deployment files.
