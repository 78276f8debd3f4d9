---------------------------- MODULE SensorPipeline ----------------------------
(***************************************************************************)
(* The way of a sensor reading through the service: DtuReceiver validates  *)
(* it in the HTTP thread and pushes it to the sensor queue, a worker_loop  *)
(* thread of ImpactSimulator turns it into a result on the simulation      *)
(* queue, and AlarmMqtt or the storage writer of FenyunApplication takes   *)
(* the result.  A reading and the result made of it carry one number.      *)
(*                                                                         *)
(* A call of push or pop is one step, as BoundedFifo says: what RingQueue  *)
(* shows of the shared queues when two threads are inside pop at once is   *)
(* not repeated here.  run_simulation is one step too; PlasticityPool has  *)
(* its inside, and shows that it returns while the application is up.      *)
(***************************************************************************)
EXTENDS Integers, Sequences, FiniteSets

CONSTANTS
  Loops,              \* worker_loop threads
  MaxReadings,        \* bound of the model: readings ever sent
  SensorCapacity,     \* simulation.queue_capacity
  SimulationCapacity  \* alarm.queue_capacity

ASSUME PipelineAssumption ==
  /\ IsFiniteSet(Loops)
  /\ MaxReadings \in Nat
  /\ SensorCapacity \in Nat \ {0} /\ SimulationCapacity \in Nat \ {0}

Reading == 1 .. MaxReadings
NoReading == 0

VARIABLES
  main,           \* how far start and stop have come
  running,        \* the components whose running_ is set
  sent,           \* readings sent to the HTTP server so far
  http,           \* the HTTP thread: position and reading in hand
  received, valid, invalid, dropped,  \* counters of DtuReceiver
  sensorQ,        \* sensor_queue_
  loop,           \* each worker_loop: position and reading in hand
  simsRun, outputDropped,             \* counters of ImpactSimulator
  simQ,           \* simulation_queue_
  alarm, checks,  \* AlarmMqtt::worker_loop, checks_performed_
  writer, simsStored,                 \* storage_writer_loop, sims_stored_
  connected,      \* connected_ of ClickHouseClient
  alive,          \* external: its socket leads to a live server
  reachable,      \* external: the server accepts connections
  fate            \* history: what became of each reading

lifeVars == <<main, running>>
dtuVars == <<sent, http, received, valid, invalid, dropped>>
simVars == <<loop, simsRun, outputDropped>>
alarmVars == <<alarm, checks>>
writerVars == <<writer, simsStored>>
linkVars == <<connected, alive, reachable>>
vars == <<lifeVars, dtuVars, sensorQ, simVars, simQ, alarmVars, writerVars, linkVars, fate>>

Component == {"app", "simulator", "alarm"}
At(pc, r) == [pc |-> pc, item |-> r]
Off == At("off", NoReading)
Poll == At("poll", NoReading)

Init ==
  /\ main = "new" /\ running = {}
  /\ sent = 0 /\ http = Off
  /\ received = 0 /\ valid = 0 /\ invalid = 0 /\ dropped = 0
  /\ sensorQ = <<>> /\ simQ = <<>>
  /\ loop = [l \in Loops |-> Off]
  /\ simsRun = 0 /\ outputDropped = 0
  /\ alarm = Off /\ checks = 0
  /\ writer = Off /\ simsStored = 0
  /\ connected = FALSE /\ alive = FALSE /\ reachable \in BOOLEAN
  /\ fate = [r \in Reading |-> {}]

Ends(r, how) == fate' = [fate EXCEPT ![r] = @ \union {how}]
-----------------------------------------------------------------------------
Request == http = Poll /\ sent < MaxReadings /\ sent' = sent + 1

\* ingest_sensor_json: not JSON, or not an object.
RejectUnparsed ==
  /\ Request
  /\ invalid' = invalid + 1
  /\ Ends(sent + 1, "unparsed")
  /\ UNCHANGED <<lifeVars, http, received, valid, dropped, sensorQ, simVars, simQ, alarmVars,
                 writerVars, linkVars>>

\* ingest_json_batch passes over such an element and counts it nowhere.
SkipUnparsed ==
  /\ Request
  /\ Ends(sent + 1, "unparsed")
  /\ UNCHANGED <<lifeVars, http, received, valid, invalid, dropped, sensorQ, simVars, simQ,
                 alarmVars, writerVars, linkVars>>

\* ingest_sensor_data counts the reading first.
Receive ==
  /\ Request
  /\ received' = received + 1
  /\ http' = At("validate", sent + 1)
  /\ UNCHANGED <<lifeVars, valid, invalid, dropped, sensorQ, simVars, simQ, alarmVars, writerVars,
                 linkVars, fate>>

\* validate finds a rule broken.
RejectInvalid ==
  /\ http.pc = "validate"
  /\ invalid' = invalid + 1
  /\ http' = Poll
  /\ Ends(http.item, "rejected")
  /\ UNCHANGED <<lifeVars, sent, received, valid, dropped, sensorQ, simVars, simQ, alarmVars,
                 writerVars, linkVars>>

\* The sensor queue is full.
DropReading ==
  /\ http.pc = "validate"
  /\ Len(sensorQ) = SensorCapacity
  /\ dropped' = dropped + 1
  /\ http' = Poll
  /\ Ends(http.item, "dropped")
  /\ UNCHANGED <<lifeVars, sent, received, valid, invalid, sensorQ, simVars, simQ, alarmVars,
                 writerVars, linkVars>>

\* Mutant: the result of push is not looked at, nor is the queue's limit.
QueueUnbounded ==
  /\ http.pc = "validate"
  /\ sensorQ' = Append(sensorQ, http.item)
  /\ http' = At("queued", NoReading)
  /\ UNCHANGED <<lifeVars, sent, received, valid, invalid, dropped, simVars, simQ, alarmVars,
                 writerVars, linkVars, fate>>

QueueReading ==
  /\ http.pc = "validate"
  /\ Len(sensorQ) < SensorCapacity
  /\ sensorQ' = Append(sensorQ, http.item)
  /\ http' = At("queued", NoReading)
  /\ UNCHANGED <<lifeVars, sent, received, valid, invalid, dropped, simVars, simQ, alarmVars,
                 writerVars, linkVars, fate>>

\* The reading may already be simulated when it is counted as valid.
CountValid ==
  /\ http.pc = "queued"
  /\ valid' = valid + 1
  /\ http' = Poll
  /\ UNCHANGED <<lifeVars, sent, received, invalid, dropped, sensorQ, simVars, simQ, alarmVars,
                 writerVars, linkVars, fate>>
-----------------------------------------------------------------------------
LoopGoto(l, at) == loop' = [loop EXCEPT ![l] = at]

LoopTake(l) ==
  /\ loop[l] = Poll /\ "simulator" \in running
  /\ sensorQ # <<>>
  /\ sensorQ' = Tail(sensorQ)
  /\ LoopGoto(l, At("simulate", Head(sensorQ)))
  /\ UNCHANGED <<lifeVars, dtuVars, simsRun, outputDropped, simQ, alarmVars, writerVars, linkVars,
                 fate>>

Simulate(l) ==
  /\ loop[l].pc = "simulate"
  /\ simsRun' = simsRun + 1
  /\ LoopGoto(l, At("push", loop[l].item))
  /\ UNCHANGED <<lifeVars, dtuVars, sensorQ, outputDropped, simQ, alarmVars, writerVars, linkVars,
                 fate>>

LoopPush(l) ==
  /\ loop[l].pc = "push"
  /\ Len(simQ) < SimulationCapacity
  /\ simQ' = Append(simQ, loop[l].item)
  /\ LoopGoto(l, Poll)
  /\ UNCHANGED <<lifeVars, dtuVars, sensorQ, simsRun, outputDropped, alarmVars, writerVars, linkVars,
                 fate>>

\* Mutant: a result that does not fit is not counted.
ShedUncounted(l) ==
  /\ loop[l].pc = "push"
  /\ Len(simQ) = SimulationCapacity
  /\ LoopGoto(l, Poll)
  /\ Ends(loop[l].item, "shed")
  /\ UNCHANGED <<lifeVars, dtuVars, sensorQ, simsRun, outputDropped, simQ, alarmVars, writerVars,
                 linkVars>>

\* The simulation queue is full: the result is gone, and counted.
Shed(l) ==
  /\ loop[l].pc = "push"
  /\ Len(simQ) = SimulationCapacity
  /\ outputDropped' = outputDropped + 1
  /\ LoopGoto(l, Poll)
  /\ Ends(loop[l].item, "shed")
  /\ UNCHANGED <<lifeVars, dtuVars, sensorQ, simsRun, simQ, alarmVars, writerVars, linkVars>>

\* Mutant: running_ is also looked at between run_simulation and push.
LoopExitEarly(l) ==
  /\ loop[l].pc \in {"poll", "push"} /\ "simulator" \notin running
  /\ LoopGoto(l, Off)
  /\ UNCHANGED <<lifeVars, dtuVars, sensorQ, simsRun, outputDropped, simQ, alarmVars, writerVars,
                 linkVars, fate>>

LoopExit(l) ==
  /\ loop[l] = Poll /\ "simulator" \notin running
  /\ LoopGoto(l, Off)
  /\ UNCHANGED <<lifeVars, dtuVars, sensorQ, simsRun, outputDropped, simQ, alarmVars, writerVars,
                 linkVars, fate>>
-----------------------------------------------------------------------------
\* Mutant: pop's result is overwritten by the next one before it is checked.
AlarmSkips ==
  /\ alarm.pc \in {"poll", "check"} /\ "alarm" \in running
  /\ simQ # <<>>
  /\ simQ' = Tail(simQ)
  /\ alarm' = At("check", Head(simQ))
  /\ UNCHANGED <<lifeVars, dtuVars, sensorQ, simVars, checks, writerVars, linkVars, fate>>

AlarmTake ==
  /\ alarm = Poll /\ "alarm" \in running
  /\ simQ # <<>>
  /\ simQ' = Tail(simQ)
  /\ alarm' = At("check", Head(simQ))
  /\ UNCHANGED <<lifeVars, dtuVars, sensorQ, simVars, checks, writerVars, linkVars, fate>>

\* check_and_alert, and publish_alert for what it found.
AlarmCheck ==
  /\ alarm.pc = "check"
  /\ checks' = checks + 1
  /\ alarm' = Poll
  /\ Ends(alarm.item, "checked")
  /\ UNCHANGED <<lifeVars, dtuVars, sensorQ, simVars, simQ, writerVars, linkVars>>

AlarmExit ==
  /\ alarm = Poll /\ "alarm" \notin running
  /\ alarm' = Off
  /\ UNCHANGED <<lifeVars, dtuVars, sensorQ, simVars, simQ, checks, writerVars, linkVars, fate>>
-----------------------------------------------------------------------------
\* ClickHouseClient::connect, and what send_http_request makes of the link.
\* A send on a dead socket may fail, or be buffered: then recv ends at once
\* and the request counts as answered.  SendKills is the third outcome.
Links ==
  CASE connected /\ alive   -> {<<TRUE, TRUE>>}
    [] connected /\ ~alive  -> {<<TRUE, FALSE>>, <<FALSE, FALSE>>}
    [] OTHER                -> {<<reachable, reachable>>}

\* Mutant: the front of the queue is read but stays there.
WriterPeek ==
  /\ writer = Poll /\ "app" \in running
  /\ simQ # <<>>
  /\ writer' = At("check", Head(simQ))
  /\ UNCHANGED <<lifeVars, dtuVars, sensorQ, simVars, simQ, alarmVars, simsStored, linkVars, fate>>

WriterTake ==
  /\ writer = Poll /\ "app" \in running
  /\ simQ # <<>>
  /\ simQ' = Tail(simQ)
  /\ writer' = At("check", Head(simQ))
  /\ UNCHANGED <<lifeVars, dtuVars, sensorQ, simVars, alarmVars, simsStored, linkVars, fate>>

\* Mutant: the writer keeps the result until the connection is back.
WriterRetries ==
  /\ writer.pc = "check" /\ ~connected
  /\ UNCHANGED vars

\* is_connected() is false: the result is gone, and not counted.
WriterDiscard ==
  /\ writer.pc = "check" /\ ~connected
  /\ writer' = Poll
  /\ Ends(writer.item, "unsaved")
  /\ UNCHANGED <<lifeVars, dtuVars, sensorQ, simVars, simQ, alarmVars, simsStored, linkVars>>

WriterFindsLink ==
  /\ writer.pc = "check" /\ connected
  /\ writer' = At("insert", writer.item)
  /\ UNCHANGED <<lifeVars, dtuVars, sensorQ, simVars, simQ, alarmVars, simsStored, linkVars, fate>>

\* insert_simulation_result; its return value is not looked at.
WriterInsert ==
  /\ writer.pc = "insert"
  /\ \E link \in Links :
       /\ connected' = link[1] /\ alive' = link[2]
       /\ Ends(writer.item, IF link[2] THEN "stored" ELSE "failed")
  /\ simsStored' = simsStored + 1
  /\ writer' = Poll
  /\ UNCHANGED <<lifeVars, dtuVars, sensorQ, simVars, simQ, alarmVars, reachable>>

WriterExit ==
  /\ writer = Poll /\ "app" \notin running
  /\ writer' = Off
  /\ UNCHANGED <<lifeVars, dtuVars, sensorQ, simVars, simQ, alarmVars, simsStored, linkVars, fate>>

\* GET /api/sensor/history: query_sensor_history, in the HTTP thread.
QueryHistory ==
  /\ http = Poll
  /\ \E link \in Links : connected' = link[1] /\ alive' = link[2]
  /\ UNCHANGED <<lifeVars, dtuVars, sensorQ, simVars, simQ, alarmVars, writerVars, reachable, fate>>

\* A send on a connection that the server has reset raises SIGPIPE, which
\* nobody handles: the process ends where it is.
SendKills ==
  /\ connected /\ ~alive
  /\ writer.pc = "insert" \/ http = Poll
  /\ main' = "killed"
  /\ UNCHANGED <<running, dtuVars, sensorQ, simVars, simQ, alarmVars, writerVars, linkVars, fate>>

\* The ClickHouse server goes away, closing its connections, and comes back.
ServerFails ==
  /\ reachable /\ reachable' = FALSE /\ alive' = FALSE
  /\ UNCHANGED <<lifeVars, dtuVars, sensorQ, simVars, simQ, alarmVars, writerVars, connected, fate>>

ServerReturns ==
  /\ ~reachable /\ reachable' = TRUE
  /\ UNCHANGED <<lifeVars, dtuVars, sensorQ, simVars, simQ, alarmVars, writerVars, connected, alive,
                 fate>>
-----------------------------------------------------------------------------
MainGoto(from, to) == main = from /\ main' = to

\* FenyunApplication::start, then FenyunHttpServer::start: no reading comes
\* before the last of them, so that their order does not matter.
Start ==
  /\ MainGoto("new", "up")
  /\ running' = Component
  /\ connected' = reachable /\ alive' = reachable
  /\ loop' = [l \in Loops |-> Poll]
  /\ alarm' = Poll /\ writer' = Poll /\ http' = Poll
  /\ UNCHANGED <<sent, received, valid, invalid, dropped, sensorQ, simsRun, outputDropped, simQ,
                 checks, simsStored, reachable, fate>>

\* main: FenyunHttpServer::stop joins the HTTP thread.
CloseHttp ==
  /\ MainGoto("up", "closed")
  /\ http = Poll /\ http' = Off
  /\ UNCHANGED <<running, sent, received, valid, invalid, dropped, sensorQ, simVars, simQ, alarmVars,
                 writerVars, linkVars, fate>>

\* FenyunApplication::stop: its own running_ is cleared first,
StopApp ==
  /\ MainGoto("closed", "appDown")
  /\ running' = running \ {"app"}
  /\ UNCHANGED <<dtuVars, sensorQ, simVars, simQ, alarmVars, writerVars, linkVars, fate>>

\* then ImpactSimulator::stop,
StopSimulator ==
  /\ MainGoto("appDown", "simulatorDown")
  /\ running' = running \ {"simulator"}
  /\ UNCHANGED <<dtuVars, sensorQ, simVars, simQ, alarmVars, writerVars, linkVars, fate>>

\* which joins the loops before AlarmMqtt::stop is called;
StopAlarm ==
  /\ MainGoto("simulatorDown", "alarmDown")
  /\ \A l \in Loops : loop[l] = Off
  /\ running' = running \ {"alarm"}
  /\ UNCHANGED <<dtuVars, sensorQ, simVars, simQ, alarmVars, writerVars, linkVars, fate>>

\* the alarm thread and the writers are joined, and the link is closed.
JoinWriters ==
  /\ MainGoto("alarmDown", "stopped")
  /\ alarm = Off /\ writer = Off
  /\ connected' = FALSE /\ alive' = FALSE
  /\ UNCHANGED <<running, dtuVars, sensorQ, simVars, simQ, alarmVars, writerVars, reachable, fate>>

Lives == main # "killed"
Finished == main \in {"stopped", "killed"} /\ UNCHANGED vars
-----------------------------------------------------------------------------
HttpStep == Lives /\ (RejectInvalid \/ DropReading \/ QueueReading \/ CountValid)

LoopStep(l) == Lives /\ (LoopTake(l) \/ Simulate(l) \/ LoopPush(l) \/ Shed(l) \/ LoopExit(l))

AlarmStep == Lives /\ (AlarmTake \/ AlarmCheck \/ AlarmExit)

WriterStep ==
  Lives /\ (WriterTake \/ WriterDiscard \/ WriterFindsLink \/ WriterInsert \/ WriterExit)

StopStep == StopApp \/ StopSimulator \/ StopAlarm \/ JoinWriters

Next ==
  \/ /\ Lives
     /\ \/ RejectUnparsed \/ SkipUnparsed \/ Receive \/ QueryHistory \/ SendKills
        \/ ServerFails \/ ServerReturns
  \/ HttpStep
  \/ \E l \in Loops : LoopStep(l)
  \/ AlarmStep
  \/ WriterStep
  \/ Start \/ CloseHttp \/ StopStep
  \/ Finished

Spec == Init /\ [][Next]_vars

\* Every thread that can take a step takes one.  Nothing obliges a client to
\* send, the server to fail or return, or the operator to stop the service.
Fairness ==
  /\ WF_vars(HttpStep)
  /\ \A l \in Loops : WF_vars(LoopStep(l))
  /\ WF_vars(AlarmStep)
  /\ WF_vars(WriterStep)
  /\ WF_vars(StopStep)

FairSpec == Spec /\ Fairness
-----------------------------------------------------------------------------
Unit(b) == IF b THEN 1 ELSE 0
Busy(at) == Unit(at.item # NoReading)
Times(r, q) == Cardinality({i \in DOMAIN q : q[i] = r})
Met(how) == Cardinality({r \in Reading : how \in fate[r]})

Fates == {"unparsed", "rejected", "dropped", "shed", "checked", "stored", "failed", "unsaved"}

\* Type invariant.
TypeOK ==
  /\ main \in {"new", "up", "closed", "appDown", "simulatorDown", "alarmDown", "stopped", "killed"}
  /\ running \in SUBSET Component
  /\ sent \in 0 .. MaxReadings
  /\ http \in [pc : {"off", "poll", "validate", "queued"}, item : Reading \union {NoReading}]
  /\ {received, valid, invalid, dropped, simsRun, outputDropped, checks, simsStored}
       \subseteq 0 .. MaxReadings
  /\ sensorQ \in Seq(Reading) /\ Len(sensorQ) <= SensorCapacity
  /\ simQ \in Seq(Reading) /\ Len(simQ) <= SimulationCapacity
  /\ loop \in [Loops -> [pc : {"off", "poll", "simulate", "push"}, item : Reading \union {NoReading}]]
  /\ alarm \in [pc : {"off", "poll", "check"}, item : Reading \union {NoReading}]
  /\ writer \in [pc : {"off", "poll", "check", "insert"}, item : Reading \union {NoReading}]
  /\ {connected, alive, reachable} \subseteq BOOLEAN
  /\ fate \in [Reading -> SUBSET Fates]

\* A reading that was sent is in exactly one place or has met exactly one
\* end: never two threads have it, and none drops it between two queues.
OneStage ==
  \A r \in Reading :
    Unit(http.item = r) + Times(r, sensorQ) + Cardinality({l \in Loops : loop[l].item = r})
      + Times(r, simQ) + Unit(alarm.item = r) + Unit(writer.item = r) + Cardinality(fate[r])
    = Unit(r <= sent)

\* The counters the service reports account for every valid reading, whatever
\* the moment they are read at: apart from the one the HTTP thread is about to
\* count, those on their way, those shed, checked and stored.  Only results
\* the writer discards while ClickHouse is away show up in no counter.
CountersBalance ==
  valid + Unit(http.pc = "queued")
    = Len(sensorQ) + Cardinality({l \in Loops : loop[l].item # NoReading}) + Len(simQ)
        + outputDropped + Busy(alarm) + checks + Busy(writer) + simsStored + Met("unsaved")

\* stop lets every thread finish the reading in its hand; what has not met an
\* end by then is still in one of the two queues.
StopLosesNothingInHand ==
  main = "stopped" =>
    \A r \in 1 .. sent : fate[r] # {} \/ Times(r, sensorQ) + Times(r, simQ) = 1

\* While the service is up, every reading that was queued meets its end,
\* whatever becomes of the ClickHouse link short of killing the process.
EveryReadingEnds ==
  \A r \in Reading : Times(r, sensorQ) = 1 ~> fate[r] # {} \/ main # "up"

\* The pipeline moves one reading at a time along the edges of ReadingJourney.
Stage(r) ==
  CASE http.item = r                  -> "validating"
    [] Times(r, sensorQ) > 0          -> "queued"
    [] \E l \in Loops : loop[l].item = r -> "simulating"
    [] Times(r, simQ) > 0             -> "result"
    [] alarm.item = r                 -> "checking"
    [] writer.item = r                -> "storing"
    [] fate[r] # {}                   -> CHOOSE f \in fate[r] : TRUE
    [] OTHER                          -> "unsent"

Journey == INSTANCE ReadingJourney WITH
             stage <- [r \in Reading |-> Stage(r)]

ImplementsJourney == Journey!Spec

\* README.md draws an arrow from the queue of results to AlarmMqtt and one to
\* the ClickHouse writer (lines 95-96, and both pop it in lines 135 and 141):
\* once the pipeline has come to rest, a stored result has been checked too.
AtRest ==
  /\ main = "up" /\ sensorQ = <<>> /\ simQ = <<>>
  /\ Busy(alarm) + Busy(writer) = 0
  /\ \A l \in Loops : Busy(loop[l]) = 0

StoredResultsAreChecked ==
  AtRest => \A r \in Reading : "stored" \in fate[r] => "checked" \in fate[r]
=============================================================================
