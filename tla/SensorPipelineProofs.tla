------------------------- MODULE SensorPipelineProofs -------------------------
(***************************************************************************)
(* Proofs about SensorPipeline, for any loops, capacities and number of    *)
(* readings: each reading is in one place, the counters balance, and the   *)
(* pipeline implements ReadingJourney.                                     *)
(***************************************************************************)
EXTENDS SensorPipeline, FiniteSetTheorems, TLAPS

-----------------------------------------------------------------------------
(* Counting                                                                *)

\* Two sets that differ in one element at most.
LEMMA CountChange ==
  ASSUME NEW S, IsFiniteSet(S), NEW P, NEW Q, P \subseteq S, Q \subseteq S,
         NEW x \in S, \A y \in S \ {x} : y \in P <=> y \in Q
  PROVE  /\ Cardinality(P) \in Nat /\ Cardinality(Q) \in Nat
         /\ Cardinality(Q) + Unit(x \in P) = Cardinality(P) + Unit(x \in Q)
<1>1. IsFiniteSet(P) /\ IsFiniteSet(Q)
  BY FS_Subset
<1>2. Cardinality(P) \in Nat /\ Cardinality(Q) \in Nat
  BY <1>1, FS_CardinalityType
<1>3. P \ {x} = Q \ {x}
  OBVIOUS
<1>4. /\ Cardinality(P \ {x}) = IF x \in P THEN Cardinality(P) - 1 ELSE Cardinality(P)
      /\ Cardinality(Q \ {x}) = IF x \in Q THEN Cardinality(Q) - 1 ELSE Cardinality(Q)
  BY <1>1, FS_RemoveElement
<1> QED  BY <1>2, <1>3, <1>4 DEF Unit

Places(r, q) == {i \in 1 .. Len(q) : q[i] = r}

LEMMA TimesType ==
  ASSUME NEW q \in Seq(Reading), NEW r
  PROVE  Times(r, q) = Cardinality(Places(r, q)) /\ IsFiniteSet(Places(r, q)) /\ Times(r, q) \in Nat
<1>1. DOMAIN q = 1 .. Len(q) /\ Len(q) \in Nat
  OBVIOUS
<1>2. IsFiniteSet(1 .. Len(q))
  BY <1>1, FS_Interval
<1>3. IsFiniteSet(Places(r, q))
  BY <1>2, FS_Subset DEF Places
<1> QED  BY <1>1, <1>3, FS_CardinalityType DEF Places, Times

\* What push adds.
LEMMA TimesAppend ==
  ASSUME NEW q \in Seq(Reading), NEW x \in Reading, NEW r
  PROVE  Times(r, Append(q, x)) = Times(r, q) + Unit(x = r)
<1> DEFINE n == Len(q) + 1
<1>8. PICK a : a = Append(q, x)
  OBVIOUS
<1>1. /\ Len(q) \in Nat /\ Len(a) = n /\ a[n] = x /\ a \in Seq(Reading)
      /\ \A i \in 1 .. Len(q) : a[i] = q[i]
  BY <1>8
<1>2. IsFiniteSet(1 .. n)
  BY <1>1, FS_Interval
<1>3. /\ Places(r, q) \subseteq 1 .. n /\ Places(r, a) \subseteq 1 .. n /\ n \in 1 .. n
      /\ \A i \in (1 .. n) \ {n} : i \in Places(r, q) <=> i \in Places(r, a)
      /\ n \notin Places(r, q) /\ (n \in Places(r, a) <=> x = r)
  BY <1>1 DEF Places
<1> HIDE DEF n
<1>4. Cardinality(Places(r, a)) + Unit(n \in Places(r, q)) = Cardinality(Places(r, q)) + Unit(n \in Places(r, a))
  BY <1>2, <1>3, CountChange
<1>5. Times(r, a) = Cardinality(Places(r, a)) /\ Times(r, q) = Cardinality(Places(r, q)) /\ Times(r, q) \in Nat
  BY <1>1, TimesType
<1>6. Cardinality(Places(r, a)) \in Nat
  BY <1>2, <1>3, CountChange
<1>7. Unit(n \in Places(r, q)) = 0 /\ Unit(n \in Places(r, a)) = Unit(x = r) /\ Unit(x = r) \in Nat
  BY <1>3 DEF Unit
<1>9. Times(r, a) = Times(r, q) + Unit(x = r)
  BY <1>4, <1>5, <1>6, <1>7
<1> QED  BY <1>8, <1>9

\* What pop takes.
LEMMA TimesTail ==
  ASSUME NEW q \in Seq(Reading), q # <<>>, NEW r
  PROVE  Times(r, q) = Times(r, Tail(q)) + Unit(Head(q) = r)
<1>7. PICK t : t = Tail(q)
  OBVIOUS
<1> DEFINE Later == Places(r, q) \ {1}
<1>1. /\ Len(q) \in Nat /\ Len(q) >= 1 /\ Len(t) = Len(q) - 1 /\ t \in Seq(Reading) /\ Head(q) = q[1]
      /\ \A i \in 1 .. Len(t) : t[i] = q[i + 1]
  BY <1>7
<1>2. /\ IsFiniteSet(Places(r, t)) /\ IsFiniteSet(Places(r, q)) /\ Times(r, t) = Cardinality(Places(r, t))
      /\ Times(r, q) = Cardinality(Places(r, q)) /\ Times(r, q) \in Nat /\ Times(r, t) \in Nat
  BY <1>1, TimesType
<1>3. ExistsBijection(Places(r, t), Later)
  <2> DEFINE f == [i \in Places(r, t) |-> i + 1]
  <2>1. \A i \in Places(r, t) : i \in Nat /\ i + 1 \in Later
    BY <1>1 DEF Places
  <2>2. \A j \in Later : j - 1 \in Places(r, t) /\ f[j - 1] = j
    BY <1>1 DEF Places
  <2>3. f \in [Places(r, t) -> Later]
    BY <2>1
  <2>4. \A i, j \in Places(r, t) : f[i] = f[j] => i = j
    BY <2>1
  <2>5. f \in Injection(Places(r, t), Later)
    BY <2>3, <2>4 DEF Injection, IsInjective
  <2>6. f \in Surjection(Places(r, t), Later)
    BY <2>2, <2>3 DEF Surjection
  <2> QED  BY <2>5, <2>6 DEF ExistsBijection, Bijection
<1>4. Cardinality(Later) = Cardinality(Places(r, t))
  BY <1>2, <1>3, FS_Bijection
<1>5. Cardinality(Later) = IF 1 \in Places(r, q) THEN Cardinality(Places(r, q)) - 1 ELSE Cardinality(Places(r, q))
  BY <1>2, FS_RemoveElement
<1>6. 1 \in Places(r, q) <=> Head(q) = r
  BY <1>1 DEF Places
<1>8. Times(r, q) = Times(r, t) + Unit(Head(q) = r)
  BY <1>2, <1>4, <1>5, <1>6 DEF Unit
<1> QED  BY <1>7, <1>8

LEMMA TimesNone == \A r : Times(r, <<>>) = 0
<1>1. \A r : {i \in DOMAIN <<>> : <<>>[i] = r} = {}
  OBVIOUS
<1> QED  BY <1>1, FS_EmptySet DEF Times

-----------------------------------------------------------------------------
(* Where a reading is                                                      *)

Held(r) == Cardinality({l \in Loops : loop[l].item = r})

Stages == {"unsent", "validating", "queued", "simulating", "result", "checking", "storing"} \union Fates

\* r is at one stage and at no other.
In(r, stage) ==
  /\ http.item = r <=> stage = "validating"
  /\ Times(r, sensorQ) = Unit(stage = "queued")
  /\ Held(r) = Unit(stage = "simulating")
  /\ Times(r, simQ) = Unit(stage = "result")
  /\ alarm.item = r <=> stage = "checking"
  /\ writer.item = r <=> stage = "storing"
  /\ fate[r] = IF stage \in Fates THEN {stage} ELSE {}
  /\ r <= sent <=> stage # "unsent"

Placed == \A r \in Reading : \E stage \in Stages : In(r, stage)

\* Threads hold a reading between taking and passing it on, and only then.
Shape ==
  /\ main \in {"new", "up", "closed", "appDown", "simulatorDown", "alarmDown", "stopped", "killed"}
  /\ running \in SUBSET Component
  /\ sent \in 0 .. MaxReadings
  /\ \/ http \in [pc : {"off", "poll", "queued"}, item : {NoReading}]
     \/ http \in [pc : {"validate"}, item : Reading]
  /\ received \in Nat /\ valid \in Nat /\ invalid \in Nat /\ dropped \in Nat
  /\ simsRun \in Nat /\ outputDropped \in Nat /\ checks \in Nat /\ simsStored \in Nat
  /\ sensorQ \in Seq(Reading) /\ Len(sensorQ) <= SensorCapacity
  /\ simQ \in Seq(Reading) /\ Len(simQ) <= SimulationCapacity
  /\ loop \in [Loops -> [pc : {"off", "poll"}, item : {NoReading}]
                          \union [pc : {"simulate", "push"}, item : Reading]]
  /\ \/ alarm \in [pc : {"off", "poll"}, item : {NoReading}]
     \/ alarm \in [pc : {"check"}, item : Reading]
  /\ \/ writer \in [pc : {"off", "poll"}, item : {NoReading}]
     \/ writer \in [pc : {"check", "insert"}, item : Reading]
  /\ connected \in BOOLEAN /\ alive \in BOOLEAN /\ reachable \in BOOLEAN
  /\ fate \in [Reading -> SUBSET Fates]

\* How far start and stop have come, for those that are done.
Life ==
  /\ main = "new" => /\ http = Off /\ alarm = Off /\ writer = Off
                     /\ \A l \in Loops : loop[l] = Off
  /\ main \in {"closed", "appDown", "simulatorDown", "alarmDown", "stopped"} => http = Off
  /\ main \in {"alarmDown", "stopped"} => \A l \in Loops : loop[l] = Off
  /\ main = "stopped" => alarm = Off /\ writer = Off

LEMMA Numbers == NoReading \notin Reading /\ Reading \subseteq Nat
BY DEF NoReading, Reading

LEMMA ShapeInit == Init => Shape /\ Life
<1> USE PipelineAssumption
<1> SUFFICES ASSUME Init PROVE Shape /\ Life
  OBVIOUS
<1>1. sensorQ \in Seq(Reading) /\ simQ \in Seq(Reading) /\ Len(sensorQ) = 0 /\ Len(simQ) = 0
  BY DEF Init
<1>2. http = Off /\ alarm = Off /\ writer = Off /\ \A l \in Loops : loop[l] = Off
  BY DEF Init
<1>3. sent \in 0 .. MaxReadings /\ fate \in [Reading -> SUBSET Fates]
  BY DEF Init
<1>4. loop \in [Loops -> [pc : {"off", "poll"}, item : {NoReading}]
                          \union [pc : {"simulate", "push"}, item : Reading]]
  BY DEF Init, Off, At
<1>7. Off \in [pc : {"off", "poll", "queued"}, item : {NoReading}] /\ Off \in [pc : {"off", "poll"}, item : {NoReading}]
  BY DEF Off, At
<1>5. /\ Len(sensorQ) <= SensorCapacity /\ Len(simQ) <= SimulationCapacity
      /\ 0 \in Nat /\ main = "new" /\ running = {}
  BY <1>1 DEF Init
<1>6. connected \in BOOLEAN /\ alive \in BOOLEAN /\ reachable \in BOOLEAN
  BY DEF Init
<1>8. Shape
  BY <1>1, <1>2, <1>3, <1>4, <1>5, <1>6, <1>7 DEF Init, Shape
<1>9. Life
  BY <1>2 DEF Init, Life
<1> QED  BY <1>8, <1>9

LEMMA LinksType ==
  ASSUME Shape, NEW link \in Links
  PROVE  link[1] \in BOOLEAN /\ link[2] \in BOOLEAN
<1>1. CASE connected /\ alive
  <2>1. Links = {<<TRUE, TRUE>>}
    BY <1>1 DEF Links
  <2>2. link = <<TRUE, TRUE>>
    BY <2>1
  <2>3. link[1] = TRUE /\ link[2] = TRUE
    BY <2>2
  <2> QED  BY <2>3
<1>2. CASE connected /\ ~alive
  <2>1. Links = {<<TRUE, FALSE>>, <<FALSE, FALSE>>}
    BY <1>2 DEF Links
  <2>2. link = <<TRUE, FALSE>> \/ link = <<FALSE, FALSE>>
    BY <2>1
  <2>3. CASE link = <<TRUE, FALSE>>
    <3>1. link[1] = TRUE /\ link[2] = FALSE
      BY <2>3
    <3> QED  BY <3>1
  <2>4. CASE link = <<FALSE, FALSE>>
    <3>1. link[1] = FALSE /\ link[2] = FALSE
      BY <2>4
    <3> QED  BY <3>1
  <2> QED  BY <2>2, <2>3, <2>4
<1>3. CASE ~connected
  <2>1. Links = {<<reachable, reachable>>}
    BY <1>3 DEF Links
  <2>2. link = <<reachable, reachable>>
    BY <2>1
  <2>3. link[1] = reachable /\ link[2] = reachable
    BY <2>2
  <2> QED  BY <2>3 DEF Shape
<1> QED  BY <1>1, <1>2, <1>3

LEMMA ShapeKept ==
  ASSUME Shape, Life, Next
  PROVE  Shape' /\ Life'
<1> USE PipelineAssumption DEF lifeVars, dtuVars, simVars, alarmVars, writerVars, linkVars, At, Poll, Off
<1>1. ASSUME RejectUnparsed \/ SkipUnparsed \/ Receive PROVE Shape' /\ Life'
  <2>0. http = Poll /\ sent < MaxReadings /\ sent' = sent + 1
    BY <1>1 DEF RejectUnparsed, SkipUnparsed, Receive, Request
  <2>1. /\ sent + 1 \in Reading /\ sent' = sent + 1 /\ sent' \in 0 .. MaxReadings
        /\ main \notin {"new", "closed", "appDown", "simulatorDown", "alarmDown", "stopped"}
    <3>1. sent \in 0 .. MaxReadings
      BY DEF Shape
    <3>2. main \notin {"new", "closed", "appDown", "simulatorDown", "alarmDown", "stopped"}
      BY <2>0 DEF Life
    <3> QED  BY <2>0, <3>1, <3>2 DEF Reading
  <2>2. fate' \in [Reading -> SUBSET Fates]
    BY <1>1, <2>1 DEF RejectUnparsed, SkipUnparsed, Receive, Ends, Shape, Fates
  <2>3. CASE RejectUnparsed \/ SkipUnparsed
    <3>3. /\ UNCHANGED <<main, running, http, received, valid, dropped, sensorQ, loop, simsRun, outputDropped, simQ,
                         alarm, checks, writer, simsStored, connected, alive, reachable>>
          /\ invalid' \in {invalid, invalid + 1}
      BY <2>3 DEF RejectUnparsed, SkipUnparsed
    <3>4. invalid' \in Nat
      BY <3>3 DEF Shape
    <3>1. Shape'
      BY <2>1, <2>2, <3>3, <3>4 DEF Shape
    <3>2. Life'
      BY <2>1, <3>3 DEF Life
    <3> QED  BY <3>1, <3>2
  <2>4. CASE Receive
    <3>1. /\ UNCHANGED <<main, running, valid, invalid, dropped, sensorQ, loop, simsRun, outputDropped, simQ,
                         alarm, checks, writer, simsStored, connected, alive, reachable, fate>>
          /\ received' = received + 1 /\ http' = [pc |-> "validate", item |-> sent + 1]
      BY <2>4 DEF Receive
    <3>2. Shape'
      BY <2>1, <2>2, <3>1 DEF Shape
    <3>3. Life'
      BY <2>1, <3>1 DEF Life
    <3> QED  BY <3>2, <3>3
  <2> QED  BY <1>1, <2>3, <2>4
<1>2. ASSUME RejectInvalid \/ DropReading PROVE Shape' /\ Life'
  <2>1. http.item \in Reading /\ main \notin {"new", "closed", "appDown", "simulatorDown", "alarmDown", "stopped"}
    <3>1. http.pc = "validate"
      BY <1>2 DEF RejectInvalid, DropReading
    <3>2. http.item \in Reading
      <4>1. \/ http \in [pc : {"off", "poll", "queued"}, item : {NoReading}]
            \/ http \in [pc : {"validate"}, item : Reading]
        BY DEF Shape
      <4> QED  BY ONLY <3>1, <4>1
    <3>3. main \notin {"new", "closed", "appDown", "simulatorDown", "alarmDown", "stopped"}
      BY <3>1 DEF Life
    <3> QED  BY <3>2, <3>3
  <2>2. fate' \in [Reading -> SUBSET Fates]
    <3>1. PICK how \in {"rejected", "dropped"} : fate' = [fate EXCEPT ![http.item] = @ \union {how}]
      BY <1>2 DEF RejectInvalid, DropReading, Ends
    <3> QED  BY <2>1, <3>1 DEF Shape, Fates
  <2>3. CASE RejectInvalid
    <3>1. Shape'
      BY <2>1, <2>2, <2>3 DEF RejectInvalid, Shape
    <3>2. Life'
      BY <2>1, <2>2, <2>3 DEF RejectInvalid, Life
    <3> QED  BY <3>1, <3>2
  <2>4. CASE DropReading
    <3>1. Shape'
      BY <2>1, <2>2, <2>4 DEF DropReading, Shape
    <3>2. Life'
      BY <2>1, <2>2, <2>4 DEF DropReading, Life
    <3> QED  BY <3>1, <3>2
  <2> QED  BY <1>2, <2>3, <2>4
<1>3. ASSUME QueueReading PROVE Shape' /\ Life'
  <2>1. http.item \in Reading /\ main \notin {"new", "closed", "appDown", "simulatorDown", "alarmDown", "stopped"}
    <3>1. http.pc = "validate"
      BY <1>3 DEF QueueReading
    <3>2. http.item \in Reading
      BY <3>1 DEF Shape
    <3>3. main \notin {"new", "closed", "appDown", "simulatorDown", "alarmDown", "stopped"}
      BY <3>1 DEF Life
    <3> QED  BY <3>2, <3>3
  <2>2. sensorQ' \in Seq(Reading) /\ Len(sensorQ') <= SensorCapacity
    BY <1>3, <2>1 DEF QueueReading, Shape
  <2>7. Shape'
    BY <1>3, <2>1, <2>2 DEF QueueReading, Shape
  <2>8. Life'
    BY <1>3, <2>1, <2>2 DEF QueueReading, Life
  <2> QED  BY <2>7, <2>8
<1>4. ASSUME CountValid PROVE Shape' /\ Life'
  <2>1. Shape'
    BY <1>4 DEF CountValid, Shape
  <2>2. Life'
    BY <1>4 DEF CountValid, Life
  <2> QED  BY <2>1, <2>2
<1>5. ASSUME NEW l \in Loops, LoopTake(l) \/ Simulate(l) \/ LoopPush(l) \/ Shed(l) \/ LoopExit(l)
      PROVE  Shape' /\ Life'
  <2>1. main \notin {"new", "alarmDown", "stopped"} \/ LoopExit(l)
    BY <1>5 DEF LoopTake, Simulate, LoopPush, Shed, Life
  <2>2. loop' \in [Loops -> [pc : {"off", "poll"}, item : {NoReading}]
                              \union [pc : {"simulate", "push"}, item : Reading]]
    <3>1. CASE LoopTake(l)
      <4>1. Head(sensorQ) \in Reading
        BY <3>1 DEF LoopTake, Shape
      <4> QED  BY <3>1, <4>1 DEF LoopTake, LoopGoto, Shape
    <3>2. CASE Simulate(l) \/ LoopPush(l) \/ Shed(l) \/ LoopExit(l)
      BY <3>2 DEF Simulate, LoopPush, Shed, LoopExit, LoopGoto, Shape
    <3> QED  BY <1>5, <3>1, <3>2
  <2>3. fate' \in [Reading -> SUBSET Fates]
    <3>1. CASE Shed(l)
      <4>1. loop[l].item \in Reading
        BY <3>1 DEF Shed, Shape
      <4> QED  BY <3>1, <4>1 DEF Shed, Ends, Shape, Fates
    <3>2. CASE ~Shed(l)
      BY <1>5, <3>2 DEF LoopTake, Simulate, LoopPush, LoopExit, Shape
    <3> QED  BY <3>1, <3>2
  <2>4. sensorQ' \in Seq(Reading) /\ Len(sensorQ') <= SensorCapacity
    <3>1. CASE LoopTake(l)
      BY <3>1 DEF LoopTake, Shape
    <3>2. CASE ~LoopTake(l)
      BY <1>5, <3>2 DEF Simulate, LoopPush, Shed, LoopExit, Shape
    <3> QED  BY <3>1, <3>2
  <2>5. simQ' \in Seq(Reading) /\ Len(simQ') <= SimulationCapacity
    <3>1. CASE LoopPush(l)
      <4>1. loop[l].item \in Reading
        BY <3>1 DEF LoopPush, Shape
      <4> QED  BY <3>1, <4>1 DEF LoopPush, Shape
    <3>2. CASE ~LoopPush(l)
      BY <1>5, <3>2 DEF Simulate, LoopTake, Shed, LoopExit, Shape
    <3> QED  BY <3>1, <3>2
  <2>6. simsRun' \in Nat /\ outputDropped' \in Nat
    <3>1. simsRun' \in {simsRun, simsRun + 1} /\ outputDropped' \in {outputDropped, outputDropped + 1}
      BY <1>5 DEF LoopTake, Simulate, LoopPush, Shed, LoopExit
    <3>2. simsRun \in Nat /\ outputDropped \in Nat
      BY DEF Shape
    <3> QED  BY <3>1, <3>2
  <2>7. UNCHANGED <<main, running, sent, http, received, valid, invalid, dropped, alarm, checks, writer,
                    simsStored, connected, alive, reachable>>
    BY <1>5 DEF LoopTake, Simulate, LoopPush, Shed, LoopExit
  <2>8. Shape'
    BY <2>2, <2>3, <2>4, <2>5, <2>6, <2>7 DEF Shape
  <2>9. Life'
    <3>1. CASE LoopExit(l)
      BY <2>7, <3>1 DEF LoopExit, LoopGoto, Life, Shape
    <3>2. CASE main \notin {"new", "alarmDown", "stopped"}
      BY <2>7, <3>2 DEF Life
    <3> QED  BY <2>1, <3>1, <3>2
  <2> QED  BY <2>8, <2>9
<1>6. ASSUME AlarmTake \/ AlarmCheck \/ AlarmExit PROVE Shape' /\ Life'
  <2>1. main \notin {"new", "stopped"}
    BY <1>6 DEF AlarmTake, AlarmCheck, AlarmExit, Life
  <2>2. CASE AlarmTake
    <3>1. Head(simQ) \in Reading /\ Tail(simQ) \in Seq(Reading) /\ Len(Tail(simQ)) <= SimulationCapacity
      BY <2>2 DEF AlarmTake, Shape
    <3>7. Shape'
      BY <2>1, <2>2, <3>1 DEF AlarmTake, Shape
    <3>8. Life'
      BY <2>1, <2>2, <3>1 DEF AlarmTake, Life
    <3> QED  BY <3>7, <3>8
  <2>3. CASE AlarmCheck
    <3>1. alarm.item \in Reading
      BY <2>3 DEF AlarmCheck, Shape
    <3>2. fate' \in [Reading -> SUBSET Fates]
      BY <2>3, <3>1 DEF AlarmCheck, Ends, Shape, Fates
    <3>7. Shape'
      BY <2>1, <2>3, <3>2 DEF AlarmCheck, Shape
    <3>8. Life'
      BY <2>1, <2>3, <3>2 DEF AlarmCheck, Life
    <3> QED  BY <3>7, <3>8
  <2>4. CASE AlarmExit
    <3>1. Shape'
      BY <2>1, <2>4 DEF AlarmExit, Shape
    <3>2. Life'
      BY <2>1, <2>4 DEF AlarmExit, Life
    <3> QED  BY <3>1, <3>2
  <2> QED  BY <1>6, <2>2, <2>3, <2>4
<1>7. ASSUME WriterTake \/ WriterDiscard \/ WriterFindsLink \/ WriterInsert \/ WriterExit PROVE Shape' /\ Life'
  <2>1. main \notin {"new", "stopped"}
    BY <1>7 DEF WriterTake, WriterDiscard, WriterFindsLink, WriterInsert, WriterExit, Life
  <2>2. CASE WriterTake
    <3>1. Head(simQ) \in Reading /\ Tail(simQ) \in Seq(Reading) /\ Len(Tail(simQ)) <= SimulationCapacity
      BY <2>2 DEF WriterTake, Shape
    <3>7. Shape'
      BY <2>1, <2>2, <3>1 DEF WriterTake, Shape
    <3>8. Life'
      BY <2>1, <2>2, <3>1 DEF WriterTake, Life
    <3> QED  BY <3>7, <3>8
  <2>3. CASE WriterDiscard
    <3>1. writer.item \in Reading
      BY <2>3 DEF WriterDiscard, Shape
    <3>2. fate' \in [Reading -> SUBSET Fates]
      BY <2>3, <3>1 DEF WriterDiscard, Ends, Shape, Fates
    <3>7. Shape'
      BY <2>1, <2>3, <3>2 DEF WriterDiscard, Shape
    <3>8. Life'
      BY <2>1, <2>3, <3>2 DEF WriterDiscard, Life
    <3> QED  BY <3>7, <3>8
  <2>5. CASE WriterInsert
    <3>1. writer.item \in Reading
      BY <2>5 DEF WriterInsert, Shape
    <3>2. PICK link \in Links : /\ connected' = link[1] /\ alive' = link[2]
                                /\ Ends(writer.item, IF link[2] THEN "stored" ELSE "failed")
      BY <2>5 DEF WriterInsert
    <3>3. fate' \in [Reading -> SUBSET Fates]
      BY <3>1, <3>2 DEF Ends, Shape, Fates
    <3>4. connected' \in BOOLEAN /\ alive' \in BOOLEAN
      BY <3>2, LinksType
    <3>5. /\ UNCHANGED <<main, running, sent, http, received, valid, invalid, dropped, sensorQ, loop, simsRun,
                         outputDropped, simQ, alarm, checks, reachable>>
          /\ simsStored' = simsStored + 1 /\ writer' = Poll
      BY <2>5 DEF WriterInsert
    <3>7. Shape'
      BY <3>3, <3>4, <3>5 DEF Shape
    <3>8. Life'
      BY <2>1, <3>5 DEF Life
    <3> QED  BY <3>7, <3>8
  <2>4. CASE WriterFindsLink \/ WriterExit
    <3>0. /\ UNCHANGED <<main, running, sent, http, received, valid, invalid, dropped, sensorQ, loop, simsRun,
                         outputDropped, simQ, alarm, checks, simsStored, connected, alive, reachable, fate>>
          /\ writer' = Off \/ (writer.pc = "check" /\ writer' = At("insert", writer.item))
      BY <2>4 DEF WriterFindsLink, WriterExit
    <3>1. Shape'
      <4>1. \/ writer' \in [pc : {"off", "poll"}, item : {NoReading}]
            \/ writer' \in [pc : {"check", "insert"}, item : Reading]
        BY <3>0 DEF Shape
      <4> QED  BY <3>0, <4>1 DEF Shape
    <3>2. Life'
      BY <2>1, <2>4 DEF WriterFindsLink, WriterExit, Life
    <3> QED  BY <3>1, <3>2
  <2> QED  BY <1>7, <2>2, <2>3, <2>4, <2>5
<1>8. ASSUME QueryHistory PROVE Shape' /\ Life'
  <2>1. connected' \in BOOLEAN /\ alive' \in BOOLEAN
    BY <1>8, LinksType DEF QueryHistory
  <2>2. UNCHANGED <<main, running, sent, http, received, valid, invalid, dropped, sensorQ, loop, simsRun,
                    outputDropped, simQ, alarm, checks, writer, simsStored, reachable, fate>>
    BY <1>8 DEF QueryHistory
  <2>7. Shape'
    BY <2>1, <2>2 DEF Shape
  <2>8. Life'
    BY <2>2 DEF Life
  <2> QED  BY <2>7, <2>8
<1>9. ASSUME SendKills \/ ServerFails \/ ServerReturns PROVE Shape' /\ Life'
  <2>0. /\ UNCHANGED <<running, sent, http, received, valid, invalid, dropped, sensorQ, loop, simsRun,
                       outputDropped, simQ, alarm, checks, writer, simsStored, connected, fate>>
        /\ main' \in {main, "killed"} /\ alive' \in {alive, FALSE} /\ reachable' \in {FALSE, TRUE, reachable}
    BY <1>9 DEF SendKills, ServerFails, ServerReturns
  <2>1. Shape'
    <3>1. /\ main' \in {"new", "up", "closed", "appDown", "simulatorDown", "alarmDown", "stopped", "killed"}
          /\ alive' \in BOOLEAN /\ reachable' \in BOOLEAN
      BY <2>0 DEF Shape
    <3> QED  BY <2>0, <3>1 DEF Shape
  <2>2. Life'
    BY <2>0 DEF Life
  <2> QED  BY <2>1, <2>2
<1>10. ASSUME Start \/ CloseHttp \/ StopApp \/ StopSimulator \/ StopAlarm \/ JoinWriters PROVE Shape' /\ Life'
  <2>1. CASE Start
    <3>1. Shape'
      BY <2>1 DEF Start, MainGoto, Component, Shape
    <3>2. Life'
      BY <2>1 DEF Start, MainGoto, Component, Life
    <3> QED  BY <3>1, <3>2
  <2>2. CASE CloseHttp
    <3>1. Shape'
      BY <2>2 DEF CloseHttp, MainGoto, Shape
    <3>2. Life'
      BY <2>2 DEF CloseHttp, MainGoto, Life
    <3> QED  BY <3>1, <3>2
  <2>3. CASE StopApp \/ StopSimulator \/ StopAlarm
    <3>1. Shape'
      BY <2>3 DEF StopApp, StopSimulator, StopAlarm, MainGoto, Shape
    <3>2. Life'
      BY <2>3 DEF StopApp, StopSimulator, StopAlarm, MainGoto, Life
    <3> QED  BY <3>1, <3>2
  <2>4. CASE JoinWriters
    <3>1. Shape'
      BY <2>4 DEF JoinWriters, MainGoto, Shape
    <3>2. Life'
      BY <2>4 DEF JoinWriters, MainGoto, Life
    <3> QED  BY <3>1, <3>2
  <2> QED  BY <1>10, <2>1, <2>2, <2>3, <2>4
<1>11. ASSUME Finished PROVE Shape' /\ Life'
  <2>1. Shape'
    BY <1>11 DEF Finished, vars, Shape
  <2>2. Life'
    BY <1>11 DEF Finished, vars, Life
  <2> QED  BY <2>1, <2>2
<1> QED  BY <1>1, <1>2, <1>3, <1>4, <1>5, <1>6, <1>7, <1>8, <1>9, <1>10, <1>11
         DEF Next, HttpStep, LoopStep, AlarmStep, WriterStep, StopStep
-----------------------------------------------------------------------------
(* Every step leaves the readings where they are, or moves one of them     *)
(* along an edge of ReadingJourney.                                        *)

Stay(r) == \A stage \in Stages : In(r, stage) => In(r, stage)'
Moved(r, from, to) == In(r, from) /\ In(r, to)' /\ \A q \in Reading \ {r} : Stay(q)

\* A reading that nobody has any more and that has one fate is at its end.
LEMMA AtItsEnd ==
  ASSUME NEW r \in Reading, NEW how \in Fates,
         http'.item # r /\ alarm'.item # r /\ writer'.item # r,
         Times(r, sensorQ)' = 0 /\ Held(r)' = 0 /\ Times(r, simQ)' = 0,
         fate'[r] = {how}, (r <= sent)'
  PROVE  In(r, how)'
<1>1. how \notin {"unsent", "validating", "queued", "simulating", "result", "checking", "storing"}
  BY DEF Fates
<1>2. Unit(how = "queued") = 0 /\ Unit(how = "simulating") = 0 /\ Unit(how = "result") = 0
  BY <1>1 DEF Unit
<1> QED  BY <1>1, <1>2 DEF In

\* Who has a reading tells its stage.
LEMMA Found ==
  ASSUME Placed, NEW r \in Reading
  PROVE  /\ http.item = r => In(r, "validating")
         /\ Times(r, sensorQ) > 0 => In(r, "queued")
         /\ Held(r) > 0 => In(r, "simulating")
         /\ Times(r, simQ) > 0 => In(r, "result")
         /\ alarm.item = r => In(r, "checking")
         /\ writer.item = r => In(r, "storing")
         /\ ~(r <= sent) => In(r, "unsent")
<1>1. PICK stage \in Stages : In(r, stage)
  BY DEF Placed
<1> QED  BY <1>1 DEF In, Unit

\* What is taken from a queue was in it, and the others stay.
LEMMA Popped ==
  ASSUME NEW q \in Seq(Reading), q # <<>>
  PROVE  /\ Head(q) \in Reading
         /\ Times(Head(q), q) = Times(Head(q), Tail(q)) + 1 /\ Times(Head(q), q) > 0
         /\ \A r \in Reading \ {Head(q)} : Times(r, q) = Times(r, Tail(q))
         /\ \A r \in Reading : Times(r, q) \in Nat /\ Times(r, Tail(q)) \in Nat
<1>1. Head(q) \in Reading /\ Tail(q) \in Seq(Reading)
  OBVIOUS
<1>2. \A r \in Reading : Times(r, q) \in Nat /\ Times(r, Tail(q)) \in Nat
  BY <1>1, TimesType
<1>3. \A r \in Reading : Times(r, q) = Times(r, Tail(q)) + Unit(Head(q) = r)
  BY TimesTail
<1>4. Unit(Head(q) = Head(q)) = 1 /\ \A r \in Reading \ {Head(q)} : Unit(Head(q) = r) = 0
  BY DEF Unit
<1>5. Times(Head(q), q) = Times(Head(q), Tail(q)) + 1
  BY <1>1, <1>3, <1>4
<1>6. \A r \in Reading \ {Head(q)} : Times(r, q) = Times(r, Tail(q))
  BY <1>2, <1>3, <1>4
<1> QED  BY <1>1, <1>2, <1>5, <1>6

\* A loop that goes from one item to another.
LEMMA HeldChange ==
  ASSUME Shape, NEW l \in Loops, NEW at, LoopGoto(l, at), NEW r \in Reading
  PROVE  /\ Held(r) \in Nat /\ Held(r)' \in Nat
         /\ Held(r)' + Unit(loop[l].item = r) = Held(r) + Unit(at.item = r)
<1> DEFINE P == {k \in Loops : loop[k].item = r}
           Q == {k \in Loops : loop'[k].item = r}
<1>1. \A k \in Loops : loop'[k] = IF k = l THEN at ELSE loop[k]
  BY DEF LoopGoto, Shape
<1>2. P \subseteq Loops /\ Q \subseteq Loops /\ \A k \in Loops \ {l} : k \in P <=> k \in Q
  BY <1>1
<1>3. (l \in P <=> loop[l].item = r) /\ (l \in Q <=> at.item = r)
  BY <1>1
<1>4. Held(r) = Cardinality(P) /\ Held(r)' = Cardinality(Q)
  BY DEF Held
<1> HIDE DEF P, Q
<1>5. /\ Cardinality(P) \in Nat /\ Cardinality(Q) \in Nat
      /\ Cardinality(Q) + Unit(l \in P) = Cardinality(P) + Unit(l \in Q)
  BY <1>2, PipelineAssumption, CountChange
<1> QED  BY <1>3, <1>4, <1>5 DEF Unit

LEMMA HttpMoves ==
  ASSUME Shape, Placed, RejectUnparsed \/ SkipUnparsed \/ Receive \/ RejectInvalid \/ DropReading \/ QueueReading
  PROVE  \E r \in Reading :
           \/ Moved(r, "unsent", "unparsed") \/ Moved(r, "unsent", "validating")
           \/ Moved(r, "validating", "rejected") \/ Moved(r, "validating", "dropped")
           \/ Moved(r, "validating", "queued")
<1> USE Numbers DEF lifeVars, dtuVars, simVars, alarmVars, writerVars, linkVars, At, Poll, Off
<1>1. CASE RejectUnparsed \/ SkipUnparsed \/ Receive
  <2>1. PICK m \in Reading : m = sent + 1
    BY <1>1, PipelineAssumption DEF RejectUnparsed, SkipUnparsed, Receive, Request, Shape, Reading
  <2>2. /\ sent' = sent + 1 /\ sent \in Nat /\ http.item = NoReading
        /\ UNCHANGED <<sensorQ, loop, simQ, alarm, writer>>
        /\ \A r \in Reading : r # m => (r <= sent <=> r <= sent')
    BY <1>1, <2>1 DEF RejectUnparsed, SkipUnparsed, Receive, Request, Shape
  <2>3. In(m, "unsent")
    BY <2>1, <2>2, Found
  <2>4. CASE RejectUnparsed \/ SkipUnparsed
    <3>1. UNCHANGED http /\ fate' = [fate EXCEPT ![m] = @ \union {"unparsed"}]
      BY <2>1, <2>4 DEF RejectUnparsed, SkipUnparsed, Ends
    <3>2. In(m, "unparsed")'
      BY <2>1, <2>2, <2>3, <3>1 DEF In, Unit, Held, Shape, Fates
    <3>3. \A q \in Reading \ {m} : Stay(q)
      BY <2>2, <3>1 DEF Stay, In, Held, Shape
    <3> QED  BY <2>3, <3>2, <3>3 DEF Moved
  <2>5. CASE Receive
    <3>1. UNCHANGED fate /\ http'.item = m
      BY <2>1, <2>5 DEF Receive
    <3>2. In(m, "validating")'
      BY <2>1, <2>2, <2>3, <3>1 DEF In, Unit, Held, Fates
    <3>3. \A q \in Reading \ {m} : Stay(q)
      BY <2>2, <3>1 DEF Stay, In, Held
    <3> QED  BY <2>3, <3>2, <3>3 DEF Moved
  <2> QED  BY <1>1, <2>4, <2>5
<1>2. CASE RejectInvalid \/ DropReading \/ QueueReading
  <2>1. PICK m \in Reading : m = http.item
    BY <1>2 DEF RejectInvalid, DropReading, QueueReading, Shape
  <2>7. In(m, "validating")
    BY <2>1, Found
  <2>8. http'.item = NoReading /\ UNCHANGED <<sent, loop, simQ, alarm, writer>>
    BY <1>2 DEF RejectInvalid, DropReading, QueueReading
  <2>2. /\ In(m, "validating") /\ http'.item = NoReading
        /\ UNCHANGED <<sent, loop, simQ, alarm, writer>>
    BY <2>7, <2>8
  <2>3. ASSUME NEW how \in {"rejected", "dropped"}, Ends(http.item, how), UNCHANGED sensorQ
        PROVE  Moved(m, "validating", how)
    <3>1. In(m, how)'
      <4>1. fate'[m] = fate[m] \union {how} /\ http'.item # m
        BY <2>1, <2>2, <2>3, Numbers DEF Ends, Shape
      <4>2. /\ alarm.item # m /\ writer.item # m /\ fate[m] = {} /\ m <= sent
            /\ Times(m, sensorQ) = 0 /\ Held(m) = 0 /\ Times(m, simQ) = 0
        BY <2>2 DEF In, Unit, Fates
      <4>3. Times(m, sensorQ)' = 0 /\ Held(m)' = 0 /\ Times(m, simQ)' = 0
        BY <2>2, <2>3, <4>2 DEF Held
      <4>4. fate'[m] = {how} /\ alarm'.item # m /\ writer'.item # m /\ (m <= sent)' /\ how \in Fates
        BY <2>2, <4>1, <4>2 DEF Fates
      <4> QED  BY <4>1, <4>3, <4>4, AtItsEnd
    <3>2. \A q \in Reading \ {m} : Stay(q)
      BY <2>1, <2>2, <2>3 DEF Stay, In, Held, Ends, Shape
    <3> QED  BY <2>2, <3>1, <3>2 DEF Moved
  <2>4. CASE QueueReading
    <3>1. sensorQ' = Append(sensorQ, m) /\ UNCHANGED fate
      BY <2>1, <2>4 DEF QueueReading
    <3>2. \A r : Times(r, sensorQ') = Times(r, sensorQ) + Unit(m = r) /\ Times(r, sensorQ) \in Nat
      <4>1. sensorQ \in Seq(Reading)
        BY DEF Shape
      <4> QED  BY <3>1, <4>1, TimesAppend, TimesType
    <3>3. In(m, "queued")'
      BY <2>1, <2>2, <3>1, <3>2 DEF In, Unit, Held, Fates
    <3>4. \A q \in Reading \ {m} : Stay(q)
      BY <2>1, <2>2, <3>1, <3>2 DEF Stay, In, Held, Unit
    <3> QED  BY <2>2, <3>3, <3>4 DEF Moved
  <2>5. CASE RejectInvalid
    BY <2>3, <2>5 DEF RejectInvalid
  <2>6. CASE DropReading
    BY <2>3, <2>6 DEF DropReading
  <2> QED  BY <1>2, <2>4, <2>5, <2>6
<1> QED  BY <1>1, <1>2

LEMMA LoopMoves ==
  ASSUME Shape, Placed, NEW l \in Loops, LoopTake(l) \/ LoopPush(l) \/ Shed(l)
  PROVE  \E r \in Reading :
           \/ Moved(r, "queued", "simulating") \/ Moved(r, "simulating", "result")
           \/ Moved(r, "simulating", "shed")
<1> USE Numbers DEF lifeVars, dtuVars, simVars, alarmVars, writerVars, linkVars
<1>1. CASE LoopTake(l)
  <2>1. PICK m \in Reading :
          /\ m = Head(sensorQ)
          /\ Times(m, sensorQ) = Times(m, sensorQ') + 1 /\ Times(m, sensorQ) > 0
          /\ \A r \in Reading \ {m} : Times(r, sensorQ) = Times(r, sensorQ')
          /\ \A r \in Reading : Times(r, sensorQ) \in Nat /\ Times(r, sensorQ') \in Nat
    BY <1>1, Popped DEF LoopTake, Shape
  <2>2. /\ sensorQ' = Tail(sensorQ) /\ LoopGoto(l, At("simulate", m)) /\ loop[l].item = NoReading
        /\ UNCHANGED <<sent, http, simQ, alarm, writer, fate>>
    BY <1>1, <2>1 DEF LoopTake, Poll, At
  <2>4. \A r \in Reading : Held(r)' = Held(r) + Unit(m = r) /\ Held(r) \in Nat
    <3> SUFFICES ASSUME NEW r \in Reading PROVE Held(r)' = Held(r) + Unit(m = r) /\ Held(r) \in Nat
      OBVIOUS
    <3>1. At("simulate", m).item = m
      BY DEF At
    <3> QED  BY <2>2, <3>1, HeldChange DEF Unit
  <2>5. In(m, "queued")
    BY <2>1, Found
  <2>6. In(m, "simulating")'
    BY <2>1, <2>2, <2>4, <2>5 DEF In, Unit, Fates
  <2>7. ASSUME NEW q \in Reading \ {m} PROVE Stay(q)
    <3>1. Unit(m = q) = 0
      BY DEF Unit
    <3>2. Held(q)' = Held(q) /\ Times(q, sensorQ') = Times(q, sensorQ)
      BY <2>1, <2>4, <3>1
    <3> QED  BY <2>2, <3>2 DEF Stay, In
  <2> QED  BY <2>5, <2>6, <2>7 DEF Moved
<1>2. CASE LoopPush(l) \/ Shed(l)
  <2>1. PICK m \in Reading : m = loop[l].item
    BY <1>2 DEF LoopPush, Shed, Shape
  <2>2. LoopGoto(l, Poll) /\ UNCHANGED <<sent, http, sensorQ, alarm, writer>>
    BY <1>2 DEF LoopPush, Shed
  <2>3. \A r \in Reading : Held(r) = Held(r)' + Unit(m = r) /\ Held(r)' \in Nat
    <3> SUFFICES ASSUME NEW r \in Reading PROVE Held(r) = Held(r)' + Unit(m = r) /\ Held(r)' \in Nat
      OBVIOUS
    <3>1. PICK at : at = Poll
      OBVIOUS
    <3>2. LoopGoto(l, at) /\ at.item = NoReading /\ loop[l].item = m
      BY <2>1, <2>2, <3>1 DEF At, Poll
    <3>3. /\ Held(r) \in Nat /\ Held(r)' \in Nat
          /\ Held(r)' + Unit(loop[l].item = r) = Held(r) + Unit(at.item = r)
      BY <3>2, HeldChange
    <3>4. Unit(at.item = r) = 0 /\ Unit(loop[l].item = r) = Unit(m = r) /\ Unit(m = r) \in Nat
      BY <3>2 DEF Unit
    <3> QED  BY <3>3, <3>4
  <2>4. In(m, "simulating")
    <3>1. Held(m) > 0
      BY <2>3 DEF Unit
    <3> QED  BY <3>1, Found
  <2>5. CASE LoopPush(l)
    <3>1. simQ' = Append(simQ, m) /\ UNCHANGED fate
      BY <2>1, <2>5 DEF LoopPush
    <3>2. \A r : Times(r, simQ') = Times(r, simQ) + Unit(m = r) /\ Times(r, simQ) \in Nat
      BY <3>1, TimesAppend, TimesType DEF Shape
    <3>3. In(m, "result")'
      BY <2>2, <2>3, <2>4, <3>1, <3>2 DEF In, Unit, Fates
    <3>4. \A q \in Reading \ {m} : Stay(q)
      BY <2>2, <2>3, <3>1, <3>2 DEF Stay, In, Unit
    <3> QED  BY <2>4, <3>3, <3>4 DEF Moved
  <2>6. CASE Shed(l)
    <3>1. UNCHANGED simQ /\ fate' = [fate EXCEPT ![m] = @ \union {"shed"}]
      BY <2>1, <2>6 DEF Shed, Ends
    <3>2. In(m, "shed")'
      BY <2>2, <2>3, <2>4, <3>1 DEF In, Unit, Shape, Fates
    <3>3. \A q \in Reading \ {m} : Stay(q)
      BY <2>2, <2>3, <3>1 DEF Stay, In, Unit, Shape
    <3> QED  BY <2>4, <3>2, <3>3 DEF Moved
  <2> QED  BY <1>2, <2>5, <2>6
<1> QED  BY <1>1, <1>2

\* Taking the first result: what AlarmTake and WriterTake have in common.
LEMMA TakeResult ==
  ASSUME Shape, Placed, simQ # <<>>, simQ' = Tail(simQ), UNCHANGED loop
  PROVE  \E m \in Reading :
           /\ m = Head(simQ) /\ In(m, "result")
           /\ Times(m, simQ) = Times(m, simQ') + 1
           /\ \A r \in Reading \ {m} : Times(r, simQ) = Times(r, simQ')
           /\ \A r \in Reading : Times(r, simQ) \in Nat /\ Times(r, simQ') \in Nat /\ UNCHANGED Held(r)
<1>1. PICK m \in Reading :
        /\ m = Head(simQ)
        /\ Times(m, simQ) = Times(m, simQ') + 1 /\ Times(m, simQ) > 0
        /\ \A r \in Reading \ {m} : Times(r, simQ) = Times(r, simQ')
        /\ \A r \in Reading : Times(r, simQ) \in Nat /\ Times(r, simQ') \in Nat
  BY Popped DEF Shape
<1>2. In(m, "result")
  BY <1>1, Found
<1>3. \A r \in Reading : UNCHANGED Held(r)
  BY DEF Held
<1> QED  BY <1>1, <1>2, <1>3

LEMMA AlarmMoves ==
  ASSUME Shape, Placed, AlarmTake \/ AlarmCheck
  PROVE  \E r \in Reading : Moved(r, "result", "checking") \/ Moved(r, "checking", "checked")
<1> USE Numbers DEF lifeVars, dtuVars, simVars, alarmVars, writerVars, linkVars, At, Poll
<1>1. CASE AlarmTake
  <2>1. UNCHANGED <<sent, http, sensorQ, loop, fate, writer>> /\ simQ # <<>> /\ simQ' = Tail(simQ)
    BY <1>1 DEF AlarmTake
  <2>2. PICK m \in Reading :
          /\ m = Head(simQ) /\ In(m, "result")
          /\ Times(m, simQ) = Times(m, simQ') + 1
          /\ \A r \in Reading \ {m} : Times(r, simQ) = Times(r, simQ')
          /\ \A r \in Reading : Times(r, simQ) \in Nat /\ Times(r, simQ') \in Nat /\ UNCHANGED Held(r)
    BY <2>1, TakeResult
  <2>3. alarm.item = NoReading /\ alarm'.item = m
    BY <1>1, <2>2 DEF AlarmTake
  <2>4. In(m, "checking")'
    BY <2>1, <2>2, <2>3 DEF In, Unit, Fates
  <2>5. \A q \in Reading \ {m} : Stay(q)
    BY <2>1, <2>2, <2>3 DEF Stay, In, Unit
  <2> QED  BY <2>2, <2>4, <2>5 DEF Moved
<1>2. CASE AlarmCheck
  <2>1. PICK m \in Reading : m = alarm.item
    BY <1>2 DEF AlarmCheck, Shape
  <2>2. In(m, "checking")
    BY <2>1, Found
  <2>3. /\ UNCHANGED <<sent, http, sensorQ, loop, simQ, writer>> /\ alarm'.item = NoReading
        /\ fate' = [fate EXCEPT ![m] = @ \union {"checked"}]
    BY <1>2, <2>1 DEF AlarmCheck, Ends
  <2>4. In(m, "checked")'
    <3>1. fate'[m] = fate[m] \union {"checked"} /\ alarm'.item # m
      BY <2>3, Numbers DEF Shape
    <3>2. /\ http.item # m /\ writer.item # m /\ fate[m] = {} /\ m <= sent
          /\ Times(m, sensorQ) = 0 /\ Held(m) = 0 /\ Times(m, simQ) = 0
      BY <2>2 DEF In, Unit, Fates
    <3>3. Times(m, sensorQ)' = 0 /\ Held(m)' = 0 /\ Times(m, simQ)' = 0
      BY <2>3, <3>2 DEF Held
    <3>4. fate'[m] = {"checked"} /\ http'.item # m /\ writer'.item # m /\ (m <= sent)' /\ "checked" \in Fates
      BY <2>3, <3>1, <3>2 DEF Fates
    <3> QED  BY <3>1, <3>3, <3>4, AtItsEnd
  <2>5. \A q \in Reading \ {m} : Stay(q)
    BY <2>1, <2>3 DEF Stay, In, Held, Shape
  <2> QED  BY <2>2, <2>4, <2>5 DEF Moved
<1> QED  BY <1>1, <1>2

LEMMA WriterMoves ==
  ASSUME Shape, Placed, WriterTake \/ WriterDiscard \/ WriterInsert
  PROVE  \E r \in Reading :
           \/ Moved(r, "result", "storing") \/ Moved(r, "storing", "unsaved")
           \/ Moved(r, "storing", "stored") \/ Moved(r, "storing", "failed")
<1> USE Numbers DEF lifeVars, dtuVars, simVars, alarmVars, writerVars, linkVars, At, Poll
<1>1. CASE WriterTake
  <2>1. UNCHANGED <<sent, http, sensorQ, loop, fate, alarm>> /\ simQ # <<>> /\ simQ' = Tail(simQ)
    BY <1>1 DEF WriterTake
  <2>2. PICK m \in Reading :
          /\ m = Head(simQ) /\ In(m, "result")
          /\ Times(m, simQ) = Times(m, simQ') + 1
          /\ \A r \in Reading \ {m} : Times(r, simQ) = Times(r, simQ')
          /\ \A r \in Reading : Times(r, simQ) \in Nat /\ Times(r, simQ') \in Nat /\ UNCHANGED Held(r)
    BY <2>1, TakeResult
  <2>3. writer.item = NoReading /\ writer'.item = m
    BY <1>1, <2>2 DEF WriterTake
  <2>6. /\ Times(m, simQ) = 1 /\ Times(m, sensorQ) = 0 /\ Held(m) = 0 /\ fate[m] = {} /\ m <= sent
        /\ http.item # m /\ alarm.item # m
    BY <2>2 DEF In, Unit, Fates
  <2>4. In(m, "storing")'
    BY <2>1, <2>2, <2>3, <2>6 DEF In, Unit, Fates
  <2>5. \A q \in Reading \ {m} : Stay(q)
    BY <2>1, <2>2, <2>3 DEF Stay, In, Unit
  <2> QED  BY <2>2, <2>4, <2>5 DEF Moved
<1>2. CASE WriterDiscard \/ WriterInsert
  <2>1. PICK m \in Reading : m = writer.item
    BY <1>2 DEF WriterDiscard, WriterInsert, Shape
  <2>2. In(m, "storing")
    BY <2>1, Found
  <2>3. UNCHANGED <<sent, http, sensorQ, loop, simQ, alarm>> /\ writer'.item = NoReading
    BY <1>2 DEF WriterDiscard, WriterInsert
  <2>4. PICK how \in {"unsaved", "stored", "failed"} : fate' = [fate EXCEPT ![m] = @ \union {how}]
    BY <1>2, <2>1 DEF WriterDiscard, WriterInsert, Ends
  <2>5. In(m, how)'
    <3>1. fate'[m] = fate[m] \union {how} /\ writer'.item # m
      BY <2>3, <2>4, Numbers DEF Shape
    <3>2. /\ http.item # m /\ alarm.item # m /\ fate[m] = {} /\ m <= sent
          /\ Times(m, sensorQ) = 0 /\ Held(m) = 0 /\ Times(m, simQ) = 0
      BY <2>2 DEF In, Unit, Fates
    <3>3. Times(m, sensorQ)' = 0 /\ Held(m)' = 0 /\ Times(m, simQ)' = 0
      BY <2>3, <3>2 DEF Held
    <3>4. fate'[m] = {how} /\ http'.item # m /\ alarm'.item # m /\ (m <= sent)' /\ how \in Fates
      BY <2>3, <3>1, <3>2 DEF Fates
    <3> QED  BY <3>1, <3>3, <3>4, AtItsEnd
  <2>6. \A q \in Reading \ {m} : Stay(q)
    BY <2>1, <2>3, <2>4 DEF Stay, In, Held, Shape
  <2> QED  BY <2>2, <2>4, <2>5, <2>6 DEF Moved
<1> QED  BY <1>1, <1>2

\* Nothing that In looks at changes.
LEMMA Undisturbed ==
  ASSUME UNCHANGED <<sent, sensorQ, simQ, fate, http.item, alarm.item, writer.item>>,
         \A l \in Loops : UNCHANGED loop[l].item
  PROVE  \A r \in Reading : Stay(r)
<1>1. \A r \in Reading : {l \in Loops : loop'[l].item = r} = {l \in Loops : loop[l].item = r}
  OBVIOUS
<1>2. \A r \in Reading : Held(r)' = Held(r)
  BY <1>1 DEF Held
<1> QED  BY <1>2 DEF Stay, In

Aside ==
  \/ CountValid \/ QueryHistory \/ SendKills \/ ServerFails \/ ServerReturns
  \/ \E l \in Loops : Simulate(l) \/ LoopExit(l)
  \/ AlarmExit \/ WriterFindsLink \/ WriterExit
  \/ Start \/ CloseHttp \/ StopApp \/ StopSimulator \/ StopAlarm \/ JoinWriters
  \/ UNCHANGED vars

LEMMA OthersStay ==
  ASSUME Shape, Life, Aside
  PROVE  \A r \in Reading : Stay(r)
<1> USE DEF lifeVars, dtuVars, simVars, alarmVars, writerVars, linkVars, At, Poll, Off
<1>1. UNCHANGED <<sent, sensorQ, simQ, fate>>
  BY DEF Aside, vars, CountValid, QueryHistory, SendKills, ServerFails, ServerReturns, Simulate, LoopExit, AlarmExit,
         WriterFindsLink, WriterExit, Start, CloseHttp, StopApp, StopSimulator, StopAlarm, JoinWriters
<1>2. CASE Start
  <2>1. http = Off /\ alarm = Off /\ writer = Off /\ \A l \in Loops : loop[l] = Off
    BY <1>2 DEF Start, MainGoto, Life
  <2>2. UNCHANGED <<http.item, alarm.item, writer.item>> /\ \A l \in Loops : UNCHANGED loop[l].item
    BY <1>2, <2>1 DEF Start
  <2> QED  BY <1>1, <2>2, Undisturbed
<1>3. CASE \E l \in Loops : Simulate(l) \/ LoopExit(l)
  <2>1. UNCHANGED <<http.item, alarm.item, writer.item>>
    BY <1>3 DEF Simulate, LoopExit
  <2>2. \A l \in Loops : UNCHANGED loop[l].item
    BY <1>3 DEF Simulate, LoopExit, LoopGoto, Shape
  <2> QED  BY <1>1, <2>1, <2>2, Undisturbed
<1>4. CASE ~Start /\ ~\E l \in Loops : Simulate(l) \/ LoopExit(l)
  <2>1. UNCHANGED loop
    BY <1>4 DEF Aside, vars, CountValid, QueryHistory, SendKills, ServerFails, ServerReturns, AlarmExit,
                WriterFindsLink, WriterExit, CloseHttp, StopApp, StopSimulator, StopAlarm, JoinWriters
  <2>2. UNCHANGED <<http.item, alarm.item, writer.item>>
    BY <1>4 DEF Aside, vars, CountValid, QueryHistory, SendKills, ServerFails, ServerReturns, AlarmExit, Shape,
                WriterFindsLink, WriterExit, CloseHttp, StopApp, StopSimulator, StopAlarm, JoinWriters
  <2> QED  BY <1>1, <2>1, <2>2, Undisturbed
<1> QED  BY <1>2, <1>3, <1>4

Onward == Journey!Onward

LEMMA StepMoves ==
  ASSUME Shape, Life, Placed, [Next]_vars
  PROVE  \/ \A r \in Reading : Stay(r)
         \/ \E r \in Reading : \E from \in DOMAIN Onward : \E to \in Onward[from] : Moved(r, from, to)
<1>1. /\ DOMAIN Onward = {"unsent", "validating", "queued", "simulating", "result", "checking", "storing"}
      /\ Onward["unsent"] = {"unparsed", "validating"}
      /\ Onward["validating"] = {"rejected", "dropped", "queued"}
      /\ Onward["queued"] = {"simulating"} /\ Onward["simulating"] = {"shed", "result"}
      /\ Onward["result"] = {"checking", "storing"} /\ Onward["checking"] = {"checked"}
      /\ Onward["storing"] = {"stored", "failed", "unsaved"}
  BY DEF Onward, Journey!Onward
<1>2. CASE RejectUnparsed \/ SkipUnparsed \/ Receive \/ RejectInvalid \/ DropReading \/ QueueReading
  BY <1>1, <1>2, HttpMoves
<1>3. CASE \E l \in Loops : LoopTake(l) \/ LoopPush(l) \/ Shed(l)
  BY <1>1, <1>3, LoopMoves
<1>4. CASE AlarmTake \/ AlarmCheck
  BY <1>1, <1>4, AlarmMoves
<1>5. CASE WriterTake \/ WriterDiscard \/ WriterInsert
  BY <1>1, <1>5, WriterMoves
<1>6. CASE Aside
  BY <1>6, OthersStay
<1> QED  BY <1>2, <1>3, <1>4, <1>5, <1>6
         DEF Next, HttpStep, LoopStep, AlarmStep, WriterStep, StopStep, Finished, Aside

LEMMA PlacedInit == Init => Placed
<1> SUFFICES ASSUME Init, NEW r \in Reading PROVE In(r, "unsent")
  BY DEF Placed, Stages
<1> USE Numbers DEF Init
<1>1. {l \in Loops : loop[l].item = r} = {}
  BY DEF Off, At
<1>2. Held(r) = 0
  BY <1>1, FS_EmptySet DEF Held
<1>3. Times(r, sensorQ) = 0 /\ Times(r, simQ) = 0
  BY TimesNone
<1>4. ~(r <= sent)
  BY DEF Reading
<1>5. http.item # r /\ alarm.item # r /\ writer.item # r /\ fate[r] = {}
  BY DEF Off, At
<1> QED  BY <1>2, <1>3, <1>4, <1>5 DEF In, Unit, Fates

LEMMA PlacedKept ==
  ASSUME Shape, Life, Placed, [Next]_vars
  PROVE  Placed'
<1>1. CASE \A r \in Reading : Stay(r)
  BY <1>1 DEF Placed, Stay
<1>2. CASE \E r \in Reading : \E from \in DOMAIN Onward : \E to \in Onward[from] : Moved(r, from, to)
  <2>1. PICK r \in Reading, from \in DOMAIN Onward : \E to \in Onward[from] : Moved(r, from, to)
    BY <1>2
  <2>2. PICK to \in Onward[from] : Moved(r, from, to)
    BY <2>1
  <2>3. to \in Stages
    BY DEF Onward, Journey!Onward, Stages, Fates
  <2> QED  BY <2>2, <2>3 DEF Moved, Placed, Stay
<1> QED  BY <1>1, <1>2, StepMoves
-----------------------------------------------------------------------------
(* The counters                                                            *)

Simulating == Cardinality({l \in Loops : loop[l].pc = "simulate"})
Laden == Cardinality({l \in Loops : loop[l].item # NoReading})
Undecided == Unit(http.pc \in {"validate", "queued"})
Uncounted == Unit(http.pc = "queued")
AlarmHas == Busy(alarm)
WriterHas == Busy(writer)
Unsaved == Met("unsaved")

\* Every request counts once at most, and every reading queued is simulated or waits.
Taken == received <= sent /\ valid + invalid + dropped + Undecided <= sent
Simulated == simsRun + Len(sensorQ) + Simulating = valid + Uncounted
Early == Len(sensorQ) + Laden + outputDropped
Checked == AlarmHas + checks
Written == WriterHas + simsStored + Unsaved
Balance == valid + Uncounted = Early + Len(simQ) + Checked + Written

Counts == Taken /\ Simulated /\ Balance

LEMMA Countable ==
  /\ \A f : Cardinality({l \in Loops : f[l].pc = "simulate"}) \in Nat
  /\ \A f : Cardinality({l \in Loops : f[l].item # NoReading}) \in Nat
  /\ \A f : Cardinality({r \in Reading : "unsaved" \in f[r]}) \in Nat
<1>1. \A S : S \subseteq Loops => Cardinality(S) \in Nat
  BY PipelineAssumption, FS_Subset, FS_CardinalityType
<1>4. IsFiniteSet(Reading)
  BY PipelineAssumption, FS_Interval DEF Reading
<1>2. \A S : S \subseteq Reading => Cardinality(S) \in Nat
  BY <1>4, FS_Subset, FS_CardinalityType
<1>3. \A f : /\ {l \in Loops : f[l].pc = "simulate"} \subseteq Loops
             /\ {l \in Loops : f[l].item # NoReading} \subseteq Loops
             /\ {r \in Reading : "unsaved" \in f[r]} \subseteq Reading
  OBVIOUS
<1> QED  BY <1>1, <1>2, <1>3

LEMMA CountsTypes ==
  ASSUME Shape, Shape'
  PROVE  /\ Simulating \in Nat /\ Laden \in Nat /\ Unsaved \in Nat
         /\ Undecided \in Nat /\ Uncounted \in Nat /\ AlarmHas \in Nat /\ WriterHas \in Nat
         /\ Len(sensorQ) \in Nat /\ Len(simQ) \in Nat
         /\ sent \in Nat /\ received \in Nat /\ valid \in Nat /\ invalid \in Nat /\ dropped \in Nat
         /\ simsRun \in Nat /\ outputDropped \in Nat /\ checks \in Nat /\ simsStored \in Nat
         /\ Unsaved' \in Nat /\ AlarmHas' \in Nat /\ WriterHas' \in Nat
         /\ Len(simQ') \in Nat /\ checks' \in Nat /\ simsStored' \in Nat
<1>1. Simulating \in Nat /\ Laden \in Nat /\ Unsaved \in Nat /\ Unsaved' \in Nat
  BY Countable DEF Simulating, Laden, Met, Unsaved
<1>2. /\ Undecided \in Nat /\ Uncounted \in Nat /\ AlarmHas \in Nat /\ WriterHas \in Nat
      /\ AlarmHas' \in Nat /\ WriterHas' \in Nat
  BY DEF Undecided, Uncounted, AlarmHas, WriterHas, Busy, Unit
<1>6. sensorQ \in Seq(Reading) /\ simQ \in Seq(Reading)
  BY DEF Shape
<1>7. Len(sensorQ) \in Nat /\ Len(simQ) \in Nat
  BY <1>6
<1>3. /\ sent \in Nat /\ received \in Nat /\ valid \in Nat /\ invalid \in Nat /\ dropped \in Nat
      /\ simsRun \in Nat /\ outputDropped \in Nat /\ checks \in Nat /\ simsStored \in Nat
  BY PipelineAssumption DEF Shape
<1>4. simQ' \in Seq(Reading) /\ checks' \in Nat /\ simsStored' \in Nat
  BY DEF Shape
<1>5. Len(simQ') \in Nat
  BY <1>4
<1> QED  BY <1>1, <1>2, <1>3, <1>4, <1>5, <1>7

LEMMA LoopsChange ==
  ASSUME Shape, NEW l \in Loops, NEW at, LoopGoto(l, at)
  PROVE  /\ loop[l].pc # "simulate" /\ at.pc = "simulate" => Simulating' = Simulating + 1
         /\ loop[l].pc = "simulate" /\ at.pc # "simulate" => Simulating' = Simulating - 1
         /\ (loop[l].pc = "simulate" <=> at.pc = "simulate") => Simulating' = Simulating
         /\ loop[l].item = NoReading /\ at.item # NoReading => Laden' = Laden + 1
         /\ loop[l].item # NoReading /\ at.item = NoReading => Laden' = Laden - 1
         /\ (loop[l].item = NoReading <=> at.item = NoReading) => Laden' = Laden
<1>1. \A k \in Loops : loop'[k] = IF k = l THEN at ELSE loop[k]
  BY DEF LoopGoto, Shape
<1>2. ASSUME NEW P, NEW Q, P \subseteq Loops, Q \subseteq Loops, \A k \in Loops \ {l} : k \in P <=> k \in Q
      PROVE  /\ l \notin P /\ l \in Q => Cardinality(Q) = Cardinality(P) + 1
             /\ l \in P /\ l \notin Q => Cardinality(Q) = Cardinality(P) - 1
             /\ (l \in P <=> l \in Q) => Cardinality(Q) = Cardinality(P)
  <2>1. /\ Cardinality(P) \in Nat /\ Cardinality(Q) \in Nat
        /\ Cardinality(Q) + Unit(l \in P) = Cardinality(P) + Unit(l \in Q)
    BY <1>2, PipelineAssumption, CountChange
  <2> QED  BY <2>1 DEF Unit
<1>3. /\ loop[l].pc # "simulate" /\ at.pc = "simulate" => Simulating' = Simulating + 1
      /\ loop[l].pc = "simulate" /\ at.pc # "simulate" => Simulating' = Simulating - 1
      /\ (loop[l].pc = "simulate" <=> at.pc = "simulate") => Simulating' = Simulating
  <2> DEFINE P == {k \in Loops : loop[k].pc = "simulate"}
             Q == {k \in Loops : loop'[k].pc = "simulate"}
  <2>1. P \subseteq Loops /\ Q \subseteq Loops /\ \A k \in Loops \ {l} : k \in P <=> k \in Q
    BY <1>1
  <2>2. (l \in P <=> loop[l].pc = "simulate") /\ (l \in Q <=> at.pc = "simulate")
    BY <1>1
  <2>3. Simulating = Cardinality(P) /\ Simulating' = Cardinality(Q)
    BY DEF Simulating
  <2> HIDE DEF P, Q
  <2>4. /\ l \notin P /\ l \in Q => Cardinality(Q) = Cardinality(P) + 1
        /\ l \in P /\ l \notin Q => Cardinality(Q) = Cardinality(P) - 1
        /\ (l \in P <=> l \in Q) => Cardinality(Q) = Cardinality(P)
    BY <1>2, <2>1
  <2> QED  BY <2>2, <2>3, <2>4
<1>4. /\ loop[l].item = NoReading /\ at.item # NoReading => Laden' = Laden + 1
      /\ loop[l].item # NoReading /\ at.item = NoReading => Laden' = Laden - 1
      /\ (loop[l].item = NoReading <=> at.item = NoReading) => Laden' = Laden
  <2> DEFINE P == {k \in Loops : loop[k].item # NoReading}
             Q == {k \in Loops : loop'[k].item # NoReading}
  <2>1. P \subseteq Loops /\ Q \subseteq Loops /\ \A k \in Loops \ {l} : k \in P <=> k \in Q
    BY <1>1
  <2>2. (l \in P <=> loop[l].item # NoReading) /\ (l \in Q <=> at.item # NoReading)
    BY <1>1
  <2>3. Laden = Cardinality(P) /\ Laden' = Cardinality(Q)
    BY DEF Laden
  <2> HIDE DEF P, Q
  <2>4. /\ l \notin P /\ l \in Q => Cardinality(Q) = Cardinality(P) + 1
        /\ l \in P /\ l \notin Q => Cardinality(Q) = Cardinality(P) - 1
        /\ (l \in P <=> l \in Q) => Cardinality(Q) = Cardinality(P)
    BY <1>2, <2>1
  <2> QED  BY <2>2, <2>3, <2>4
<1> QED  BY <1>3, <1>4

LEMMA UnsavedChange ==
  ASSUME Shape, NEW r \in Reading, NEW how, Ends(r, how)
  PROVE  /\ how # "unsaved" => UNCHANGED Unsaved
         /\ how = "unsaved" /\ fate[r] = {} => Unsaved' = Unsaved + 1
<1> DEFINE P == {q \in Reading : "unsaved" \in fate[q]}
           Q == {q \in Reading : "unsaved" \in fate'[q]}
<1>1. \A q \in Reading : fate'[q] = IF q = r THEN fate[q] \union {how} ELSE fate[q]
  BY DEF Ends, Shape
<1>2. Unsaved = Cardinality(P) /\ Unsaved' = Cardinality(Q)
  BY DEF Met, Unsaved
<1>3. ASSUME how # "unsaved" PROVE UNCHANGED Unsaved
  <2>1. P = Q
    BY <1>1, <1>3
  <2> QED  BY <1>2, <2>1
<1>4. ASSUME how = "unsaved", fate[r] = {} PROVE Unsaved' = Unsaved + 1
  <2>1. IsFiniteSet(Reading)
    BY PipelineAssumption, FS_Interval DEF Reading
  <2>2. P \subseteq Reading /\ Q \subseteq Reading /\ \A q \in Reading \ {r} : q \in P <=> q \in Q
    BY <1>1
  <2>3. r \notin P /\ r \in Q
    BY <1>1, <1>4
  <2> HIDE DEF P, Q
  <2>4. /\ Cardinality(P) \in Nat /\ Cardinality(Q) \in Nat
        /\ Cardinality(Q) + Unit(r \in P) = Cardinality(P) + Unit(r \in Q)
    BY <2>1, <2>2, CountChange
  <2> QED  BY <1>2, <2>3, <2>4 DEF Unit
<1> QED  BY <1>3, <1>4

LEMMA CountsInit == Init => Counts
<1> SUFFICES ASSUME Init PROVE Counts
  OBVIOUS
<1> USE DEF Init, Off, At
<1>1. {l \in Loops : loop[l].pc = "simulate"} = {} /\ {l \in Loops : loop[l].item # NoReading} = {}
  OBVIOUS
<1>2. {r \in Reading : "unsaved" \in fate[r]} = {}
  OBVIOUS
<1>3. Simulating = 0 /\ Laden = 0 /\ Unsaved = 0
  BY <1>1, <1>2, FS_EmptySet DEF Simulating, Laden, Met, Unsaved
<1>4. Len(sensorQ) = 0 /\ Len(simQ) = 0
  OBVIOUS
<1>5. Undecided = 0 /\ Uncounted = 0 /\ AlarmHas = 0 /\ WriterHas = 0
  BY DEF Undecided, Uncounted, AlarmHas, WriterHas, Busy, Unit
<1> QED  BY <1>3, <1>4, <1>5 DEF Counts, Taken, Simulated, Balance, Early, Checked, Written

LEMMA CountsKept ==
  ASSUME Shape, Life, Placed, Counts, Next
  PROVE  Counts'
<1> USE DEF lifeVars, dtuVars, simVars, alarmVars, writerVars, linkVars
<1>0. Shape' /\ Life' /\ NoReading \notin Reading
  BY ShapeKept, Numbers
<1>1. /\ UNCHANGED loop => UNCHANGED <<Simulating, Laden>>
      /\ UNCHANGED fate => UNCHANGED Unsaved
      /\ UNCHANGED http => UNCHANGED <<Undecided, Uncounted>>
      /\ UNCHANGED alarm => UNCHANGED AlarmHas
      /\ UNCHANGED writer => UNCHANGED WriterHas
  BY DEF Simulating, Laden, Met, Unsaved, Undecided, Uncounted, AlarmHas, WriterHas
<1>2. /\ http.pc = "poll" \/ http.pc = "off" => Undecided = 0 /\ Uncounted = 0
      /\ http.pc = "validate" => Undecided = 1 /\ Uncounted = 0
      /\ http.pc = "queued" => Undecided = 1 /\ Uncounted = 1
      /\ http'.pc = "poll" \/ http'.pc = "off" => Undecided' = 0 /\ Uncounted' = 0
      /\ http'.pc = "validate" => Undecided' = 1 /\ Uncounted' = 0
      /\ http'.pc = "queued" => Undecided' = 1 /\ Uncounted' = 1
  BY DEF Undecided, Uncounted, Unit
<1>3. /\ AlarmHas = (IF alarm.item = NoReading THEN 0 ELSE 1)
      /\ AlarmHas' = (IF alarm'.item = NoReading THEN 0 ELSE 1)
      /\ WriterHas = (IF writer.item = NoReading THEN 0 ELSE 1)
      /\ WriterHas' = (IF writer'.item = NoReading THEN 0 ELSE 1)
  BY DEF AlarmHas, WriterHas, Busy, Unit
<1>13. /\ Simulating \in Nat /\ Laden \in Nat /\ Unsaved \in Nat
       /\ Undecided \in Nat /\ Uncounted \in Nat /\ AlarmHas \in Nat /\ WriterHas \in Nat
       /\ Len(sensorQ) \in Nat /\ Len(simQ) \in Nat
       /\ sent \in Nat /\ received \in Nat /\ valid \in Nat /\ invalid \in Nat /\ dropped \in Nat
       /\ simsRun \in Nat /\ outputDropped \in Nat /\ checks \in Nat /\ simsStored \in Nat
       /\ Unsaved' \in Nat /\ AlarmHas' \in Nat /\ WriterHas' \in Nat
       /\ Len(simQ') \in Nat /\ checks' \in Nat /\ simsStored' \in Nat
  BY <1>0, CountsTypes
<1>4. CASE RejectUnparsed \/ SkipUnparsed \/ Receive
  <2>1. sent + 1 \in Reading /\ sent' = sent + 1 /\ http.pc = "poll"
    BY <1>4, PipelineAssumption DEF RejectUnparsed, SkipUnparsed, Receive, Request, Shape, Reading, Poll, At
  <2>2. UNCHANGED Unsaved
    <3>1. UNCHANGED fate \/ Ends(sent + 1, "unparsed")
      BY <1>4 DEF RejectUnparsed, SkipUnparsed, Receive
    <3> QED  BY <1>1, <2>1, <3>1, UnsavedChange
  <2>3. UNCHANGED <<sensorQ, simQ, loop, valid, dropped, simsRun, outputDropped, alarm, checks, writer, simsStored>>
    BY <1>4 DEF RejectUnparsed, SkipUnparsed, Receive
  <2>4. \/ received' = received /\ invalid' \in {invalid, invalid + 1} /\ http' = http
        \/ received' = received + 1 /\ invalid' = invalid /\ http'.pc = "validate"
    BY <1>4 DEF RejectUnparsed, SkipUnparsed, Receive, At
  <2>7. Taken'
    BY <1>0, <1>1, <1>2, <2>1, <2>2, <2>3, <2>4, <1>13 DEF Counts, Taken
  <2>8. Simulated'
    BY <1>0, <1>1, <1>2, <2>1, <2>2, <2>3, <2>4, <1>13 DEF Counts, Simulated
  <2>9. Balance'
    BY <1>0, <1>1, <1>2, <2>1, <2>2, <2>3, <2>4, <1>13 DEF Counts, Balance, Early, Checked, Written
  <2> QED  BY <2>7, <2>8, <2>9 DEF Counts
<1>5. CASE RejectInvalid \/ DropReading
  <2>1. http.item \in Reading /\ http.pc = "validate"
    BY <1>5 DEF RejectInvalid, DropReading, Shape
  <2>2. UNCHANGED Unsaved
    BY <1>5, <2>1, UnsavedChange DEF RejectInvalid, DropReading
  <2>3. /\ UNCHANGED <<sent, sensorQ, simQ, loop, received, valid, simsRun, outputDropped, alarm, checks, writer,
                       simsStored>>
        /\ http'.pc = "poll"
        /\ \/ invalid' = invalid + 1 /\ dropped' = dropped
           \/ invalid' = invalid /\ dropped' = dropped + 1
    BY <1>5 DEF RejectInvalid, DropReading, Poll, At
  <2>7. Taken'
    BY <1>1, <1>2, <2>1, <2>2, <2>3, <1>13 DEF Counts, Taken
  <2>8. Simulated'
    BY <1>1, <1>2, <2>1, <2>2, <2>3, <1>13 DEF Counts, Simulated
  <2>9. Balance'
    BY <1>1, <1>2, <2>1, <2>2, <2>3, <1>13 DEF Counts, Balance, Early, Checked, Written
  <2> QED  BY <2>7, <2>8, <2>9 DEF Counts
<1>6. CASE QueueReading
  <2>1. /\ UNCHANGED <<sent, fate, simQ, loop, received, valid, invalid, dropped, simsRun, outputDropped, alarm,
                       checks, writer, simsStored>>
        /\ http.pc = "validate" /\ http'.pc = "queued"
    BY <1>6 DEF QueueReading, At
  <2>2. Len(sensorQ') = Len(sensorQ) + 1
    BY <1>6 DEF QueueReading, Shape
  <2>7. Taken'
    BY <1>1, <1>2, <2>1, <2>2, <1>13 DEF Counts, Taken
  <2>8. Simulated'
    BY <1>1, <1>2, <2>1, <2>2, <1>13 DEF Counts, Simulated
  <2>9. Balance'
    BY <1>1, <1>2, <2>1, <2>2, <1>13 DEF Counts, Balance, Early, Checked, Written
  <2> QED  BY <2>7, <2>8, <2>9 DEF Counts
<1>7. CASE CountValid
  <2>1. /\ UNCHANGED <<sent, fate, sensorQ, simQ, loop, received, invalid, dropped, simsRun, outputDropped, alarm,
                       checks, writer, simsStored>>
        /\ http.pc = "queued" /\ http'.pc = "poll" /\ valid' = valid + 1
    BY <1>7 DEF CountValid, Poll, At
  <2>7. Taken'
    BY <1>1, <1>2, <2>1, <1>13 DEF Counts, Taken
  <2>8. Simulated'
    BY <1>1, <1>2, <2>1, <1>13 DEF Counts, Simulated
  <2>9. Balance'
    BY <1>1, <1>2, <2>1, <1>13 DEF Counts, Balance, Early, Checked, Written
  <2> QED  BY <2>7, <2>8, <2>9 DEF Counts
<1>8. ASSUME NEW l \in Loops, LoopTake(l) \/ Simulate(l) \/ LoopPush(l) \/ Shed(l) \/ LoopExit(l)
      PROVE  Counts'
  <2>1. UNCHANGED <<sent, http, received, valid, invalid, dropped, alarm, checks, writer, simsStored>>
    BY <1>8 DEF LoopTake, Simulate, LoopPush, Shed, LoopExit
  <2>2. CASE LoopTake(l)
    <3>1. Len(sensorQ') = Len(sensorQ) - 1 /\ Head(sensorQ) \in Reading
      BY <2>2 DEF LoopTake, Shape
    <3>2. Simulating' = Simulating + 1 /\ Laden' = Laden + 1
      <4>1. PICK at : at = At("simulate", Head(sensorQ))
        OBVIOUS
      <4>2. LoopGoto(l, at) /\ loop[l].pc = "poll" /\ loop[l].item = NoReading
        BY <2>2, <4>1 DEF LoopTake, Poll, At
      <4>3. at.pc = "simulate" /\ at.item # NoReading
        BY <1>0, <3>1, <4>1 DEF At
      <4> QED  BY <4>2, <4>3, LoopsChange
    <3>3. UNCHANGED <<simQ, simsRun, outputDropped, fate>>
      BY <2>2 DEF LoopTake
    <3>7. Taken'
      BY <1>1, <2>1, <3>1, <3>2, <3>3, <1>13 DEF Counts, Taken
    <3>8. Simulated'
      BY <1>1, <2>1, <3>1, <3>2, <3>3, <1>13 DEF Counts, Simulated
    <3>9. Balance'
      BY <1>1, <2>1, <3>1, <3>2, <3>3, <1>13 DEF Counts, Balance, Early, Checked, Written
    <3> QED  BY <3>7, <3>8, <3>9 DEF Counts
  <2>3. CASE Simulate(l)
    <3>1. Simulating' = Simulating - 1 /\ Laden' = Laden
      <4>1. LoopGoto(l, At("push", loop[l].item)) /\ loop[l].pc = "simulate" /\ loop[l].item # NoReading
        BY <1>0, <2>3 DEF Simulate, Shape
      <4>2. At("push", loop[l].item).pc = "push" /\ At("push", loop[l].item).item # NoReading
        BY <4>1 DEF At
      <4>3. PICK at : at = At("push", loop[l].item)
        OBVIOUS
      <4>4. LoopGoto(l, at) /\ at.pc = "push" /\ at.item # NoReading
        BY <4>1, <4>2, <4>3
      <4> QED  BY <4>1, <4>4, LoopsChange
    <3>2. UNCHANGED <<sensorQ, simQ, outputDropped, fate>> /\ simsRun' = simsRun + 1
      BY <2>3 DEF Simulate
    <3>7. Taken'
      BY <1>1, <2>1, <3>1, <3>2, <1>13 DEF Counts, Taken
    <3>8. Simulated'
      BY <1>1, <2>1, <3>1, <3>2, <1>13 DEF Counts, Simulated
    <3>9. Balance'
      BY <1>1, <2>1, <3>1, <3>2, <1>13 DEF Counts, Balance, Early, Checked, Written
    <3> QED  BY <3>7, <3>8, <3>9 DEF Counts
  <2>4. CASE LoopPush(l) \/ Shed(l)
    <3>1. loop[l].item \in Reading
      BY <2>4 DEF LoopPush, Shed, Shape
    <3>2. Simulating' = Simulating /\ Laden' = Laden - 1
      <4>1. PICK at : at = Poll
        OBVIOUS
      <4>2. LoopGoto(l, at) /\ loop[l].pc = "push" /\ loop[l].item # NoReading
        BY <1>0, <2>4, <3>1, <4>1 DEF LoopPush, Shed
      <4>3. at.pc = "poll" /\ at.item = NoReading
        BY <4>1 DEF Poll, At
      <4> QED  BY <4>2, <4>3, LoopsChange
    <3>3. \/ Len(simQ') = Len(simQ) + 1 /\ outputDropped' = outputDropped
          \/ Len(simQ') = Len(simQ) /\ outputDropped' = outputDropped + 1
      BY <2>4, <3>1 DEF LoopPush, Shed, Shape
    <3>4. UNCHANGED Unsaved
      <4>1. UNCHANGED fate \/ Ends(loop[l].item, "shed")
        BY <2>4 DEF LoopPush, Shed
      <4> QED  BY <1>1, <3>1, <4>1, UnsavedChange
    <3>5. UNCHANGED <<sensorQ, simsRun>>
      BY <2>4 DEF LoopPush, Shed
    <3>7. Taken'
      BY <1>1, <2>1, <3>2, <3>3, <3>4, <3>5, <1>13 DEF Counts, Taken
    <3>8. Simulated'
      BY <1>1, <2>1, <3>2, <3>3, <3>4, <3>5, <1>13 DEF Counts, Simulated
    <3>9. Balance'
      <4>1. /\ UNCHANGED <<valid, Uncounted, checks, simsStored, AlarmHas, WriterHas, Unsaved>>
            /\ Len(sensorQ') = Len(sensorQ) /\ Laden' = Laden - 1
        BY <1>1, <2>1, <3>2, <3>4, <3>5
      <4>2. CASE Len(simQ') = Len(simQ) + 1 /\ outputDropped' = outputDropped
        BY <1>13, <4>1, <4>2 DEF Counts, Balance, Early, Checked, Written
      <4>3. CASE Len(simQ') = Len(simQ) /\ outputDropped' = outputDropped + 1
        BY <1>13, <4>1, <4>3 DEF Counts, Balance, Early, Checked, Written
      <4> QED  BY <3>3, <4>2, <4>3
    <3> QED  BY <3>7, <3>8, <3>9 DEF Counts
  <2>5. CASE LoopExit(l)
    <3>1. Simulating' = Simulating /\ Laden' = Laden
      <4>1. PICK at : at = Off
        OBVIOUS
      <4>2. LoopGoto(l, at) /\ loop[l].pc = "poll" /\ loop[l].item = NoReading
        BY <2>5, <4>1 DEF LoopExit, Poll, At
      <4>3. at.pc = "off" /\ at.item = NoReading
        BY <4>1 DEF Off, At
      <4> QED  BY <4>2, <4>3, LoopsChange
    <3>2. UNCHANGED <<sensorQ, simQ, simsRun, outputDropped, fate>>
      BY <2>5 DEF LoopExit
    <3>7. Taken'
      BY <1>1, <2>1, <3>1, <3>2 DEF Counts, Taken
    <3>8. Simulated'
      BY <1>1, <2>1, <3>1, <3>2 DEF Counts, Simulated
    <3>9. Balance'
      BY <1>1, <2>1, <3>1, <3>2 DEF Counts, Balance, Early, Checked, Written
    <3> QED  BY <3>7, <3>8, <3>9 DEF Counts
  <2> QED  BY <1>8, <2>2, <2>3, <2>4, <2>5
<1>9. ASSUME AlarmTake \/ AlarmCheck \/ AlarmExit PROVE Counts'
  <2>1. UNCHANGED <<sent, http, received, valid, invalid, dropped, sensorQ, loop, simsRun, outputDropped, writer,
                    simsStored>>
    BY <1>9 DEF AlarmTake, AlarmCheck, AlarmExit
  <2>2. /\ Len(simQ') + AlarmHas' + checks' = Len(simQ) + AlarmHas + checks
        /\ UNCHANGED Unsaved
    <3>1. CASE AlarmTake
      <4>1. Len(simQ') = Len(simQ) - 1 /\ Head(simQ) \in Reading
        BY <3>1 DEF AlarmTake, Shape
      <4>2. alarm.item = NoReading /\ alarm'.item # NoReading /\ UNCHANGED <<checks, fate>>
        BY <1>0, <3>1, <4>1 DEF AlarmTake, Poll, At
      <4> QED  BY <1>1, <1>3, <4>1, <4>2, <1>13
    <3>2. CASE AlarmCheck
      <4>1. alarm.item \in Reading /\ alarm'.item = NoReading /\ checks' = checks + 1 /\ UNCHANGED simQ
        BY <3>2 DEF AlarmCheck, Shape, Poll, At
      <4>2. UNCHANGED Unsaved
        BY <3>2, <4>1, UnsavedChange DEF AlarmCheck
      <4> QED  BY <1>0, <1>3, <4>1, <4>2, <1>13
    <3>3. CASE AlarmExit
      <4>1. alarm.item = NoReading /\ alarm'.item = NoReading /\ UNCHANGED <<checks, simQ, fate>>
        BY <3>3 DEF AlarmExit, Poll, Off, At
      <4> QED  BY <1>1, <1>3, <4>1
    <3> QED  BY <1>9, <3>1, <3>2, <3>3
  <2>7. Taken'
    BY <1>1, <1>13, <2>1, <2>2 DEF Counts, Taken
  <2>8. Simulated'
    BY <1>1, <1>13, <2>1, <2>2 DEF Counts, Simulated
  <2>9. Balance'
    <3>1. /\ valid' = valid /\ Uncounted' = Uncounted /\ Early' = Early /\ Written' = Written
      BY <1>1, <2>1, <2>2 DEF Early, Written
    <3>4. Early \in Nat
      BY <1>13 DEF Early
    <3>5. Checked \in Nat
      BY <1>13 DEF Checked
    <3>6. Written \in Nat
      BY <1>13 DEF Written
    <3>8. PICK a \in Nat, b \in Nat : a = AlarmHas' /\ b = checks'
      BY <1>13
    <3>9. Checked' = a + b
      BY <3>8 DEF Checked
    <3>7. Checked' \in Nat
      BY <3>9
    <3>2. PICK e \in Nat, c \in Nat, w \in Nat, d \in Nat :
            e = Early /\ c = Checked /\ w = Written /\ d = Checked'
      BY <3>4, <3>5, <3>6, <3>7
    <3>3. Len(simQ') + Checked' = Len(simQ) + Checked
      BY <1>13, <2>2 DEF Checked
    <3>10. PICK q \in Nat, p \in Nat : q = Len(simQ) /\ p = Len(simQ')
      BY <1>13
    <3>11. valid + Uncounted = e + q + c + w
      BY <3>2, <3>10 DEF Counts, Balance
    <3>12. valid' + Uncounted' = Early' + Len(simQ') + Checked' + Written'
      BY <3>1, <3>2, <3>3, <3>10, <3>11
    <3> QED  BY <3>12 DEF Balance
  <2> QED  BY <2>7, <2>8, <2>9 DEF Counts
<1>10. ASSUME WriterTake \/ WriterDiscard \/ WriterFindsLink \/ WriterInsert \/ WriterExit PROVE Counts'
  <2>1. UNCHANGED <<sent, http, received, valid, invalid, dropped, sensorQ, loop, simsRun, outputDropped, alarm,
                    checks>>
    BY <1>10 DEF WriterTake, WriterDiscard, WriterFindsLink, WriterInsert, WriterExit
  <2>2. Len(simQ') + WriterHas' + simsStored' + Unsaved' = Len(simQ) + WriterHas + simsStored + Unsaved
    <3>1. CASE WriterTake
      <4>1. Len(simQ') = Len(simQ) - 1 /\ Head(simQ) \in Reading
        BY <3>1 DEF WriterTake, Shape
      <4>2. writer.item = NoReading /\ writer'.item # NoReading /\ UNCHANGED <<simsStored, fate>>
        BY <1>0, <3>1, <4>1 DEF WriterTake, Poll, At
      <4> QED  BY <1>1, <1>3, <4>1, <4>2, <1>13
    <3>2. CASE WriterDiscard
      <4>1. writer.item \in Reading /\ writer'.item = NoReading /\ UNCHANGED <<simQ, simsStored>>
        BY <3>2 DEF WriterDiscard, Shape, Poll, At
      <4>2. fate[writer.item] = {}
        BY <4>1, Found DEF In, Fates
      <4>3. Unsaved' = Unsaved + 1
        BY <3>2, <4>1, <4>2, UnsavedChange DEF WriterDiscard
      <4> QED  BY <1>0, <1>3, <4>1, <4>3, <1>13
    <3>3. CASE WriterInsert
      <4>1. /\ writer.item \in Reading /\ writer'.item = NoReading /\ simsStored' = simsStored + 1
            /\ UNCHANGED simQ
        BY <3>3 DEF WriterInsert, Shape, Poll, At
      <4>2. \E how \in {"stored", "failed"} : Ends(writer.item, how)
        BY <3>3 DEF WriterInsert
      <4>3. UNCHANGED Unsaved
        BY <4>1, <4>2, UnsavedChange
      <4> QED  BY <1>0, <1>3, <4>1, <4>3, <1>13
    <3>4. CASE WriterFindsLink \/ WriterExit
      <4>1. writer'.item = writer.item /\ UNCHANGED <<simQ, simsStored, fate>>
        BY <3>4 DEF WriterFindsLink, WriterExit, Poll, Off, At
      <4> QED  BY <1>1, <1>3, <4>1
    <3> QED  BY <1>10, <3>1, <3>2, <3>3, <3>4
  <2>7. Taken'
    BY <1>1, <1>13, <2>1, <2>2 DEF Counts, Taken
  <2>8. Simulated'
    BY <1>1, <1>13, <2>1, <2>2 DEF Counts, Simulated
  <2>9. Balance'
    <3>1. /\ valid' = valid /\ Uncounted' = Uncounted /\ Early' = Early /\ Checked' = Checked
      BY <1>1, <2>1, <2>2 DEF Early, Checked
    <3>4. Early \in Nat
      BY <1>13 DEF Early
    <3>5. Checked \in Nat
      BY <1>13 DEF Checked
    <3>6. Written \in Nat
      BY <1>13 DEF Written
    <3>8. PICK a \in Nat, b \in Nat, u \in Nat : a = WriterHas' /\ b = simsStored' /\ u = Unsaved'
      BY <1>13
    <3>9. Written' = a + b + u
      BY <3>8 DEF Written
    <3>7. Written' \in Nat
      BY <3>9
    <3>2. PICK e \in Nat, c \in Nat, w \in Nat, d \in Nat :
            e = Early /\ c = Checked /\ w = Written /\ d = Written'
      BY <3>4, <3>5, <3>6, <3>7
    <3>3. Len(simQ') + Written' = Len(simQ) + Written
      BY <1>13, <2>2 DEF Written
    <3>10. PICK q \in Nat, p \in Nat : q = Len(simQ) /\ p = Len(simQ')
      BY <1>13
    <3>11. valid + Uncounted = e + q + c + w
      BY <3>2, <3>10 DEF Counts, Balance
    <3>12. valid' + Uncounted' = Early' + Len(simQ') + Checked' + Written'
      BY <3>1, <3>2, <3>3, <3>10, <3>11
    <3> QED  BY <3>12 DEF Balance
  <2> QED  BY <2>7, <2>8, <2>9 DEF Counts
<1>11. CASE QueryHistory \/ SendKills \/ ServerFails \/ ServerReturns \/ StopApp \/ StopSimulator \/ StopAlarm
           \/ JoinWriters \/ Finished
  <2>1. UNCHANGED <<sent, http, received, valid, invalid, dropped, sensorQ, simQ, loop, simsRun, outputDropped,
                    alarm, checks, writer, simsStored, fate>>
    BY <1>11 DEF QueryHistory, SendKills, ServerFails, ServerReturns, StopApp, StopSimulator, StopAlarm,
                JoinWriters, Finished, vars
  <2>7. Taken'
    BY <1>1, <2>1 DEF Counts, Taken
  <2>8. Simulated'
    BY <1>1, <2>1 DEF Counts, Simulated
  <2>9. Balance'
    BY <1>1, <2>1 DEF Counts, Balance, Early, Checked, Written
  <2> QED  BY <2>7, <2>8, <2>9 DEF Counts
<1>12. CASE Start \/ CloseHttp
  <2>1. UNCHANGED <<sent, received, valid, invalid, dropped, sensorQ, simQ, simsRun, outputDropped, checks,
                    simsStored, fate>>
    BY <1>12 DEF Start, CloseHttp
  <2>2. http.pc \in {"off", "poll"} /\ http'.pc \in {"off", "poll"}
    BY <1>12 DEF Start, CloseHttp, MainGoto, Life, Off, Poll, At
  <2>3. alarm'.item = alarm.item /\ writer'.item = writer.item
    BY <1>12 DEF Start, CloseHttp, MainGoto, Life, Off, Poll, At
  <2>4. UNCHANGED <<Simulating, Laden>>
    <3>1. CASE Start
      <4>1. \A l \in Loops : loop[l] = Off /\ loop'[l] = Poll
        BY <3>1 DEF Start, MainGoto, Life
      <4>2. /\ {l \in Loops : loop'[l].pc = "simulate"} = {l \in Loops : loop[l].pc = "simulate"}
            /\ {l \in Loops : loop'[l].item # NoReading} = {l \in Loops : loop[l].item # NoReading}
        BY <4>1 DEF Off, Poll, At
      <4> QED  BY <4>2 DEF Simulating, Laden
    <3>2. CASE CloseHttp
      BY <1>1, <3>2 DEF CloseHttp
    <3> QED  BY <1>12, <3>1, <3>2
  <2>7. Taken'
    BY <1>1, <1>2, <1>3, <2>1, <2>2, <2>3, <2>4 DEF Counts, Taken
  <2>8. Simulated'
    BY <1>1, <1>2, <1>3, <2>1, <2>2, <2>3, <2>4 DEF Counts, Simulated
  <2>9. Balance'
    BY <1>1, <1>2, <1>3, <2>1, <2>2, <2>3, <2>4 DEF Counts, Balance, Early, Checked, Written
  <2> QED  BY <2>7, <2>8, <2>9 DEF Counts
<1> QED  BY <1>4, <1>5, <1>6, <1>7, <1>8, <1>9, <1>10, <1>11, <1>12
         DEF Next, HttpStep, LoopStep, AlarmStep, WriterStep, StopStep
-----------------------------------------------------------------------------
(* The theorems                                                            *)

PInv == Shape /\ Life /\ Placed /\ Counts

\* The inductive invariant of the pipeline, for any loops, capacities and
\* number of readings: OneStage and CountersBalance need to know that a
\* thread has a reading exactly between taking it and passing it on.
THEOREM PipelineKept == Spec => []PInv
<1>1. Init => PInv
  BY ShapeInit, PlacedInit, CountsInit DEF PInv
<1>2. PInv /\ [Next]_vars => PInv'
  <2> SUFFICES ASSUME PInv, [Next]_vars PROVE PInv'
    OBVIOUS
  <2>1. CASE Next
    BY <2>1, ShapeKept, PlacedKept, CountsKept DEF PInv
  <2>2. CASE UNCHANGED vars
    <3>1. UNCHANGED <<Simulating, Laden, Undecided, Uncounted, AlarmHas, WriterHas, Unsaved>>
      BY <2>2 DEF vars, simVars, dtuVars, alarmVars, writerVars, Simulating, Laden, Undecided, Uncounted, AlarmHas,
                  WriterHas, Unsaved, Met, Busy
    <3>2. UNCHANGED <<sent, received, valid, invalid, dropped, sensorQ, simQ, simsRun, outputDropped, checks,
                      simsStored>>
      BY <2>2 DEF vars, simVars, dtuVars, alarmVars, writerVars
    <3>3. Counts'
      BY <3>1, <3>2 DEF PInv, Counts, Taken, Simulated, Balance, Early, Checked, Written
    <3>4. Placed'
      BY <2>2, PlacedKept DEF PInv
    <3>5. Shape' /\ Life'
      BY <2>2 DEF PInv, Shape, Life, vars, lifeVars, dtuVars, simVars, alarmVars, writerVars, linkVars
    <3> QED  BY <3>3, <3>4, <3>5 DEF PInv
  <2> QED  BY <2>1, <2>2
<1> QED  BY <1>1, <1>2, PTL DEF Spec

\* Types of the pipeline: no counter ever passes the number of readings sent.
THEOREM TypeCorrect == Spec => []TypeOK
<1>1. PInv => TypeOK
  <2> SUFFICES ASSUME PInv PROVE TypeOK
    OBVIOUS
  <2>1. Shape
    BY DEF PInv
  <2>2. /\ received \in 0 .. MaxReadings /\ valid \in 0 .. MaxReadings /\ invalid \in 0 .. MaxReadings
        /\ dropped \in 0 .. MaxReadings
    <3>1. /\ received <= sent /\ valid + invalid + dropped + Undecided <= sent /\ sent \in 0 .. MaxReadings
          /\ received \in Nat /\ valid \in Nat /\ invalid \in Nat /\ dropped \in Nat /\ Undecided \in Nat
      BY DEF PInv, Counts, Taken, Shape, Undecided, Unit
    <3> QED  BY <3>1, PipelineAssumption
  <2>3. PICK n \in 0 .. MaxReadings : n = valid + Uncounted
    <3>1. /\ valid + invalid + dropped + Undecided <= sent /\ sent \in 0 .. MaxReadings
          /\ valid \in Nat /\ invalid \in Nat /\ dropped \in Nat
          /\ Undecided \in Nat /\ Uncounted \in Nat /\ Uncounted <= Undecided
      BY DEF PInv, Counts, Taken, Shape, Undecided, Uncounted, Unit
    <3>2. valid + Uncounted \in 0 .. MaxReadings
      BY <3>1, PipelineAssumption
    <3> QED  BY <3>2
  <2>4. Simulating \in Nat /\ Laden \in Nat /\ Unsaved \in Nat /\ AlarmHas \in Nat /\ WriterHas \in Nat
    BY Countable DEF Simulating, Laden, Met, Unsaved, AlarmHas, WriterHas, Busy, Unit
  <2>5. /\ Len(sensorQ) \in Nat /\ Len(simQ) \in Nat /\ simsRun \in Nat /\ outputDropped \in Nat
        /\ checks \in Nat /\ simsStored \in Nat
    BY <2>1 DEF Shape
  <2>6. simsRun \in 0 .. MaxReadings
    <3>1. simsRun + Len(sensorQ) + Simulating = n
      BY <2>3 DEF PInv, Counts, Simulated
    <3> QED  BY <2>3, <2>4, <2>5, <3>1, PipelineAssumption
  <2>7. outputDropped \in 0 .. MaxReadings /\ checks \in 0 .. MaxReadings /\ simsStored \in 0 .. MaxReadings
    <3>1. Early \in Nat /\ outputDropped <= Early
      BY <2>4, <2>5 DEF Early
    <3>2. Checked \in Nat /\ checks <= Checked
      BY <2>4, <2>5 DEF Checked
    <3>3. Written \in Nat /\ simsStored <= Written
      BY <2>4, <2>5 DEF Written
    <3>4. n = Early + Len(simQ) + Checked + Written
      BY <2>3 DEF PInv, Counts, Balance
    <3>5. Early <= n /\ Checked <= n /\ Written <= n
      BY <2>5, <3>1, <3>2, <3>3, <3>4
    <3> QED  BY <2>5, <3>1, <3>2, <3>3, <3>5, PipelineAssumption
  <2>8. /\ http \in [pc : {"off", "poll", "validate", "queued"}, item : Reading \union {NoReading}]
        /\ alarm \in [pc : {"off", "poll", "check"}, item : Reading \union {NoReading}]
        /\ writer \in [pc : {"off", "poll", "check", "insert"}, item : Reading \union {NoReading}]
    BY <2>1 DEF Shape
  <2>9. loop \in [Loops -> [pc : {"off", "poll", "simulate", "push"}, item : Reading \union {NoReading}]]
    BY <2>1 DEF Shape
  <2>10. {connected, alive, reachable} \subseteq BOOLEAN
    BY <2>1 DEF Shape
  <2> QED  BY <2>1, <2>2, <2>6, <2>7, <2>8, <2>9, <2>10 DEF Shape, TypeOK
<1> QED  BY <1>1, PipelineKept, PTL

\* Each reading that was sent is in one place, or has met one end: whichever
\* of the loops, the alarm thread and the writer take and pass it on.
THEOREM ReadingsInOnePlace == Spec => []OneStage
<1>1. PInv => OneStage
  <2> SUFFICES ASSUME PInv, NEW r \in Reading
               PROVE  Unit(http.item = r) + Times(r, sensorQ) + Cardinality({l \in Loops : loop[l].item = r})
                        + Times(r, simQ) + Unit(alarm.item = r) + Unit(writer.item = r) + Cardinality(fate[r])
                      = Unit(r <= sent)
    BY DEF OneStage
  <2>1. PICK stage \in Stages : In(r, stage)
    BY DEF PInv, Placed
  <2>2. Cardinality(fate[r]) = Unit(stage \in Fates)
    <3>1. CASE stage \in Fates
      <4>1. fate[r] = {stage}
        BY <2>1, <3>1 DEF In
      <4> QED  BY <3>1, <4>1, FS_Singleton DEF Unit
    <3>2. CASE stage \notin Fates
      <4>1. fate[r] = {}
        BY <2>1, <3>2 DEF In
      <4> QED  BY <3>2, <4>1, FS_EmptySet DEF Unit
    <3> QED  BY <3>1, <3>2
  <2>3. Cardinality({l \in Loops : loop[l].item = r}) = Unit(stage = "simulating")
    BY <2>1 DEF In, Held
  <2>4. /\ Unit(http.item = r) = Unit(stage = "validating") /\ Times(r, sensorQ) = Unit(stage = "queued")
        /\ Times(r, simQ) = Unit(stage = "result") /\ Unit(alarm.item = r) = Unit(stage = "checking")
        /\ Unit(writer.item = r) = Unit(stage = "storing") /\ Unit(r <= sent) = Unit(stage # "unsent")
    BY <2>1 DEF In, Unit
  <2>5. Unit(stage = "validating") + Unit(stage = "queued") + Unit(stage = "simulating") + Unit(stage = "result")
          + Unit(stage = "checking") + Unit(stage = "storing") + Unit(stage \in Fates) = Unit(stage # "unsent")
    BY DEF Unit, Stages, Fates
  <2> QED  BY <2>2, <2>3, <2>4, <2>5
<1> QED  BY <1>1, PipelineKept, PTL

\* The counters balance at every moment they can be read.
THEOREM CountersAddUp == Spec => []CountersBalance
<1>1. PInv => CountersBalance
  <2> SUFFICES ASSUME PInv PROVE CountersBalance
    OBVIOUS
  <2>1. valid + Uncounted = Early + Len(simQ) + Checked + Written
    BY DEF PInv, Counts, Balance
  <2>2. Simulating \in Nat /\ Laden \in Nat /\ Unsaved \in Nat /\ AlarmHas \in Nat /\ WriterHas \in Nat
    BY Countable DEF Simulating, Laden, Met, Unsaved, AlarmHas, WriterHas, Busy, Unit
  <2>3. /\ Len(sensorQ) \in Nat /\ Len(simQ) \in Nat /\ outputDropped \in Nat /\ checks \in Nat
        /\ simsStored \in Nat
    BY DEF PInv, Shape
  <2>4. valid + Uncounted
          = Len(sensorQ) + Laden + Len(simQ) + outputDropped + AlarmHas + checks + WriterHas + simsStored + Unsaved
    BY <2>1, <2>2, <2>3 DEF Early, Checked, Written
  <2> QED  BY <2>4 DEF CountersBalance, Uncounted, Laden, AlarmHas, WriterHas, Unsaved
<1> QED  BY <1>1, PipelineKept, PTL

\* A service that has stopped has nothing in hand: every reading sent has met
\* its end or is still in a queue.
THEOREM StopLeavesHandsEmpty == Spec => []StopLosesNothingInHand
<1>1. PInv => StopLosesNothingInHand
  <2> SUFFICES ASSUME PInv, main = "stopped", NEW r \in 1 .. sent
               PROVE  fate[r] # {} \/ Times(r, sensorQ) + Times(r, simQ) = 1
    BY DEF StopLosesNothingInHand
  <2>1. r \in Reading /\ r <= sent
    BY PipelineAssumption DEF PInv, Shape, Reading
  <2>2. /\ http.item = NoReading /\ alarm.item = NoReading /\ writer.item = NoReading
        /\ \A l \in Loops : loop[l].item = NoReading
    BY DEF PInv, Life, Off, At
  <2>3. {l \in Loops : loop[l].item = r} = {}
    BY <2>1, <2>2, Numbers
  <2>4. Held(r) = 0
    BY <2>3, FS_EmptySet DEF Held
  <2>5. PICK stage \in Stages : In(r, stage)
    BY <2>1 DEF PInv, Placed
  <2>6. stage \in {"queued", "result"} \union Fates
    BY <2>1, <2>2, <2>4, <2>5, Numbers DEF In, Unit, Stages
  <2> QED  BY <2>5, <2>6 DEF In, Unit, Fates
<1> QED  BY <1>1, PipelineKept, PTL

LEMMA StageIs ==
  ASSUME NEW r \in Reading, NEW stage \in Stages, In(r, stage)
  PROVE  Stage(r) = stage
<1>1. (\E l \in Loops : loop[l].item = r) <=> stage = "simulating"
  <2> DEFINE H == {l \in Loops : loop[l].item = r}
  <2>1. IsFiniteSet(H)
    BY PipelineAssumption, FS_Subset
  <2>2. Cardinality(H) = Unit(stage = "simulating")
    BY DEF In, Held
  <2>3. H = {} <=> stage # "simulating"
    BY <2>1, <2>2, FS_EmptySet DEF Unit
  <2> QED  BY <2>3
<1>2. /\ http.item = r <=> stage = "validating"
      /\ Times(r, sensorQ) > 0 <=> stage = "queued"
      /\ Times(r, simQ) > 0 <=> stage = "result"
      /\ alarm.item = r <=> stage = "checking"
      /\ writer.item = r <=> stage = "storing"
      /\ fate[r] = IF stage \in Fates THEN {stage} ELSE {}
  BY DEF In, Unit
<1>3. stage \in Fates => (CHOOSE f \in fate[r] : TRUE) = stage
  BY <1>2
<1> QED  BY <1>1, <1>2, <1>3 DEF Stage, Stages, Fates

EachStageIs == \A r \in Reading : \A stage \in Stages : In(r, stage) => Stage(r) = stage

LEMMA EachStage == EachStageIs
BY StageIs DEF EachStageIs

\* The pipeline implements the abstract life of a reading: it moves one
\* reading at a time, along an edge of ReadingJourney.
THEOREM RefinesJourney == Spec => ImplementsJourney
<1> DEFINE stages == [r \in Reading |-> Stage(r)]
<1>1. Init => Journey!Init
  <2> SUFFICES ASSUME Init, NEW r \in Reading PROVE Stage(r) = "unsent"
    BY DEF Journey!Init
  <2>1. PICK stage \in Stages : In(r, stage)
    BY PlacedInit DEF Placed
  <2>2. stage = "unsent"
    BY <2>1 DEF In, Init, Reading
  <2> QED  BY <2>1, <2>2, StageIs
<1>3. EachStageIs'
  BY EachStage, PTL
<1>2. PInv /\ PInv' /\ [Next]_vars => [Journey!Next]_stages
  <2> SUFFICES ASSUME PInv, PInv', [Next]_vars PROVE [Journey!Next]_stages
    OBVIOUS
  <2>1. \A q \in Reading : Stay(q) => Stage(q)' = Stage(q)
    <3> SUFFICES ASSUME NEW q \in Reading, Stay(q) PROVE Stage(q)' = Stage(q)
      OBVIOUS
    <3>1. PICK stage \in Stages : In(q, stage)
      BY DEF PInv, Placed
    <3>2. In(q, stage)'
      BY <3>1 DEF Stay
    <3>3. Stage(q) = stage
      BY <3>1, StageIs
    <3>4. Stage(q)' = stage
      BY <3>1, <3>2, <1>3 DEF EachStageIs
    <3> QED  BY <3>3, <3>4
  <2>2. CASE \A q \in Reading : Stay(q)
    BY <2>1, <2>2
  <2>3. CASE \E r \in Reading : \E from \in DOMAIN Onward : \E to \in Onward[from] : Moved(r, from, to)
    <3>1. PICK r \in Reading, from \in DOMAIN Onward : \E to \in Onward[from] : Moved(r, from, to)
      BY <2>3
    <3>2. PICK to \in Onward[from] : Moved(r, from, to)
      BY <3>1
    <3>3. from \in Stages /\ to \in Stages
      BY DEF Onward, Journey!Onward, Stages, Fates
    <3>4. Stage(r) = from
      BY <3>2, <3>3, StageIs DEF Moved
    <3>5. Stage(r)' = to
      BY <3>2, <3>3, <1>3 DEF Moved, EachStageIs
    <3>6. \A q \in Reading \ {r} : Stage(q)' = Stage(q)
      BY <2>1, <3>2 DEF Moved
    <3>7. stages' = [stages EXCEPT ![r] = to]
      BY <3>5, <3>6
    <3>8. Journey!Advance(r)
      BY <3>4, <3>7 DEF Journey!Advance, Onward
    <3> QED  BY <3>8 DEF Journey!Next
  <2> QED  BY <2>2, <2>3, StepMoves DEF PInv
<1> QED  BY <1>1, <1>2, PipelineKept, PTL DEF Spec, ImplementsJourney, Journey!Spec

=============================================================================
