-------------------------- MODULE UserSessionsProofs --------------------------
(***************************************************************************)
(* Proofs about UserSessions, for any number of sessions and rocks, any    *)
(* timeout and any set of blows, speeds and time steps.                    *)
(***************************************************************************)
EXTENDS UserSessions, TLAPS

(***************************************************************************)
(* What the operators of Vehicle preserve, for vehicles of any size, blows *)
(* of any force and steps of any length; and maps that gain or lose keys.  *)
(***************************************************************************)

(***************************************************************************)
(* Health and armour stay between none and full whatever strikes.          *)
(***************************************************************************)
LEMMA StruckType ==
  ASSUME NEW v \in Vehicles, NEW k \in Nat
  PROVE  Struck(v, k) \in Vehicles
<1> USE VehicleAssumption
<1>1. v.armor \in 0 .. Full /\ v.health \in 0 .. FullHealth /\ v.impacts \in Nat
  BY DEF Vehicles
<1>2. Absorbed(v, k) \in 0 .. v.armor /\ Absorbed(v, k) <= 4 * k
  BY <1>1 DEF Absorbed, Smaller
<1>3. Larger(0, v.health - Larger(0, 10 * k - Absorbed(v, k))) \in 0 .. FullHealth
  BY <1>1, <1>2 DEF Larger, FullHealth
<1>4. v.armor - Absorbed(v, k) \in 0 .. Full
  BY <1>1, <1>2
<1> DEFINE a == v.armor - Absorbed(v, k)
           h == Larger(0, v.health - Larger(0, 10 * k - Absorbed(v, k)))
<1>5. Struck(v, k) = [v EXCEPT !.impacts = v.impacts + 1, !.armor = a, !.health = h, !.shaken = TRUE]
  BY DEF Struck
<1> HIDE DEF a, h
<1>6. a \in 0 .. Full /\ h \in 0 .. FullHealth /\ v.impacts + 1 \in Nat
  BY <1>1, <1>3, <1>4 DEF a, h
<1> QED  BY <1>5, <1>6 DEF Vehicles

(***************************************************************************)
(* A blow of force k wears 10k half points off, split between armour and   *)
(* health in whatever way, as long as any health is left.                  *)
(***************************************************************************)
LEMMA StruckAccounts ==
  ASSUME NEW v \in Vehicles, NEW k \in Nat, NEW d \in Nat, Accounts(v, d)
  PROVE  Accounts(Struck(v, k), d + k)
<1> USE VehicleAssumption
<1> DEFINE a == Absorbed(v, k)
           h == Larger(0, v.health - Larger(0, 10 * k - a))
<1>1. v.armor \in 0 .. Full /\ v.health \in 0 .. FullHealth /\ FullHealth = 2 * Full
  BY DEF Vehicles, FullHealth
<1>2. a \in 0 .. v.armor /\ a <= 4 * k
  BY <1>1 DEF Absorbed, Smaller
<1>3. Struck(v, k).health = h /\ Struck(v, k).armor = v.armor - a
  BY DEF Struck, Vehicles
<1>4. Larger(0, 10 * k - a) = 10 * k - a
  BY <1>1, <1>2 DEF Larger
<1>5. h \in Int /\ h >= 0 /\ h >= v.health - (10 * k - a) /\ (h > 0 => h = v.health - (10 * k - a))
  BY <1>1, <1>2, <1>4 DEF Larger
<1>6. /\ (FullHealth - v.health) + (Full - v.armor) <= 10 * d
      /\ v.health > 0 => (FullHealth - v.health) + (Full - v.armor) = 10 * d
  BY DEF Accounts, Worn
<1>7. 10 * (d + k) = 10 * d + 10 * k
  OBVIOUS
<1> HIDE DEF a, h
<1>8. h > 0 => v.health > 0
  BY <1>1, <1>2, <1>5
<1>9. (FullHealth - h) + (Full - (v.armor - a)) <= 10 * (d + k)
  BY <1>1, <1>2, <1>5, <1>6, <1>7
<1>10. h > 0 => (FullHealth - h) + (Full - (v.armor - a)) = 10 * (d + k)
  <2> SUFFICES ASSUME h > 0  PROVE (FullHealth - h) + (Full - (v.armor - a)) = 10 * (d + k)
    OBVIOUS
  <2>1. h = v.health - (10 * k - a)
    BY <1>5
  <2>2. (FullHealth - v.health) + (Full - v.armor) = 10 * d
    BY <1>6, <1>8
  <2>3. a \in Int /\ v.health \in Int /\ v.armor \in Int /\ FullHealth \in Int /\ Full \in Int
    BY <1>1, <1>2
  <2>4. (FullHealth - h) + (Full - (v.armor - a))
          = ((FullHealth - v.health) + (Full - v.armor)) + 10 * k
    BY <2>1, <2>3
  <2> QED  BY <1>7, <2>2, <2>4
<1> QED  BY <1>3, <1>9, <1>10 DEF Accounts, Worn

\* Vehicles that differ in nothing but place, speed and vibration have taken
\* the same damage.
SameBody(v, w) == v.health = w.health /\ v.armor = w.armor /\ v.impacts = w.impacts

\* The damage is seen in the body only.
LEMMA SameBodyAccounts ==
  ASSUME NEW v, NEW w, NEW d, SameBody(v, w), Accounts(v, d)
  PROVE  Accounts(w, d)
BY DEF SameBody, Accounts, Worn

\* The way from the start is no longer than the odometer says.
InReach(v) == Abs(v.x) <= v.odometer

\* Driving takes no damage, and the odometer follows, forwards and backwards.
LEMMA MovedFits ==
  ASSUME NEW v \in Vehicles, NEW dt \in Int
  PROVE  /\ Moved(v, dt) \in Vehicles
         /\ SameBody(v, Moved(v, dt))
         /\ InReach(v) => InReach(Moved(v, dt))
<1> DEFINE d == v.speed * dt
<1>1. v.speed \in Int /\ v.x \in Int /\ v.odometer \in Nat
  BY DEF Vehicles
<1>2. d \in Int
  BY <1>1
<1>3. Moved(v, dt) = [v EXCEPT !.x = v.x + d, !.odometer = v.odometer + Abs(d)]
  BY DEF Moved, Vehicles
<1> HIDE DEF d
<1>4. Abs(d) \in Nat /\ (Abs(v.x) <= v.odometer => Abs(v.x + d) <= v.odometer + Abs(d))
  BY <1>1, <1>2 DEF Abs, Larger
<1>5. v.x + d \in Int /\ v.odometer + Abs(d) \in Nat
  BY <1>1, <1>2, <1>4
<1>6. Moved(v, dt).x = v.x + d /\ Moved(v, dt).odometer = v.odometer + Abs(d)
  BY <1>3 DEF Vehicles
<1>7. Moved(v, dt) \in Vehicles /\ SameBody(v, Moved(v, dt))
  BY <1>3, <1>5 DEF Vehicles, SameBody
<1> QED  BY <1>4, <1>6, <1>7 DEF InReach

\* A vehicle at the start has no way to cover.
LEMMA AbsZero == Abs(0) \in Int /\ Abs(0) <= 0
<1>1. \A a \in Int : Abs(a) \in Int /\ (a <= 0 => Abs(a) <= -a)
  BY DEF Abs, Larger
<1> QED  BY <1>1

\* reset_position takes the vehicle back to the start, without its odometer.
LEMMA AtStartFits ==
  ASSUME NEW v \in Vehicles
  PROVE  AtStart(v) \in Vehicles /\ SameBody(v, AtStart(v)) /\ InReach(AtStart(v))
<1>1. AtStart(v) = [v EXCEPT !.x = 0, !.speed = 0] /\ 0 \in Int
  BY DEF AtStart
<1>2. AtStart(v).x = 0 /\ AtStart(v).odometer \in Nat
  BY DEF AtStart, Vehicles
<1>3. AtStart(v) \in Vehicles /\ SameBody(v, AtStart(v))
  BY <1>1 DEF Vehicles, SameBody
<1> QED  BY <1>2, <1>3, AbsZero DEF InReach

\* A new vehicle has taken no damage and gone no way.
LEMMA NewVehicleIsNew ==
  NewVehicle \in Vehicles /\ Accounts(NewVehicle, 0) /\ InReach(NewVehicle)
<1>1. NewVehicle \in Vehicles /\ Accounts(NewVehicle, 0)
  BY VehicleAssumption DEF NewVehicle, Vehicles, Accounts, Worn, FullHealth
<1> QED  BY <1>1, AbsZero DEF NewVehicle, InReach

\* Throttle and brake change the speed only.
LEMMA AtSpeedFits ==
  ASSUME NEW v \in Vehicles, NEW s \in Int
  PROVE  /\ AtSpeed(v, s) \in Vehicles
         /\ SameBody(v, AtSpeed(v, s))
         /\ InReach(v) => InReach(AtSpeed(v, s))
BY DEF AtSpeed, Vehicles, SameBody, InReach

\* The end of a vibration changes nothing else.
LEMMA CalmFits ==
  ASSUME NEW v \in Vehicles
  PROVE  LET w == [v EXCEPT !.shaken = FALSE]
         IN  w \in Vehicles /\ SameBody(v, w) /\ (InReach(v) => InReach(w))
BY DEF Vehicles, SameBody, InReach
-----------------------------------------------------------------------------
\* A map gets an entry, or loses some.
LEMMA WithEntry ==
  ASSUME NEW S, NEW D, NEW f \in [D -> S], NEW k, NEW x \in S
  PROVE  With(f, k, x) \in [D \union {k} -> S]
BY DEF With

\* A map that loses some keys keeps its type.
LEMMA Restricted ==
  ASSUME NEW S, NEW D, NEW f \in [D -> S], NEW E
  PROVE  Restrict(f, D \ E) \in [D \ E -> S]
BY DEF Restrict

-----------------------------------------------------------------------------
\* The three maps hold the same sessions, and what belongs into each.
MapsType ==
  /\ live \subseteq Sid
  /\ sessions \in [live -> Ages]
  /\ states \in [live -> Vehicles]
  /\ recent \in [live -> 0 .. 3]

RestType ==
  /\ nextSid \in 1 .. MaxSessions + 1
  /\ rocks \in 0 .. MaxRocks
  /\ http \in HttpStates
  /\ answer \in Answers
  /\ dealt \in [Sid -> Nat]
  /\ quiet \in [Sid -> Ages]

\* Sessions get their numbers in turn; a later number is still unused.
Unborn ==
  /\ \A s \in Sid : s >= nextSid => s \notin live /\ dealt[s] = 0
  /\ http.sid < nextSid /\ answer.sid < nextSid

\* The request under way: it names a session, and the rocks it is still to
\* throw are within bounds.  A session under attack is there.
RequestFits ==
  /\ http.pc # "idle" => http.sid \in Sid /\ http.op \in Operation
  /\ http.pc = "found" => http.left = 0 /\ http.events = 0
  /\ http.pc = "found" /\ http.op = "attack" => rocks < MaxRocks
  /\ http.pc = "attacking" =>
       /\ http.sid \in live
       /\ http.events + http.left <= 3
       /\ rocks + http.left <= MaxRocks

Shape == MapsType /\ RestType /\ Unborn /\ RequestFits

\* The shape implies the two invariants of the run that speak of types and maps.
LEMMA ShapeGivesTypeAndMaps == Shape => TypeOK /\ MapsAgree
BY DEF Shape, MapsType, RestType, RequestFits, TypeOK, MapsAgree, MutexFree

\* Erasing takes the same sessions out of all maps and leaves the rest alone.
LEMMA EraseKeepsMaps ==
  ASSUME MapsType, NEW gone, Erase(gone)
  PROVE  /\ MapsType' /\ live' = live \ gone
         /\ \A s \in live' : states'[s] = states[s] /\ sessions'[s] = sessions[s]
<1>1. DOMAIN sessions = live /\ DOMAIN states = live /\ DOMAIN recent = live
  BY DEF MapsType
<1>2. /\ sessions' \in [live \ gone -> Ages]
      /\ states' \in [live \ gone -> Vehicles]
      /\ recent' \in [live \ gone -> 0 .. 3]
  BY <1>1, Restricted DEF MapsType, Erase
<1>3. live' = live \ gone
  BY <1>2 DEF live
<1>4. Ages' = Ages /\ Vehicles' = Vehicles /\ Sid' = Sid
  OBVIOUS
<1>5. MapsType'
  BY <1>2, <1>3 DEF MapsType
<1> QED  BY <1>1, <1>3, <1>5 DEF Erase, Restrict

\* Time goes by alike for every session.
LEMMA TickedAge ==
  ASSUME NEW a \in Ages
  PROVE  Smaller(a + 1, IdleTimeout + 1) \in Ages
BY SessionAssumption DEF Ages, Smaller

(***************************************************************************)
(* Whatever drives, resets or settles a vehicle leaves a vehicle.          *)
(***************************************************************************)
LEMMA DrivenFits ==
  ASSUME NEW v \in Vehicles, NEW w \in Driven(v)
  PROVE  w \in Vehicles /\ SameBody(v, w) /\ (InReach(v) => InReach(w))
<1>1. CASE w = v
  BY <1>1 DEF SameBody
<1>2. CASE w = AtStart(v)
  BY <1>2, AtStartFits
<1>3. ASSUME NEW sp \in Speeds \union {0}, w = AtSpeed(v, sp)
      PROVE  w \in Vehicles /\ SameBody(v, w) /\ (InReach(v) => InReach(w))
  <2>1. sp \in Int
    BY SessionAssumption
  <2> QED  BY <1>3, <2>1, AtSpeedFits
<1> QED  BY <1>1, <1>2, <1>3 DEF Driven

\* The end of an attack may end the vibration, nothing else.
LEMMA SettledFits ==
  ASSUME NEW v \in Vehicles, NEW w \in Settled(v)
  PROVE  w \in Vehicles /\ SameBody(v, w) /\ (InReach(v) => InReach(w))
BY CalmFits DEF Settled, SameBody

\* A vehicle that was reset has taken no damage and gone no way.
LEMMA ResetFits ==
  ASSUME NEW v \in Vehicles
  PROVE  /\ ResetVehicle(v) \in Vehicles
         /\ Accounts(ResetVehicle(v), 0)
         /\ InReach(ResetVehicle(v))
<1>1. ResetVehicle(v) \in Vehicles /\ SameBody(NewVehicle, ResetVehicle(v))
  BY NewVehicleIsNew DEF ResetVehicle, Vehicles, SameBody
<1>2. ResetVehicle(v).x = NewVehicle.x /\ ResetVehicle(v).odometer = NewVehicle.odometer
  BY DEF ResetVehicle, NewVehicle
<1> QED  BY <1>1, <1>2, NewVehicleIsNew, SameBodyAccounts DEF InReach
-----------------------------------------------------------------------------
(***************************************************************************)
(* The shape of the state is kept by every step of every thread.           *)
(***************************************************************************)
LEMMA ShapeInit == Init => Shape
<1> SUFFICES ASSUME Init  PROVE Shape
  OBVIOUS
<1> USE SessionAssumption DEF Init
<1>1. MapsType
  BY DEF MapsType, live
<1>2. RestType
  BY DEF RestType, HttpStates, Idle, Answers, NoAnswer, NoSid, NoState, Sid, Ages, Operation
<1>3. Unborn
  BY DEF Unborn, live, Idle, NoAnswer, NoSid, Sid
<1>4. RequestFits
  BY DEF RequestFits, Idle
<1> QED  BY <1>1, <1>2, <1>3, <1>4 DEF Shape

\* A vehicle of a live session is replaced by another.
LEMMA VehicleChanges ==
  ASSUME MapsType, NEW s \in live, NEW v \in Vehicles,
         states' = [states EXCEPT ![s] = v],
         sessions' = sessions \/ sessions' = Touched(s),
         recent' \in [live -> 0 .. 3]
  PROVE  MapsType' /\ live' = live
<1>1. sessions' \in [live -> Ages]
  <2>1. 0 \in Ages
    BY SessionAssumption DEF Ages
  <2>2. Touched(s) \in [live -> Ages]
    BY <2>1 DEF MapsType, Touched
  <2> QED  BY <2>2 DEF MapsType
<1>2. live' = live
  BY <1>1 DEF live
<1>3. states' \in [live -> Vehicles]
  BY DEF MapsType
<1> QED  BY <1>1, <1>2, <1>3 DEF MapsType

\* Steps of a request change its record within its type.
LEMMA RequestUpdated ==
  ASSUME NEW A, NEW B, NEW C, NEW D, NEW E, NEW F,
         NEW h \in [pc : A, op : B, sid : C, left : D, events : E, dt : F],
         NEW pc \in A, NEW left \in D, NEW events \in E, NEW dt \in F
  PROVE  LET S == [pc : A, op : B, sid : C, left : D, events : E, dt : F]
         IN  /\ [h EXCEPT !.pc = pc, !.left = left] \in S
             /\ [h EXCEPT !.pc = pc, !.left = left, !.dt = dt] \in S
             /\ [h EXCEPT !.left = left, !.events = events] \in S
OBVIOUS

\* One step per action: each keeps the maps together and the request in its bounds.
LEMMA ShapeNext == Shape /\ [Next]_vars => Shape'
<1> SUFFICES ASSUME Shape, [Next]_vars  PROVE Shape'
  OBVIOUS
<1> USE SessionAssumption
<1> USE DEF mapVars, historyVars
<1>0. /\ MapsType /\ RestType /\ Unborn /\ RequestFits
      /\ 0 \in Ages /\ \A s \in live : s \in Sid /\ s < nextSid
  BY DEF Shape, Ages, Unborn, MapsType, Sid, RestType
<1>1. CASE Create
  <2>1. nextSid \in Sid /\ nextSid \notin live
    BY <1>0, <1>1 DEF Create, RestType, Unborn, Sid
  <2> DEFINE D == live \union {nextSid}
  <2>2. sessions' \in [D -> Ages] /\ live' = D
    <3>1. With(sessions, nextSid, 0) \in [D -> Ages]
      BY <1>0, WithEntry DEF MapsType
    <3> QED  BY <1>1, <3>1 DEF Create, live
  <2>3. states' \in [D -> Vehicles] /\ recent' \in [D -> 0 .. 3]
    <3>1. With(states, nextSid, NewVehicle) \in [D -> Vehicles]
      BY <1>0, WithEntry, NewVehicleIsNew DEF MapsType
    <3>2. With(recent, nextSid, 0) \in [D -> 0 .. 3]
      <4>1. 0 \in 0 .. 3
        OBVIOUS
      <4> QED  BY <1>0, <4>1, WithEntry DEF MapsType
    <3> QED  BY <1>1, <3>1, <3>2 DEF Create
  <2>4. MapsType'
    BY <1>0, <2>1, <2>2, <2>3 DEF MapsType
  <2>5. RestType'
    BY <1>0, <1>1, <2>1 DEF Create, RestType, Answers, NoAnswer, NoSid, NoState, Sid
  <2>6. Unborn'
    <3>1. nextSid' = nextSid + 1 /\ http' = http /\ dealt' = dealt /\ answer'.sid = 0
      BY <1>1 DEF Create, NoAnswer, NoSid
    <3>2. http.sid \in Int /\ nextSid \in Nat
      BY <1>0 DEF RestType, HttpStates, NoSid, Sid
    <3> QED  BY <1>0, <2>1, <2>2, <3>1, <3>2 DEF Unborn, Sid
  <2>7. RequestFits'
    BY <1>0, <1>1, <2>2 DEF Create, RequestFits, Idle
  <2> QED  BY <2>4, <2>5, <2>6, <2>7 DEF Shape
<1>2. ASSUME NEW op \in Operation, NEW s \in Sid, Check(op, s)  PROVE Shape'
  <2>1. MapsType' /\ live' = live
    BY <1>0, <1>2 DEF Check, MapsType, live
  <2>2. RestType'
    BY <1>0, <1>2 DEF Check, RestType, HttpStates, Idle, Answers, NoAnswer, NoSid, NoState, Sid
  <2>3. Unborn'
    BY <1>0, <1>2, <2>1 DEF Check, Unborn, Idle, NoAnswer, NoSid, RestType, Sid
  <2>4. RequestFits'
    BY <1>0, <1>2, <2>1 DEF Check, RequestFits, Idle, Operation
  <2> QED  BY <2>1, <2>2, <2>3, <2>4 DEF Shape
<1>3. CASE OnGone
  <2>1. MapsType' /\ live' = live
    BY <1>0, <1>3 DEF OnGone, MapsType, live
  <2>2. RestType'
    BY <1>0, <1>3 DEF OnGone, Answer, RestType, RequestFits, HttpStates, Idle, Answers, NoSid, NoState, Sid
  <2>3. Unborn' /\ RequestFits'
    BY <1>0, <1>3, <2>1 DEF OnGone, Answer, Unborn, RequestFits, Idle, NoSid, RestType, Sid
  <2> QED  BY <2>1, <2>2, <2>3 DEF Shape
<1>4. CASE Action
  <2>1. http.sid \in live /\ states[http.sid] \in Vehicles
    BY <1>0, <1>4 DEF Action, MapsType
  <2>2. PICK v \in Driven(states[http.sid]) : states' = [states EXCEPT ![http.sid] = v]
    BY <1>4 DEF Action
  <2>3. v \in Vehicles
    BY <2>1, <2>2, DrivenFits
  <2>4. sessions' = Touched(http.sid) /\ recent' = recent /\ recent \in [live -> 0 .. 3]
    BY <1>0, <1>4 DEF Action, Touch, MapsType
  <2>5. MapsType' /\ live' = live
    BY <1>0, <2>1, <2>2, <2>3, <2>4, VehicleChanges
  <2>6. states[http.sid].impacts \in Nat
    BY <2>1 DEF Vehicles
  <2>7. RestType'
    BY <1>0, <1>4, <2>6
    DEF Action, Found, Touch, Answer, RestType, HttpStates, Idle, Answers, NoSid, NoState, Sid, Operation
  <2>8. Unborn' /\ RequestFits'
    BY <1>0, <1>4, <2>5 DEF Action, Answer, Unborn, RequestFits, Idle, NoSid, RestType, Sid
  <2> QED  BY <2>5, <2>7, <2>8 DEF Shape
<1>5. CASE Reset
  <2>1. http.sid \in live /\ states[http.sid] \in Vehicles
    BY <1>0, <1>5 DEF Reset, MapsType
  <2>2. states' = [states EXCEPT ![http.sid] = ResetVehicle(states[http.sid])]
    BY <1>5 DEF Reset
  <2>3. ResetVehicle(states[http.sid]) \in Vehicles
    BY <2>1, ResetFits
  <2>4. sessions' = Touched(http.sid) /\ recent' \in [live -> 0 .. 3]
    BY <1>0, <1>5 DEF Reset, Touch, MapsType
  <2>5. MapsType' /\ live' = live
    BY <1>0, <2>1, <2>2, <2>3, <2>4, VehicleChanges
  <2>7. RestType'
    BY <1>0, <1>5
    DEF Reset, Found, Touch, Answer, RestType, HttpStates, Idle, Answers, NoSid, NoState, Sid, Operation
  <2>8. Unborn' /\ RequestFits'
    BY <1>0, <1>5, <2>1, <2>5 DEF Reset, Answer, Unborn, RequestFits, Idle, NoSid, RestType, Sid
  <2> QED  BY <2>5, <2>7, <2>8 DEF Shape
<1>6. CASE AttackGone
  <2>1. MapsType' /\ live' = live
    BY <1>0, <1>6 DEF AttackGone, MapsType, live
  <2>2. RestType'
    BY <1>0, <1>6 DEF AttackGone, RestType, HttpStates
  <2>3. Unborn' /\ RequestFits'
    BY <1>0, <1>6, <2>1 DEF AttackGone, Unborn, RequestFits, RestType, HttpStates
  <2> QED  BY <2>1, <2>2, <2>3 DEF Shape
<1>7. CASE BeginAttack
  <2>1. http.sid \in live /\ http \in HttpStates
    BY <1>0, <1>7 DEF BeginAttack, RestType
  <2>2. MapsType' /\ live' = live
    <3>1. sessions' \in [live -> Ages]
      BY <1>0, <1>7 DEF BeginAttack, Touch, Touched, MapsType
    <3>2. live' = live
      BY <3>1 DEF live
    <3> QED  BY <1>0, <1>7, <3>1, <3>2 DEF BeginAttack, MapsType
  <2>3. http' = [http EXCEPT !.pc = "attacking", !.left = 1]
    BY <1>7 DEF BeginAttack
  <2>4. RestType'
    <3>1. http' \in HttpStates
      <4>1. "attacking" \in {"idle", "found", "attacking", "read"} /\ 1 \in 0 .. 3
        OBVIOUS
      <4> QED  BY <2>1, <2>3, <4>1, RequestUpdated DEF HttpStates
    <3> QED  BY <1>0, <1>7, <3>1 DEF BeginAttack, Touch, RestType
  <2>5. Unborn'
    BY <1>0, <1>7, <2>1, <2>2, <2>3 DEF BeginAttack, Unborn, RestType, HttpStates
  <2>6. RequestFits'
    BY <1>0, <1>7, <2>1, <2>2, <2>3 DEF BeginAttack, Found, RequestFits, RestType, HttpStates
  <2> QED  BY <2>2, <2>4, <2>5, <2>6 DEF Shape
<1>8. ASSUME NEW dt \in TimeSteps, NEW n \in 1 .. 3, BeginTick(dt, n)  PROVE Shape'
  <2>1. http.sid \in live /\ http \in HttpStates /\ states[http.sid] \in Vehicles
    BY <1>0, <1>8 DEF BeginTick, RestType, MapsType
  <2>2. Moved(states[http.sid], dt) \in Vehicles
    BY <2>1, MovedFits
  <2>3. states' = [states EXCEPT ![http.sid] = Moved(states[http.sid], dt)]
    BY <1>8 DEF BeginTick
  <2>4. sessions' = Touched(http.sid) /\ recent' \in [live -> 0 .. 3]
    BY <1>0, <1>8 DEF BeginTick, Touch, MapsType
  <2>5. MapsType' /\ live' = live
    BY <1>0, <2>1, <2>2, <2>3, <2>4, VehicleChanges
  <2>6. http' = [http EXCEPT !.pc = "attacking", !.left = n, !.dt = dt]
    BY <1>8 DEF BeginTick
  <2>7. RestType'
    <3>1. http' \in HttpStates
      <4>1. "attacking" \in {"idle", "found", "attacking", "read"} /\ n \in 0 .. 3
        OBVIOUS
      <4> QED  BY <2>1, <2>6, <4>1, RequestUpdated DEF HttpStates
    <3> QED  BY <1>0, <1>8, <3>1 DEF BeginTick, Touch, RestType
  <2>8. Unborn'
    BY <1>0, <1>8, <2>1, <2>5, <2>6 DEF BeginTick, Unborn, HttpStates
  <2>9. RequestFits'
    <3>1. /\ http'.pc = "attacking" /\ http'.sid = http.sid /\ http'.left = n
          /\ http'.events = http.events /\ http'.op = http.op
      BY <2>1, <2>6 DEF HttpStates
    <3>2. http.events = 0 /\ rocks' = rocks /\ rocks + n <= MaxRocks
      BY <1>0, <1>8 DEF BeginTick, Found, RequestFits
    <3>3. http.sid \in Sid /\ http.op \in Operation
      BY <1>0, <1>8 DEF BeginTick, Found, RequestFits
    <3> QED  BY <2>1, <2>5, <3>1, <3>2, <3>3 DEF RequestFits
  <2> QED  BY <2>5, <2>7, <2>8, <2>9 DEF Shape
<1>9. ASSUME NEW k \in Blows, Throw(k)  PROVE Shape'
  <2>1. http.sid \in live /\ http \in HttpStates /\ states[http.sid] \in Vehicles /\ k \in Nat
    BY <1>0, <1>9 DEF Throw, RestType, MapsType, RequestFits
  <2>2. Struck(states[http.sid], k) \in Vehicles
    BY <2>1, StruckType
  <2>3. states' = [states EXCEPT ![http.sid] = Struck(states[http.sid], k)]
    BY <1>9 DEF Throw
  <2>4. sessions' = sessions /\ recent' \in [live -> 0 .. 3]
    BY <1>0, <1>9 DEF Throw, MapsType
  <2>5. MapsType' /\ live' = live
    BY <1>0, <2>1, <2>2, <2>3, <2>4, VehicleChanges
  <2>6. http' = [http EXCEPT !.left = http.left - 1, !.events = http.events + 1] /\ rocks' = rocks + 1
    BY <1>9 DEF Throw
  <2>7. /\ http.left \in 1 .. 3 /\ http.events \in 0 .. 3
        /\ http.events + http.left <= 3 /\ rocks + http.left <= MaxRocks
    BY <1>0, <1>9, <2>1 DEF Throw, HttpStates, RequestFits
  <2>8. RestType'
    <3>1. http' \in HttpStates
      <4>1. http.left - 1 \in 0 .. 3 /\ http.events + 1 \in 0 .. 3
        BY <2>7
      <4> QED  BY <2>1, <2>6, <4>1, RequestUpdated DEF HttpStates
    <3>2. rocks' \in 0 .. MaxRocks
      BY <1>0, <2>6, <2>7 DEF RestType
    <3>3. dealt' \in [Sid -> Nat]
      BY <1>0, <1>9, <2>1 DEF Throw, RestType, MapsType
    <3> QED  BY <1>0, <1>9, <3>1, <3>2, <3>3 DEF Throw, RestType
  <2>9. Unborn'
    BY <1>0, <1>9, <2>1, <2>5, <2>6 DEF Throw, Unborn, HttpStates, RestType
  <2>10. RequestFits'
    <3>1. /\ http'.pc = http.pc /\ http'.sid = http.sid /\ http'.op = http.op
          /\ http'.left = http.left - 1 /\ http'.events = http.events + 1
      BY <2>1, <2>6 DEF HttpStates
    <3>2. http.pc = "attacking"
      BY <1>9 DEF Throw
    <3>3. http.sid \in Sid /\ http.op \in Operation /\ rocks \in Int
      BY <1>0, <3>2 DEF RequestFits, RestType
    <3> QED  BY <2>1, <2>5, <2>6, <2>7, <3>1, <3>2, <3>3 DEF RequestFits
  <2> QED  BY <2>5, <2>8, <2>9, <2>10 DEF Shape
<1>10. CASE EndAttack
  <2>1. http.sid \in live /\ http \in HttpStates /\ states[http.sid] \in Vehicles
    BY <1>0, <1>10 DEF EndAttack, RestType, MapsType, RequestFits
  <2>2. PICK v \in Settled(states[http.sid]) : states' = [states EXCEPT ![http.sid] = v]
    BY <1>10 DEF EndAttack
  <2>3. v \in Vehicles
    BY <2>1, <2>2, SettledFits
  <2>4. sessions' = sessions /\ recent' \in [live -> 0 .. 3]
    BY <1>0, <1>10, <2>1 DEF EndAttack, MapsType, HttpStates
  <2>5. MapsType' /\ live' = live
    BY <1>0, <2>1, <2>2, <2>3, <2>4, VehicleChanges
  <2>6. http' = [http EXCEPT !.pc = "read"]
    BY <1>10 DEF EndAttack
  <2>7. RestType'
    <3>1. http' \in HttpStates
      BY <2>1, <2>6 DEF HttpStates
    <3> QED  BY <1>0, <1>10, <3>1 DEF EndAttack, RestType, historyVars
  <2>8. Unborn' /\ RequestFits'
    BY <1>0, <1>10, <2>1, <2>5, <2>6 DEF EndAttack, Unborn, RequestFits, HttpStates
  <2> QED  BY <2>5, <2>7, <2>8 DEF Shape
<1>11. CASE Read
  <2>1. MapsType' /\ live' = live
    BY <1>0, <1>11 DEF Read, MapsType, live
  <2>2. ShownImpacts(http.sid) \in Nat \union {NoState}
    BY <1>0 DEF ShownImpacts, MapsType, Vehicles
  <2>3. http \in HttpStates /\ http.op \in Operation /\ http.sid \in Sid
    BY <1>0, <1>11 DEF Read, RestType, RequestFits
  <2>4. answer' \in Answers
    BY <1>11, <2>2, <2>3 DEF Read, Answer, Answers, HttpStates
  <2>5. RestType'
    BY <1>0, <1>11, <2>4 DEF Read, RestType, HttpStates, Idle, NoSid, historyVars
  <2>6. Unborn' /\ RequestFits'
    BY <1>0, <1>11, <2>1 DEF Read, Answer, Unborn, RequestFits, Idle, NoSid, RestType, Sid
  <2> QED  BY <2>1, <2>5, <2>6 DEF Shape
<1>12. CASE TimePasses
  <2>1. sessions' \in [live -> Ages] /\ quiet' \in [Sid -> Ages]
    BY <1>0, <1>12, TickedAge DEF TimePasses, Ticked, MapsType, RestType, live
  <2>2. live' = live
    BY <2>1 DEF live
  <2>3. MapsType'
    BY <1>0, <1>12, <2>1, <2>2 DEF TimePasses, MapsType
  <2>4. RestType' /\ Unborn' /\ RequestFits'
    BY <1>0, <1>12, <2>1, <2>2 DEF TimePasses, RestType, Unborn, RequestFits
  <2> QED  BY <2>3, <2>4 DEF Shape
<1>13. ASSUME NEW gone, Erase(gone),
              UNCHANGED <<nextSid, rocks, http, dealt, quiet>>,
              answer' = answer \/ answer' \in [op : {"none", "cleanup"}, sid : {NoSid},
                                              events : {0}, shown : {NoState}],
              http.pc # "attacking"
       PROVE  Shape'
  <2>1. MapsType' /\ live' = live \ gone
    BY <1>0, <1>13, EraseKeepsMaps
  <2>2. answer' \in Answers /\ (answer' = answer \/ answer'.sid = 0)
    BY <1>0, <1>13 DEF RestType, Answers, NoSid
  <2>3. RestType' /\ RequestFits'
    BY <1>0, <1>13, <2>2 DEF RestType, RequestFits
  <2>4. Unborn'
    BY <1>0, <1>13, <2>1, <2>2 DEF Unborn, RestType
  <2> QED  BY <2>1, <2>3, <2>4 DEF Shape
<1>14. CASE Cleanup
  BY <1>13, <1>14 DEF Cleanup, MutexFree
<1>15. CASE CleanupCall
  BY <1>13, <1>15 DEF CleanupCall, NoAnswer, Idle
<1>16. ASSUME NEW s \in Sid, Destroy(s)  PROVE Shape'
  BY <1>13, <1>16 DEF Destroy, NoAnswer, Idle
<1>17. CASE UNCHANGED vars
  BY <1>0, <1>17 DEF vars, Shape, MapsType, RestType, Unborn, RequestFits, live
<1> QED
  BY <1>1, <1>2, <1>3, <1>4, <1>5, <1>6, <1>7, <1>8, <1>9, <1>10, <1>11, <1>12, <1>14, <1>15,
     <1>16, <1>17
  DEF Next, HttpStep

\* The inductive invariant: maps, request and history always fit together.
THEOREM ShapeKept == Spec => []Shape
BY ShapeInit, ShapeNext, PTL DEF Spec

(***************************************************************************)
(* Every variable keeps its type: among others, health and armour never    *)
(* leave their scales, and no request throws more rocks than it may.       *)
(***************************************************************************)
THEOREM TypeCorrect == Spec => []TypeOK
BY ShapeKept, ShapeGivesTypeAndMaps, PTL

(***************************************************************************)
(* The three maps hold the same sessions, and the session of an attack is  *)
(* there until the attack is over, whenever the cleanup thread comes.      *)
(***************************************************************************)
THEOREM MapsAlwaysAgree == Spec => []MapsAgree
BY ShapeKept, ShapeGivesTypeAndMaps, PTL
-----------------------------------------------------------------------------
(***************************************************************************)
(* Damage and way of each vehicle.                                         *)
(***************************************************************************)
\* One vehicle changes and keeps its damage and its reach.
LEMMA OneVehicle ==
  ASSUME MapsType, WearAndWay, NEW s \in live, NEW v, NEW d,
         states' = [states EXCEPT ![s] = v],
         dealt \in [Sid -> Nat], dealt' = [dealt EXCEPT ![s] = d],
         Accounts(v, d), InReach(v)
  PROVE  WearAndWay'
<1>1. DOMAIN states' = live /\ live \subseteq Sid /\ DOMAIN states = live
  BY DEF MapsType
<1>2. ASSUME NEW t \in live
      PROVE  Accounts(states'[t], dealt'[t]) /\ InReach(states'[t])
  <2>1. CASE t = s
    BY <1>1, <2>1
  <2>2. CASE t # s
    BY <1>1, <2>2 DEF WearAndWay, DamageAccounted, OdometerCoversTrip, InReach
  <2> QED  BY <2>1, <2>2
<1>3. \A t \in live : Accounts(states'[t], dealt'[t]) /\ InReach(states'[t])
  BY <1>2
<1>4. DamageAccounted'
  BY <1>1, <1>3 DEF DamageAccounted
<1>5. OdometerCoversTrip'
  BY <1>1, <1>3 DEF OdometerCoversTrip, InReach
<1> QED  BY <1>4, <1>5 DEF WearAndWay

\* The vehicle moves, or stops shaking, and takes no damage.
LEMMA OneVehicleSameBody ==
  ASSUME MapsType, WearAndWay, NEW s \in live, NEW v,
         states' = [states EXCEPT ![s] = v], dealt \in [Sid -> Nat], dealt' = dealt,
         SameBody(states[s], v), InReach(states[s]) => InReach(v)
  PROVE  WearAndWay'
<1>1. s \in DOMAIN states /\ s \in Sid
  BY DEF MapsType
<1>2. Accounts(v, dealt[s]) /\ InReach(v)
  BY <1>1, SameBodyAccounts DEF WearAndWay, DamageAccounted, OdometerCoversTrip, InReach
<1>3. dealt' = [dealt EXCEPT ![s] = dealt[s]]
  BY <1>1
<1> QED  BY <1>2, <1>3, OneVehicle

\* One step per action: each keeps wear and damage, and way and odometer, in step.
LEMMA WearNext == Shape /\ WearAndWay /\ [Next]_vars => WearAndWay'
<1> SUFFICES ASSUME Shape, WearAndWay, [Next]_vars  PROVE WearAndWay'
  OBVIOUS
<1> USE SessionAssumption
<1>0. /\ MapsType /\ dealt \in [Sid -> Nat] /\ DOMAIN states = live
      /\ \A s \in live : s \in Sid /\ states[s] \in Vehicles
  BY DEF Shape, MapsType, RestType
<1>1. CASE Create
  <2>1. nextSid \in Sid /\ nextSid \notin live /\ dealt[nextSid] = 0 /\ dealt' = dealt
    BY <1>1 DEF Create, Shape, RestType, Unborn, Sid, historyVars
  <2>2. /\ DOMAIN states' = live \union {nextSid}
        /\ states'[nextSid] = NewVehicle
        /\ \A s \in live : states'[s] = states[s]
    BY <1>0, <1>1, <2>1 DEF Create, With
  <2>3. \A s \in DOMAIN states' : Accounts(states'[s], dealt'[s]) /\ InReach(states'[s])
    BY <1>0, <2>1, <2>2, NewVehicleIsNew
    DEF WearAndWay, DamageAccounted, OdometerCoversTrip, InReach
  <2>4. DamageAccounted'
    BY <2>3 DEF DamageAccounted
  <2>5. OdometerCoversTrip'
    BY <2>3 DEF OdometerCoversTrip, InReach
  <2> QED  BY <2>4, <2>5 DEF WearAndWay
<1>2. ASSUME UNCHANGED <<states, dealt>>  PROVE WearAndWay'
  BY <1>2 DEF WearAndWay, DamageAccounted, OdometerCoversTrip
<1>3. CASE Action
  <2>1. http.sid \in live /\ dealt' = dealt
    BY <1>3 DEF Action
  <2>2. PICK v \in Driven(states[http.sid]) : states' = [states EXCEPT ![http.sid] = v]
    BY <1>3 DEF Action
  <2>3. SameBody(states[http.sid], v) /\ (InReach(states[http.sid]) => InReach(v))
    BY <1>0, <2>1, <2>2, DrivenFits
  <2> QED  BY <1>0, <2>1, <2>2, <2>3, OneVehicleSameBody
<1>4. CASE Reset
  <2>1. http.sid \in live /\ dealt' = [dealt EXCEPT ![http.sid] = 0]
    BY <1>4 DEF Reset
  <2>2. states' = [states EXCEPT ![http.sid] = ResetVehicle(states[http.sid])]
    BY <1>4 DEF Reset
  <2>3. Accounts(ResetVehicle(states[http.sid]), 0) /\ InReach(ResetVehicle(states[http.sid]))
    BY <1>0, <2>1, ResetFits
  <2> QED  BY <1>0, <2>1, <2>2, <2>3, OneVehicle
<1>5. ASSUME NEW dt \in TimeSteps, NEW n \in 1 .. 3, BeginTick(dt, n)  PROVE WearAndWay'
  <2>1. http.sid \in live /\ dealt' = dealt
    BY <1>5 DEF BeginTick
  <2>2. states' = [states EXCEPT ![http.sid] = Moved(states[http.sid], dt)]
    BY <1>5 DEF BeginTick
  <2>3. LET v == Moved(states[http.sid], dt)
        IN  SameBody(states[http.sid], v) /\ (InReach(states[http.sid]) => InReach(v))
    BY <1>0, <2>1, MovedFits
  <2> QED  BY <1>0, <2>1, <2>2, <2>3, OneVehicleSameBody
<1>6. ASSUME NEW k \in Blows, Throw(k)  PROVE WearAndWay'
  <2>1. http.sid \in live /\ k \in Nat
    BY <1>6 DEF Throw, Shape, RequestFits
  <2>2. /\ states' = [states EXCEPT ![http.sid] = Struck(states[http.sid], k)]
        /\ dealt' = [dealt EXCEPT ![http.sid] = dealt[http.sid] + k]
    BY <1>6 DEF Throw
  <2>3. Accounts(Struck(states[http.sid], k), dealt[http.sid] + k)
    BY <1>0, <2>1, StruckAccounts DEF WearAndWay, DamageAccounted
  <2>4. InReach(Struck(states[http.sid], k))
    <3>1. InReach(states[http.sid])
      BY <1>0, <2>1 DEF WearAndWay, OdometerCoversTrip, InReach
    <3>2. /\ Struck(states[http.sid], k).x = states[http.sid].x
          /\ Struck(states[http.sid], k).odometer = states[http.sid].odometer
      BY <1>0, <2>1 DEF Struck, Vehicles
    <3> QED  BY <3>1, <3>2 DEF InReach
  <2> QED  BY <1>0, <2>1, <2>2, <2>3, <2>4, OneVehicle
<1>7. CASE EndAttack
  <2>1. http.sid \in live /\ dealt' = dealt
    BY <1>7 DEF EndAttack, Shape, RequestFits, historyVars
  <2>2. PICK v \in Settled(states[http.sid]) : states' = [states EXCEPT ![http.sid] = v]
    BY <1>7 DEF EndAttack
  <2>3. SameBody(states[http.sid], v) /\ (InReach(states[http.sid]) => InReach(v))
    BY <1>0, <2>1, <2>2, SettledFits
  <2> QED  BY <1>0, <2>1, <2>2, <2>3, OneVehicleSameBody
<1>8. ASSUME NEW gone, Erase(gone), dealt' = dealt  PROVE WearAndWay'
  <2>1. DOMAIN states' = live' /\ \A s \in live' : s \in live /\ states'[s] = states[s]
    BY <1>0, <1>8, EraseKeepsMaps DEF MapsType
  <2> QED  BY <1>0, <1>8, <2>1 DEF WearAndWay, DamageAccounted, OdometerCoversTrip
<1> QED
  BY <1>1, <1>2, <1>3, <1>4, <1>5, <1>6, <1>7, <1>8
  DEF Next, HttpStep, Check, OnGone, AttackGone, BeginAttack, Read, TimePasses, Cleanup,
      CleanupCall, Destroy, mapVars, historyVars, vars

(***************************************************************************)
(* Through any sequence of attacks, drives and resets, what armour and     *)
(* health have lost adds up to the damage dealt, and the odometer covers   *)
(* the distance from the start.                                            *)
(***************************************************************************)
THEOREM WearAccounted == Spec => []WearAndWay
<1>1. Init => WearAndWay
  BY DEF Init, WearAndWay, DamageAccounted, OdometerCoversTrip
<1> QED  BY <1>1, WearNext, ShapeKept, PTL DEF Spec
-----------------------------------------------------------------------------
(***************************************************************************)
(* A vehicle has been struck at least as often as the request under way    *)
(* has thrown rocks at it.                                                 *)
(***************************************************************************)
RocksShow ==
  http.pc \in {"attacking", "read"} /\ http.sid \in live =>
    states[http.sid].impacts >= http.events

\* A rock counts in the vehicle and in the request at once, and nobody resets between.
LEMMA RocksShowNext == Shape /\ RocksShow /\ [Next]_vars => RocksShow'
<1> SUFFICES ASSUME Shape, RocksShow, [Next]_vars  PROVE RocksShow'
  OBVIOUS
<1> USE SessionAssumption
<1>0. /\ MapsType /\ DOMAIN states = live /\ http \in HttpStates
      /\ \A s \in live : states[s] \in Vehicles /\ states[s].impacts \in Nat
  BY DEF Shape, MapsType, RestType, Vehicles
<1>1. ASSUME http'.pc = "idle"  PROVE RocksShow'
  BY <1>1 DEF RocksShow
<1>2. ASSUME NEW op, NEW s, Check(op, s)  PROVE RocksShow'
  <2>1. http'.pc \in {"idle", "found"}
    BY <1>2 DEF Check, Idle
  <2> QED  BY <2>1 DEF RocksShow
<1>3. CASE AttackGone
  <2>1. http'.sid = http.sid /\ live' = live /\ http.sid \notin live
    BY <1>0, <1>3 DEF AttackGone, mapVars, HttpStates, live
  <2> QED  BY <2>1 DEF RocksShow
<1>4. CASE BeginAttack
  <2>1. http'.sid = http.sid /\ http'.events = 0 /\ http.sid \in live /\ states' = states
    BY <1>0, <1>4 DEF BeginAttack, Found, Shape, RequestFits, HttpStates
  <2> QED  BY <1>0, <2>1 DEF RocksShow
<1>5. ASSUME NEW dt \in TimeSteps, NEW n \in 1 .. 3, BeginTick(dt, n)  PROVE RocksShow'
  <2>1. http'.sid = http.sid /\ http'.events = 0 /\ http.sid \in live
    BY <1>0, <1>5 DEF BeginTick, Found, Shape, RequestFits, HttpStates
  <2>2. states'[http.sid].impacts \in Nat
    BY <1>0, <1>5, <2>1, MovedFits DEF BeginTick, Vehicles
  <2> QED  BY <2>1, <2>2 DEF RocksShow
<1>6. ASSUME NEW k \in Blows, Throw(k)  PROVE RocksShow'
  <2>1. http.sid \in live /\ http.pc = "attacking"
    BY <1>6 DEF Throw, Shape, RequestFits
  <2>2. states'[http.sid].impacts = states[http.sid].impacts + 1
    BY <1>0, <1>6, <2>1 DEF Throw, Struck, Vehicles
  <2>3. http'.sid = http.sid /\ http'.events = http.events + 1 /\ http.events \in Nat
    BY <1>0, <1>6 DEF Throw, HttpStates
  <2> QED  BY <1>0, <2>1, <2>2, <2>3 DEF RocksShow
<1>7. CASE EndAttack
  <2>1. http.sid \in live /\ http.pc = "attacking"
    BY <1>7 DEF EndAttack, Shape, RequestFits
  <2>2. PICK v \in Settled(states[http.sid]) : states' = [states EXCEPT ![http.sid] = v]
    BY <1>7 DEF EndAttack
  <2>3. states'[http.sid].impacts = states[http.sid].impacts
    BY <1>0, <2>1, <2>2, SettledFits DEF SameBody
  <2>4. http'.sid = http.sid /\ http'.events = http.events
    BY <1>0, <1>7 DEF EndAttack, HttpStates
  <2> QED  BY <2>1, <2>3, <2>4 DEF RocksShow
<1>8. ASSUME NEW gone, Erase(gone), http' = http  PROVE RocksShow'
  BY <1>0, <1>8, EraseKeepsMaps DEF RocksShow
<1>9. ASSUME UNCHANGED <<http, states>>, live' = live  PROVE RocksShow'
  BY <1>9 DEF RocksShow
<1>10. CASE TimePasses
  BY <1>9, <1>10 DEF TimePasses, Ticked, live
<1>11. CASE Create \/ OnGone \/ Action \/ Reset \/ Read
  BY <1>1, <1>11 DEF Create, OnGone, Action, Reset, Read, Idle
<1>12. ASSUME Cleanup \/ CleanupCall \/ \E s \in Sid : Destroy(s)  PROVE RocksShow'
  BY <1>8, <1>12 DEF Cleanup, CleanupCall, Destroy
<1>13. CASE UNCHANGED vars
  BY <1>9, <1>13 DEF vars, mapVars, live
<1> QED
  BY <1>2, <1>3, <1>4, <1>5, <1>6, <1>7, <1>10, <1>11, <1>12, <1>13 DEF Next, HttpStep

\* The answer is given from a state that shows the rocks, or from none.
LEMMA AnswerNext == Shape /\ RocksShow /\ AnswerFits /\ [Next]_vars => AnswerFits'
<1> SUFFICES ASSUME Shape, RocksShow, AnswerFits, [Next]_vars  PROVE AnswerFits'
  OBVIOUS
<1>0. /\ MapsType /\ DOMAIN states = live /\ http \in HttpStates
      /\ \A s \in live : states[s].impacts \in Nat
  BY DEF Shape, MapsType, RestType, Vehicles
<1>1. ASSUME answer'.events = 0  PROVE AnswerFits'
  BY <1>1 DEF AnswerFits
<1>2. ASSUME answer' = answer, live' \subseteq live  PROVE AnswerFits'
  BY <1>2 DEF AnswerFits
<1>3. CASE Read
  <2>1. live' = live /\ http.pc = "read"
    BY <1>3 DEF Read, mapVars, live
  <2>2. /\ answer'.sid = http.sid /\ answer'.events = http.events
        /\ answer'.shown = ShownImpacts(http.sid)
    BY <1>3 DEF Read, Answer
  <2> QED  BY <1>0, <2>1, <2>2 DEF AnswerFits, RocksShow, ShownImpacts
<1>4. ASSUME NEW gone, Erase(gone), answer' = answer  PROVE AnswerFits'
  BY <1>0, <1>2, <1>4, EraseKeepsMaps
<1>5. ASSUME sessions' = Touched(http.sid), answer' = answer  PROVE AnswerFits'
  BY <1>2, <1>5 DEF Touched, live
<1>6. CASE TimePasses
  BY <1>2, <1>6 DEF TimePasses, Ticked, live
<1>7. CASE Create
  BY <1>1, <1>7 DEF Create, NoAnswer
<1>8. ASSUME NEW op, NEW s, Check(op, s)  PROVE AnswerFits'
  BY <1>1, <1>8 DEF Check, NoAnswer
<1>9. CASE OnGone \/ Action \/ Reset
  BY <1>1, <1>9 DEF OnGone, Action, Reset, Answer
<1>10. CASE BeginAttack
  BY <1>5, <1>10 DEF BeginAttack, Touch
<1>11. ASSUME NEW dt, NEW n, BeginTick(dt, n)  PROVE AnswerFits'
  BY <1>5, <1>11 DEF BeginTick, Touch
<1>12. ASSUME answer' = answer, sessions' = sessions  PROVE AnswerFits'
  BY <1>2, <1>12 DEF live
<1>13. CASE AttackGone \/ EndAttack \/ UNCHANGED vars
  BY <1>13, <1>12 DEF AttackGone, EndAttack, vars, mapVars
<1>14. ASSUME NEW k, Throw(k)  PROVE AnswerFits'
  BY <1>12, <1>14 DEF Throw
<1>15. CASE Cleanup
  BY <1>4, <1>15 DEF Cleanup
<1>16. CASE CleanupCall
  BY <1>1, <1>16 DEF CleanupCall, NoAnswer
<1>17. ASSUME NEW s, Destroy(s)  PROVE AnswerFits'
  BY <1>1, <1>17 DEF Destroy, NoAnswer
<1> QED
  BY <1>3, <1>6, <1>7, <1>8, <1>9, <1>10, <1>11, <1>13, <1>14, <1>15, <1>16, <1>17
  DEF Next, HttpStep

(***************************************************************************)
(* The answer to an attack or a tick shows its rocks, or no state at all   *)
(* because the session is gone: has_session, the operation and             *)
(* get_vehicle_state are three critical sections.                          *)
(***************************************************************************)
THEOREM AnswersFit == Spec => []AnswerFits
<1>1. Init => RocksShow /\ AnswerFits
  BY DEF Init, RocksShow, AnswerFits, Idle, NoAnswer
<1> QED  BY <1>1, ShapeKept, RocksShowNext, AnswerNext, PTL DEF Spec
-----------------------------------------------------------------------------
(***************************************************************************)
(* last_active_ms is the time of the last operation, whichever it was.     *)
(***************************************************************************)
AgesTrue == \A s \in live : quiet[s] = sessions[s]

\* Every operation restarts both clocks, every tick moves both.
LEMMA AgesTrueNext == Shape /\ AgesTrue /\ [Next]_vars => AgesTrue'
<1> SUFFICES ASSUME Shape, AgesTrue, [Next]_vars  PROVE AgesTrue'
  OBVIOUS
<1>0. /\ MapsType /\ quiet \in [Sid -> Ages] /\ live \subseteq Sid
      /\ sessions \in [live -> Ages]
  BY DEF Shape, MapsType, RestType
<1>1. ASSUME UNCHANGED <<sessions, quiet>>  PROVE AgesTrue'
  BY <1>1 DEF AgesTrue, live
<1>2. ASSUME Touch(http.sid), http.sid \in live  PROVE AgesTrue'
  <2>1. live' = live
    BY <1>2 DEF Touch, Touched, live
  <2> QED  BY <1>0, <1>2, <2>1 DEF AgesTrue, Touch, Touched
<1>3. ASSUME NEW gone, Erase(gone), quiet' = quiet  PROVE AgesTrue'
  BY <1>0, <1>3, EraseKeepsMaps DEF AgesTrue
<1>4. CASE Create
  <2>1. nextSid \in Sid /\ nextSid \notin live
    BY <1>4 DEF Create, Shape, RestType, Unborn, Sid
  <2> QED  BY <1>0, <1>4, <2>1 DEF Create, AgesTrue, With, live
<1>5. CASE TimePasses
  <2>1. live' = live
    BY <1>5 DEF TimePasses, Ticked, live
  <2>2. \A s \in live :
          /\ sessions'[s] = Smaller(sessions[s] + 1, IdleTimeout + 1)
          /\ quiet'[s] = Smaller(quiet[s] + 1, IdleTimeout + 1)
    BY <1>0, <1>5 DEF TimePasses, Ticked
  <2> QED  BY <2>1, <2>2 DEF AgesTrue
<1>6. ASSUME NEW op, NEW s, Check(op, s)  PROVE AgesTrue'
  BY <1>1, <1>6 DEF Check, mapVars, historyVars
<1>7. CASE OnGone \/ AttackGone \/ EndAttack \/ Read \/ UNCHANGED vars
  BY <1>1, <1>7 DEF OnGone, AttackGone, EndAttack, Read, vars, mapVars, historyVars
<1>8. CASE Action \/ Reset \/ BeginAttack
  BY <1>2, <1>8 DEF Action, Reset, BeginAttack
<1>9. ASSUME NEW dt, NEW n, BeginTick(dt, n)  PROVE AgesTrue'
  BY <1>2, <1>9 DEF BeginTick
<1>10. ASSUME NEW k, Throw(k)  PROVE AgesTrue'
  BY <1>1, <1>10 DEF Throw
<1>11. CASE Cleanup \/ CleanupCall
  BY <1>3, <1>11 DEF Cleanup, CleanupCall, historyVars
<1>12. ASSUME NEW s, Destroy(s)  PROVE AgesTrue'
  BY <1>3, <1>12 DEF Destroy, historyVars
<1> QED
  BY <1>4, <1>5, <1>6, <1>7, <1>8, <1>9, <1>10, <1>11, <1>12 DEF Next, HttpStep

\* What a step may take away.
Taken == \A s \in live \ live' : quiet[s] > IdleTimeout \/ Destroy(s)

\* What a step takes from the maps was quiet for too long, or destroyed.
LEMMA OnlyTheQuietGo == Shape /\ AgesTrue /\ [Next]_vars => [Taken]_vars
<1> SUFFICES ASSUME Shape, AgesTrue, Next  PROVE Taken
  OBVIOUS
<1>0. MapsType /\ DOMAIN sessions = live
  BY DEF Shape, MapsType
<1>1. ASSUME live \subseteq live'  PROVE Taken
  BY <1>1 DEF Taken
<1>2. CASE Cleanup \/ CleanupCall
  <2>1. Erase({s \in live : Expired(s)})
    BY <1>2 DEF Cleanup, CleanupCall
  <2>2. \A s \in live \ live' : Expired(s)
    BY <1>0, <2>1, EraseKeepsMaps
  <2> QED  BY <2>2 DEF Taken, Expired, AgesTrue
<1>3. ASSUME NEW t \in Sid, Destroy(t)  PROVE Taken
  <2>1. Erase({t})
    BY <1>3 DEF Destroy
  <2>2. \A s \in live \ live' : s = t
    BY <1>0, <2>1, EraseKeepsMaps
  <2> QED  BY <1>3, <2>2 DEF Taken
<1>4. CASE Create
  BY <1>1, <1>4 DEF Create, With, live
<1>5. ASSUME NEW op, NEW s, Check(op, s)  PROVE Taken
  BY <1>1, <1>5 DEF Check, mapVars, live
<1>6. CASE OnGone \/ AttackGone \/ EndAttack \/ Read
  BY <1>1, <1>6 DEF OnGone, AttackGone, EndAttack, Read, mapVars, live
<1>7. CASE Action \/ Reset \/ BeginAttack
  BY <1>1, <1>7 DEF Action, Reset, BeginAttack, Touch, Touched, live
<1>8. ASSUME NEW dt, NEW n, BeginTick(dt, n)  PROVE Taken
  BY <1>1, <1>8 DEF BeginTick, Touch, Touched, live
<1>9. ASSUME NEW k, Throw(k)  PROVE Taken
  BY <1>1, <1>9 DEF Throw, live
<1>10. CASE TimePasses
  BY <1>1, <1>10 DEF TimePasses, Ticked, live
<1> QED
  BY <1>2, <1>3, <1>4, <1>5, <1>6, <1>7, <1>8, <1>9, <1>10 DEF Next, HttpStep

(***************************************************************************)
(* A session in use is not cleaned up: nothing ends it within the timeout  *)
(* of its last operation but destroy_session.                              *)
(***************************************************************************)
THEOREM ActiveSessionsStay == Spec => ActiveStays
<1>1. Init => AgesTrue
  BY DEF Init, AgesTrue, live
<1> QED  BY <1>1, ShapeKept, AgesTrueNext, OnlyTheQuietGo, PTL DEF Spec, ActiveStays, Taken
=============================================================================
