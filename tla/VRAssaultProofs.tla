--------------------------- MODULE VRAssaultProofs ---------------------------
(***************************************************************************)
(* Proofs about VRAssault, for any number of rounds and rocks, any timeout *)
(* and any set of modes, blows, speeds and time steps.                     *)
(***************************************************************************)
EXTENDS VRAssault, TLAPS

(***************************************************************************)
(* What the operators of Vehicle do to health and armour, and to a map     *)
(* that gains or loses keys.  (UserSessionsProofs has the like with the    *)
(* way as well: the two share Vehicle and no variable.)                    *)
(***************************************************************************)

(***************************************************************************)
(* Health and armour stay between none and full whatever strikes.          *)
(***************************************************************************)
LEMMA StruckType ==
  ASSUME NEW v \in Vehicles, NEW k \in Nat
  PROVE  Struck(v, k) \in Vehicles
<1> USE VehicleAssumption
<1>1. v.armor \in 0 .. Full /\ v.health \in 0 .. FullHealth /\ v.impacts \in Nat
  BY DEF Vehicles
<1>2. Absorbed(v, k) \in 0 .. v.armor /\ Absorbed(v, k) <= 4 * k
  BY <1>1 DEF Absorbed, Smaller
<1>3. Larger(0, v.health - Larger(0, 10 * k - Absorbed(v, k))) \in 0 .. FullHealth
  BY <1>1, <1>2 DEF Larger, FullHealth
<1>4. v.armor - Absorbed(v, k) \in 0 .. Full
  BY <1>1, <1>2
<1> DEFINE a == v.armor - Absorbed(v, k)
           h == Larger(0, v.health - Larger(0, 10 * k - Absorbed(v, k)))
<1>5. Struck(v, k) = [v EXCEPT !.impacts = v.impacts + 1, !.armor = a, !.health = h, !.shaken = TRUE]
  BY DEF Struck
<1> HIDE DEF a, h
<1>6. a \in 0 .. Full /\ h \in 0 .. FullHealth /\ v.impacts + 1 \in Nat
  BY <1>1, <1>3, <1>4 DEF a, h
<1> QED  BY <1>5, <1>6 DEF Vehicles

(***************************************************************************)
(* A blow of force k wears 10k half points off, split between armour and   *)
(* health in whatever way, as long as any health is left.                  *)
(***************************************************************************)
LEMMA StruckAccounts ==
  ASSUME NEW v \in Vehicles, NEW k \in Nat, NEW d \in Nat, Accounts(v, d)
  PROVE  Accounts(Struck(v, k), d + k)
<1> USE VehicleAssumption
<1> DEFINE a == Absorbed(v, k)
           h == Larger(0, v.health - Larger(0, 10 * k - a))
<1>1. v.armor \in 0 .. Full /\ v.health \in 0 .. FullHealth /\ FullHealth = 2 * Full
  BY DEF Vehicles, FullHealth
<1>2. a \in 0 .. v.armor /\ a <= 4 * k
  BY <1>1 DEF Absorbed, Smaller
<1>3. Struck(v, k).health = h /\ Struck(v, k).armor = v.armor - a
  BY DEF Struck, Vehicles
<1>4. Larger(0, 10 * k - a) = 10 * k - a
  BY <1>1, <1>2 DEF Larger
<1>5. h \in Int /\ h >= 0 /\ h >= v.health - (10 * k - a) /\ (h > 0 => h = v.health - (10 * k - a))
  BY <1>1, <1>2, <1>4 DEF Larger
<1>6. /\ (FullHealth - v.health) + (Full - v.armor) <= 10 * d
      /\ v.health > 0 => (FullHealth - v.health) + (Full - v.armor) = 10 * d
  BY DEF Accounts, Worn
<1>7. 10 * (d + k) = 10 * d + 10 * k
  OBVIOUS
<1> HIDE DEF a, h
<1>8. h > 0 => v.health > 0
  BY <1>1, <1>2, <1>5
<1>9. (FullHealth - h) + (Full - (v.armor - a)) <= 10 * (d + k)
  BY <1>1, <1>2, <1>5, <1>6, <1>7
<1>10. h > 0 => (FullHealth - h) + (Full - (v.armor - a)) = 10 * (d + k)
  <2> SUFFICES ASSUME h > 0  PROVE (FullHealth - h) + (Full - (v.armor - a)) = 10 * (d + k)
    OBVIOUS
  <2>1. h = v.health - (10 * k - a)
    BY <1>5
  <2>2. (FullHealth - v.health) + (Full - v.armor) = 10 * d
    BY <1>6, <1>8
  <2>3. a \in Int /\ v.health \in Int /\ v.armor \in Int /\ FullHealth \in Int /\ Full \in Int
    BY <1>1, <1>2
  <2>4. (FullHealth - h) + (Full - (v.armor - a))
          = ((FullHealth - v.health) + (Full - v.armor)) + 10 * k
    BY <2>1, <2>3
  <2> QED  BY <1>7, <2>2, <2>4
<1> QED  BY <1>3, <1>9, <1>10 DEF Accounts, Worn

\* Vehicles that differ in nothing but place, speed and vibration have taken
\* the same damage.
SameBody(v, w) == v.health = w.health /\ v.armor = w.armor /\ v.impacts = w.impacts

\* The damage is seen in the body only.
LEMMA SameBodyAccounts ==
  ASSUME NEW v, NEW w, NEW d, SameBody(v, w), Accounts(v, d)
  PROVE  Accounts(w, d)
BY DEF SameBody, Accounts, Worn

\* Driving takes no damage.
LEMMA MovedFits ==
  ASSUME NEW v \in Vehicles, NEW dt \in Int
  PROVE  Moved(v, dt) \in Vehicles /\ SameBody(v, Moved(v, dt))
<1> DEFINE d == v.speed * dt
<1>1. d \in Int /\ v.x \in Int /\ v.odometer \in Nat
  BY DEF Vehicles
<1>2. Moved(v, dt) = [v EXCEPT !.x = v.x + d, !.odometer = v.odometer + Abs(d)]
  BY DEF Moved, Vehicles
<1> HIDE DEF d
<1>3. v.x + d \in Int /\ v.odometer + Abs(d) \in Nat
  BY <1>1 DEF Abs, Larger
<1> QED  BY <1>2, <1>3 DEF Vehicles, SameBody

\* The odometer never runs back, in whatever direction time does.
LEMMA MovedOn ==
  ASSUME NEW v \in Vehicles, NEW dt \in Int
  PROVE  Moved(v, dt).odometer >= v.odometer
<1>1. v.speed * dt \in Int /\ v.odometer \in Nat
  BY DEF Vehicles
<1>2. \A d \in Int : Abs(d) \in Nat
  BY DEF Abs, Larger
<1>3. Moved(v, dt).odometer = v.odometer + Abs(v.speed * dt)
  BY DEF Moved, Vehicles
<1> QED  BY <1>1, <1>2, <1>3

\* reset_position takes the vehicle back to the start, without its odometer.
LEMMA AtStartFits ==
  ASSUME NEW v \in Vehicles
  PROVE  AtStart(v) \in Vehicles /\ SameBody(v, AtStart(v))
<1>1. AtStart(v) = [v EXCEPT !.x = 0, !.speed = 0] /\ 0 \in Int
  BY DEF AtStart
<1> QED  BY <1>1 DEF Vehicles, SameBody

\* A new vehicle has taken no damage.
LEMMA NewVehicleIsNew == NewVehicle \in Vehicles /\ Accounts(NewVehicle, 0)
BY VehicleAssumption DEF NewVehicle, Vehicles, Accounts, Worn, FullHealth

\* Throttle and brake change the speed only.
LEMMA AtSpeedFits ==
  ASSUME NEW v \in Vehicles, NEW s \in Int
  PROVE  AtSpeed(v, s) \in Vehicles /\ SameBody(v, AtSpeed(v, s))
BY DEF AtSpeed, Vehicles, SameBody

\* The end of a vibration changes nothing else.
LEMMA CalmFits ==
  ASSUME NEW v \in Vehicles
  PROVE  LET w == [v EXCEPT !.shaken = FALSE] IN w \in Vehicles /\ SameBody(v, w)
BY DEF Vehicles, SameBody
-----------------------------------------------------------------------------
\* A map gets an entry, or loses some.
LEMMA WithEntry ==
  ASSUME NEW S, NEW D, NEW f \in [D -> S], NEW k, NEW x \in S
  PROVE  With(f, k, x) \in [D \union {k} -> S]
BY DEF With

\* A map that loses some keys keeps its type.
LEMMA Restricted ==
  ASSUME NEW S, NEW D, NEW f \in [D -> S], NEW E
  PROVE  Restrict(f, D \ E) \in [D \ E -> S]
BY DEF Restrict

-----------------------------------------------------------------------------
Ages == 0 .. IdleTimeout + 1
Kept == live \union ended

\* A round is in all maps while it goes on; ended, it keeps state and result.
MapsType ==
  /\ live \subseteq Sid /\ ended \subseteq Sid
  /\ live \intersect ended = {}
  /\ sessions \in [live -> Ages]
  /\ modes \in [live -> Modes]
  /\ states \in [Kept -> Vehicles]
  /\ results \in [Kept -> Results]

Busy == [sid : Sid \union {NoSid}, tick : BOOLEAN, left : 0 .. 5, dt : TimeSteps \union {0}]

\* An attack under way is on a round that goes on, and has rocks left to throw.
RestType ==
  /\ nextSid \in 1 .. MaxSessions + 1
  /\ \A s \in Kept : s < nextSid
  /\ rocks \in 0 .. MaxRocks
  /\ busy \in Busy
  /\ busy # Free => busy.sid \in live /\ rocks + busy.left <= MaxRocks

Shape == MapsType /\ RestType

\* The shape implies the two invariants of the run that speak of types and maps.
LEMMA ShapeGivesTypeAndMaps == Shape => TypeOK /\ MapsNest
BY DEF Shape, MapsType, RestType, Busy, TypeOK, MapsNest, Ages, Kept

(***************************************************************************)
(* What the operations do to a vehicle and a result.                       *)
(***************************************************************************)
LEMMA DrivenFits ==
  ASSUME NEW v \in Vehicles, NEW w \in Driven(v)
  PROVE  w \in Vehicles /\ SameBody(v, w) /\ w.odometer = v.odometer
<1>1. CASE w = v
  BY <1>1 DEF SameBody
<1>2. CASE w = AtStart(v)
  BY <1>2, AtStartFits DEF AtStart, Vehicles
<1>3. ASSUME NEW sp \in Speeds \union {0}, w = AtSpeed(v, sp)
      PROVE  w \in Vehicles /\ SameBody(v, w) /\ w.odometer = v.odometer
  <2>1. sp \in Int
    BY AssaultAssumption
  <2> QED  BY <1>3, <2>1, AtSpeedFits DEF AtSpeed, Vehicles
<1> QED  BY <1>1, <1>2, <1>3 DEF Driven

\* A rock costs health at most, and adds one impact.
LEMMA ThrownFits ==
  ASSUME NEW v \in Vehicles, NEW k \in Blows, NEW w \in Settled(Struck(v, k))
  PROVE  /\ w \in Vehicles /\ SameBody(Struck(v, k), w)
         /\ w.impacts = v.impacts + 1 /\ w.odometer = v.odometer /\ w.health <= v.health
<1>1. k \in Nat /\ Struck(v, k) \in Vehicles
  BY AssaultAssumption, StruckType
<1>2. w \in Vehicles /\ SameBody(Struck(v, k), w) /\ w.odometer = Struck(v, k).odometer
  BY <1>1, CalmFits DEF Settled, SameBody, Vehicles
<1>3. Struck(v, k).impacts = v.impacts + 1 /\ Struck(v, k).odometer = v.odometer
  BY DEF Struck, Vehicles
<1>4. Struck(v, k).health = Larger(0, v.health - Larger(0, 10 * k - Absorbed(v, k)))
  BY DEF Struck, Vehicles
<1>5. v.health \in Nat /\ v.armor \in Nat /\ Absorbed(v, k) \in Int
  BY <1>1, VehicleAssumption DEF Vehicles, FullHealth, Absorbed, Smaller
<1>6. Larger(0, v.health - Larger(0, 10 * k - Absorbed(v, k))) <= v.health
  BY <1>1, <1>5 DEF Larger
<1> QED  BY <1>2, <1>3, <1>4, <1>6 DEF SameBody

\* Waves are counted in whole numbers.
LEMMA WavesNat ==
  ASSUME NEW v \in Vehicles
  PROVE  Waves(v) \in Nat
BY DEF Waves, Vehicles

\* A result brought up to date, or closed, is a result.
LEMMA ProgressFits ==
  ASSUME NEW v \in Vehicles, NEW r \in Results
  PROVE  Progress(r, v) \in Results /\ Final(r, v) \in Results
<1>1. /\ v.health \in 0 .. FullHealth /\ v.odometer \in Nat /\ v.impacts \in Nat
      /\ FullHealth \in Nat
  BY VehicleAssumption DEF Vehicles, FullHealth
<1>2. Waves(v) \in Nat
  BY WavesNat
<1>3. Score(v) \in Nat
  BY <1>1, <1>2 DEF Score
<1>4. Progress(r, v) \in Results
  BY <1>1, <1>2 DEF Progress, Results
<1> QED  BY <1>3, <1>4 DEF Final, Results

\* A new result is a result.
LEMMA NewResultFits == NewResult \in Results
BY VehicleAssumption DEF NewResult, Results, FullHealth

\* No mode throws more than five rocks in a tick.
LEMMA RockCountFits ==
  ASSUME NEW v \in Vehicles, NEW mode
  PROVE  RockCount(mode, v) \in 0 .. 5
BY WavesNat DEF RockCount, Smaller
-----------------------------------------------------------------------------
(***************************************************************************)
(* The shape of the state is kept by every step of every thread.           *)
(***************************************************************************)
LEMMA ShapeInit == Init => Shape
<1> SUFFICES ASSUME Init  PROVE Shape
  OBVIOUS
<1>1. live = {} /\ Kept = {}
  BY DEF Init, live, Kept
<1>2. MapsType
  BY <1>1 DEF Init, MapsType
<1>3. busy \in Busy
  BY DEF Init, Free, NoSid, Busy
<1>4. nextSid \in 1 .. MaxSessions + 1 /\ rocks \in 0 .. MaxRocks /\ busy = Free
  BY AssaultAssumption DEF Init
<1>5. \A s \in Kept : s < nextSid
  BY <1>1
<1> QED  BY <1>2, <1>3, <1>4, <1>5 DEF RestType, Shape

\* One round's vehicle and result change; sessions_ is touched or not.
LEMMA RoundChanges ==
  ASSUME MapsType, NEW s \in live, NEW v \in Vehicles, NEW r \in Results,
         states' = [states EXCEPT ![s] = v], results' = [results EXCEPT ![s] = r],
         sessions' = sessions \/ Touch(s), UNCHANGED <<modes, ended>>
  PROVE  MapsType' /\ live' = live /\ Kept' = Kept
<1>1. sessions' \in [live -> Ages]
  <2>1. 0 \in Ages
    BY AssaultAssumption DEF Ages
  <2> QED  BY <2>1 DEF MapsType, Touch
<1>2. live' = live
  BY <1>1 DEF live
<1>3. Kept' = Kept
  BY <1>2 DEF Kept
<1>4. states' \in [Kept -> Vehicles] /\ results' \in [Kept -> Results]
  BY DEF MapsType
<1> QED  BY <1>1, <1>2, <1>3, <1>4 DEF MapsType

\* Erasing rounds that go on takes them out of all maps.
LEMMA EraseKeepsMaps ==
  ASSUME MapsType, NEW gone \in SUBSET live, Erase(gone), ended' = ended
  PROVE  /\ MapsType' /\ live' = live \ gone /\ Kept' = Kept \ gone
         /\ \A s \in Kept' : states'[s] = states[s] /\ results'[s] = results[s]
<1>1. DOMAIN states = Kept /\ DOMAIN results = Kept /\ DOMAIN modes = live
  BY DEF MapsType
<1>2. /\ sessions' \in [live \ gone -> Ages]
      /\ modes' \in [live \ gone -> Modes]
      /\ states' \in [Kept \ gone -> Vehicles]
      /\ results' \in [Kept \ gone -> Results]
  BY <1>1, Restricted DEF MapsType, Erase
<1>3. live' = live \ gone
  BY <1>2 DEF live
<1>4. Kept' = Kept \ gone
  BY <1>3 DEF Kept, MapsType
<1>5. MapsType'
  BY <1>2, <1>3, <1>4 DEF MapsType
<1> QED  BY <1>1, <1>3, <1>4, <1>5 DEF Erase, Restrict

\* One step per action: each keeps the four maps nested and the attack in its bounds.
LEMMA ShapeNext == Shape /\ [Next]_vars => Shape'
<1> SUFFICES ASSUME Shape, [Next]_vars  PROVE Shape'
  OBVIOUS
<1> USE AssaultAssumption
<1>0. /\ MapsType /\ RestType /\ 0 \in Ages
      /\ \A s \in live : s \in Sid /\ s \in Kept /\ s # NoSid
      /\ \A s \in live : states[s] \in Vehicles /\ results[s] \in Results
  BY DEF Shape, Ages, MapsType, Kept, Sid, NoSid
<1>1. ASSUME NEW mode \in Modes, StartSession(mode)  PROVE Shape'
  <2> DEFINE D == live \union {nextSid}
  <2>1. nextSid \in Sid /\ nextSid \notin Kept /\ nextSid \notin live /\ nextSid \notin ended
    BY <1>0, <1>1 DEF StartSession, RestType, Sid, Kept
  <2>2. sessions' \in [D -> Ages] /\ live' = D
    <3>1. With(sessions, nextSid, 0) \in [D -> Ages]
      BY <1>0, WithEntry DEF MapsType
    <3> QED  BY <1>1, <3>1 DEF StartSession, live
  <2>3. modes' \in [D -> Modes]
    <3>1. With(modes, nextSid, mode) \in [D -> Modes]
      BY <1>0, WithEntry DEF MapsType
    <3> QED  BY <1>1, <3>1 DEF StartSession
  <2>4. ended' = ended /\ Kept' = Kept \union {nextSid}
    BY <1>1, <2>2 DEF StartSession, Kept
  <2>5. states' \in [Kept' -> Vehicles]
    <3>1. With(states, nextSid, NewVehicle) \in [Kept \union {nextSid} -> Vehicles]
      BY <1>0, WithEntry, NewVehicleIsNew DEF MapsType
    <3> QED  BY <1>1, <2>4, <3>1 DEF StartSession
  <2>6. results' \in [Kept' -> Results]
    <3>1. With(results, nextSid, NewResult) \in [Kept \union {nextSid} -> Results]
      BY <1>0, WithEntry, NewResultFits DEF MapsType
    <3> QED  BY <1>1, <2>4, <3>1 DEF StartSession
  <2>7. MapsType'
    BY <1>0, <2>1, <2>2, <2>3, <2>4, <2>5, <2>6 DEF MapsType
  <2>8. RestType'
    <3>1. /\ nextSid' = nextSid + 1 /\ nextSid' \in 1 .. MaxSessions + 1
          /\ UNCHANGED <<rocks, busy>> /\ busy = Free
      BY <1>0, <1>1 DEF StartSession, MutexFree, RestType
    <3>2. nextSid \in Nat /\ \A s \in Kept : s \in Int /\ s < nextSid
      BY <1>0 DEF RestType, MapsType, Kept, Sid
    <3>3. \A s \in Kept' : s < nextSid'
      BY <2>4, <3>1, <3>2
    <3> QED  BY <1>0, <3>1, <3>3 DEF RestType
  <2> QED  BY <2>7, <2>8 DEF Shape
<1>2. ASSUME NEW s \in Sid, EndSession(s)  PROVE Shape'
  <2>1. s \in live /\ results' = [results EXCEPT ![s] = Final(results[s], states[s])]
    BY <1>2 DEF EndSession
  <2>2. Final(results[s], states[s]) \in Results
    BY <1>0, <2>1, ProgressFits
  <2>3. sessions' \in [live \ {s} -> Ages] /\ live' = live \ {s}
    <3>1. Restrict(sessions, live \ {s}) \in [live \ {s} -> Ages]
      BY <1>0, Restricted DEF MapsType
    <3> QED  BY <1>2, <3>1 DEF EndSession, live
  <2>4. modes' \in [live \ {s} -> Modes]
    <3>1. DOMAIN modes = live /\ Restrict(modes, live \ {s}) \in [live \ {s} -> Modes]
      BY <1>0, Restricted DEF MapsType
    <3> QED  BY <1>2, <3>1 DEF EndSession
  <2>5. ended' = ended \union {s} /\ Kept' = Kept
    BY <1>2, <2>1, <2>3 DEF EndSession, Kept
  <2>6. states' \in [Kept' -> Vehicles] /\ results' \in [Kept' -> Results]
    BY <1>0, <1>2, <2>1, <2>2, <2>5 DEF EndSession, MapsType
  <2>7. MapsType'
    BY <1>0, <2>1, <2>3, <2>4, <2>5, <2>6 DEF MapsType
  <2>8. RestType'
    BY <1>0, <1>2, <2>5 DEF EndSession, MutexFree, RestType
  <2> QED  BY <2>7, <2>8 DEF Shape
<1>3. ASSUME NEW s \in Sid, ApplyAction(s)  PROVE Shape'
  <2>1. s \in live
    BY <1>3 DEF ApplyAction
  <2>2. PICK v \in Driven(states[s]) : states' = [states EXCEPT ![s] = v]
    BY <1>3 DEF ApplyAction
  <2>3. v \in Vehicles
    BY <1>0, <2>1, <2>2, DrivenFits
  <2>4. Touch(s) /\ UNCHANGED <<modes, ended>> /\ results' = [results EXCEPT ![s] = results[s]]
    BY <1>0, <1>3, <2>1 DEF ApplyAction, MapsType
  <2>5. MapsType' /\ live' = live /\ Kept' = Kept
    BY <1>0, <2>1, <2>2, <2>3, <2>4, RoundChanges
  <2> QED  BY <1>0, <1>3, <2>5 DEF ApplyAction, RestType, Shape
<1>4. ASSUME NEW s \in Sid, ResetSession(s)  PROVE Shape'
  <2>1. /\ s \in live /\ Touch(s) /\ UNCHANGED <<modes, ended>>
        /\ states' = [states EXCEPT ![s] = NewVehicle]
        /\ results' = [results EXCEPT ![s] = NewResult]
    BY <1>4 DEF ResetSession
  <2>2. MapsType' /\ live' = live /\ Kept' = Kept
    BY <1>0, <2>1, NewVehicleIsNew, NewResultFits, RoundChanges
  <2> QED  BY <1>0, <1>4, <2>2 DEF ResetSession, RestType, Shape
<1>5. ASSUME NEW s \in Sid, NEW dt \in TimeSteps, BeginTick(s, dt)  PROVE Shape'
  <2> DEFINE n == RockCount(modes[s], states[s])
  <2>1. /\ s \in live /\ Touch(s) /\ UNCHANGED <<modes, ended, nextSid, rocks>>
        /\ states' = [states EXCEPT ![s] = Moved(states[s], dt)]
        /\ rocks + n <= MaxRocks
        /\ busy' = [sid |-> s, tick |-> TRUE, left |-> n, dt |-> dt]
    BY <1>5 DEF BeginTick
  <2>2. Moved(states[s], dt) \in Vehicles
    BY <1>0, <2>1, MovedFits
  <2>3. results' = [results EXCEPT ![s] = results[s]]
    BY <1>0, <1>5 DEF BeginTick, MapsType
  <2>4. MapsType' /\ live' = live /\ Kept' = Kept
    BY <1>0, <2>1, <2>2, <2>3, RoundChanges
  <2>5. n \in 0 .. 5
    BY <1>0, <2>1, RockCountFits
  <2> HIDE DEF n
  <2>6. busy' \in Busy
    BY <1>0, <2>1, <2>5 DEF Busy
  <2> QED  BY <1>0, <2>1, <2>4, <2>6 DEF RestType, Shape
<1>6. ASSUME NEW s \in Sid, BeginTrigger(s)  PROVE Shape'
  <2>1. /\ s \in live /\ Touch(s) /\ UNCHANGED <<modes, ended, nextSid, rocks, results, states>>
        /\ rocks < MaxRocks
        /\ busy' = [sid |-> s, tick |-> FALSE, left |-> 1, dt |-> 0]
    BY <1>6 DEF BeginTrigger
  <2>2. states' = [states EXCEPT ![s] = states[s]] /\ results' = [results EXCEPT ![s] = results[s]]
    BY <1>0, <2>1 DEF MapsType
  <2>3. MapsType' /\ live' = live /\ Kept' = Kept
    BY <1>0, <2>1, <2>2, RoundChanges
  <2>4. busy' \in Busy
    BY <1>0, <2>1 DEF Busy
  <2>5. rocks + 1 <= MaxRocks
    BY <1>0, <2>1 DEF RestType
  <2> QED  BY <1>0, <2>1, <2>3, <2>4, <2>5 DEF RestType, Shape
<1>7. ASSUME NEW k \in Blows, Throw(k)  PROVE Shape'
  <2>1. /\ busy.left > 0 /\ rocks' = rocks + 1 /\ UNCHANGED <<sessions, modes, nextSid, ended>>
        /\ results' = [results EXCEPT ![busy.sid].damage = results[busy.sid].damage + k]
        /\ busy' = [busy EXCEPT !.left = busy.left - 1]
    BY <1>7 DEF Throw
  <2>2. busy.sid \in live /\ rocks + busy.left <= MaxRocks /\ busy.left \in 1 .. 5
    BY <1>0, <2>1 DEF RestType, Free, Busy
  <2>3. PICK v \in Settled(Struck(states[busy.sid], k)) : states' = [states EXCEPT ![busy.sid] = v]
    BY <1>7 DEF Throw
  <2>4. v \in Vehicles
    BY <1>0, <2>2, <2>3, ThrownFits
  <2> DEFINE r == [results[busy.sid] EXCEPT !.damage = results[busy.sid].damage + k]
  <2>5. r \in Results /\ results' = [results EXCEPT ![busy.sid] = r]
    BY <1>0, <2>1, <2>2 DEF Results
  <2>6. MapsType' /\ live' = live /\ Kept' = Kept
    BY <1>0, <2>1, <2>2, <2>3, <2>4, <2>5, RoundChanges
  <2>7. busy' \in Busy /\ busy'.sid = busy.sid /\ busy'.left = busy.left - 1
    BY <1>0, <2>1, <2>2 DEF RestType, Busy
  <2>8. rocks' \in 0 .. MaxRocks /\ rocks' + busy'.left <= MaxRocks
    BY <1>0, <2>1, <2>2, <2>7 DEF RestType
  <2> QED  BY <1>0, <2>1, <2>2, <2>6, <2>7, <2>8 DEF RestType, Shape
<1>8. CASE EndAttack
  <2>1. busy.sid \in live /\ UNCHANGED <<sessions, states, modes, nextSid, rocks, ended>> /\ busy' = Free
    BY <1>0, <1>8 DEF EndAttack, MutexFree, RestType
  <2> DEFINE r == IF busy.tick THEN Progress(results[busy.sid], states[busy.sid])
                               ELSE results[busy.sid]
  <2>2. r \in Results
    BY <1>0, <2>1, ProgressFits
  <2>3. results' = [results EXCEPT ![busy.sid] = r]
    BY <1>0, <1>8, <2>1 DEF EndAttack, MapsType
  <2>4. states' = [states EXCEPT ![busy.sid] = states[busy.sid]]
    BY <1>0, <2>1 DEF MapsType
  <2>5. MapsType' /\ live' = live /\ Kept' = Kept
    BY <1>0, <2>1, <2>2, <2>3, <2>4, RoundChanges
  <2>6. Free \in Busy
    BY DEF Free, Busy, NoSid
  <2> QED  BY <1>0, <2>1, <2>5, <2>6 DEF RestType, Shape
<1>9. CASE TimePasses
  <2>1. sessions' \in [live -> Ages]
    <3>1. \A a \in Ages : Smaller(a + 1, IdleTimeout + 1) \in Ages
      BY DEF Ages, Smaller
    <3> QED  BY <1>0, <1>9, <3>1 DEF TimePasses, MapsType
  <2>2. live' = live /\ Kept' = Kept
    BY <1>9, <2>1 DEF TimePasses, live, Kept
  <2> QED  BY <1>0, <1>9, <2>1, <2>2 DEF TimePasses, MapsType, RestType, Shape
<1>10. CASE Cleanup
  <2> DEFINE gone == {s \in live : sessions[s] > IdleTimeout}
  <2>1. Erase(gone) /\ MutexFree /\ UNCHANGED <<nextSid, rocks, busy, ended>>
    BY <1>10 DEF Cleanup
  <2>2. MapsType' /\ live' = live \ gone /\ Kept' = Kept \ gone
    BY <1>0, <2>1, EraseKeepsMaps
  <2> HIDE DEF gone
  <2>3. busy' = Free /\ \A s \in Kept' : s < nextSid'
    BY <1>0, <2>1, <2>2 DEF RestType, MutexFree
  <2> QED  BY <1>0, <2>1, <2>2, <2>3 DEF RestType, Shape
<1>11. CASE UNCHANGED vars
  BY <1>0, <1>11 DEF vars, mapVars, MapsType, RestType, live, Kept, Shape
<1> QED
  BY <1>1, <1>2, <1>3, <1>4, <1>5, <1>6, <1>7, <1>8, <1>9, <1>10, <1>11 DEF Next

\* The inductive invariant: maps, attack and history always fit together.
THEOREM ShapeKept == Spec => []Shape
BY ShapeInit, ShapeNext, PTL DEF Spec

(***************************************************************************)
(* Every variable keeps its type: among others, health and armour never    *)
(* leave their scales.                                                     *)
(***************************************************************************)
THEOREM TypeCorrect == Spec => []TypeOK
BY ShapeKept, ShapeGivesTypeAndMaps, PTL

(***************************************************************************)
(* A round that goes on is in all four maps, an ended one in two, an       *)
(* expired one in none, in whatever order rounds end and expire.           *)
(***************************************************************************)
THEOREM MapsAlwaysNest == Spec => []MapsNest
BY ShapeKept, ShapeGivesTypeAndMaps, PTL
-----------------------------------------------------------------------------
(***************************************************************************)
(* A round's vehicle and its result tell the same story.                   *)
(***************************************************************************)
NotAhead(r, v) ==
  /\ r.attacks <= v.impacts
  /\ r.waves <= Waves(v)
  /\ r.distance <= v.odometer
  /\ r.health >= v.health

Fits(r, v) == Accounts(v, r.damage) /\ NotAhead(r, v)

Story == \A s \in Kept : Fits(results[s], states[s])

\* The story implies the invariant of the run.
LEMMA StoryGivesBoth == MapsType /\ Story => OneStory
BY DEF MapsType, Story, Fits, NotAhead, OneStory, DamageAccounted, ResultNeverAhead

\* A new result tells the story of a new vehicle.
LEMMA NewFits == Fits(NewResult, NewVehicle)
<1>1. NewResult.damage = 0 /\ Waves(NewVehicle) \in Nat
  BY NewVehicleIsNew, WavesNat DEF NewResult
<1>2. NotAhead(NewResult, NewVehicle)
  BY <1>1, VehicleAssumption DEF NotAhead, NewResult, NewVehicle, FullHealth
<1> QED  BY <1>1, <1>2, NewVehicleIsNew DEF Fits

\* The result brought up to date is not ahead, and keeps its damage.
LEMMA UpToDateFits ==
  ASSUME NEW v \in Vehicles, NEW r \in Results, Fits(r, v)
  PROVE  Fits(Progress(r, v), v) /\ Fits(Final(r, v), v)
<1>1. Waves(v) \in Nat /\ v.health \in Int /\ v.odometer \in Nat /\ v.impacts \in Nat
  BY WavesNat, VehicleAssumption DEF Vehicles, FullHealth
<1>2. /\ Progress(r, v).damage = r.damage /\ Progress(r, v).attacks = v.impacts
      /\ Progress(r, v).waves = Waves(v) /\ Progress(r, v).distance = v.odometer
      /\ Progress(r, v).health = v.health
  BY DEF Progress, Results
<1>3. /\ Final(r, v).damage = r.damage /\ Final(r, v).attacks = v.impacts
      /\ Final(r, v).waves = Waves(v) /\ Final(r, v).distance = v.odometer
      /\ Final(r, v).health = v.health
  <2>1. PICK q \in Results : q = Progress(r, v)
    BY ProgressFits
  <2>2. /\ Final(r, v).damage = q.damage /\ Final(r, v).attacks = q.attacks /\ Final(r, v).waves = q.waves
        /\ Final(r, v).distance = q.distance /\ Final(r, v).health = q.health
    BY <2>1 DEF Final, Results
  <2> QED  BY <1>2, <2>1, <2>2
<1> QED  BY <1>1, <1>2, <1>3 DEF Fits, NotAhead

\* A vehicle that drives on leaves its result behind.
LEMMA DrivesOnFits ==
  ASSUME NEW v \in Vehicles, NEW w \in Vehicles, NEW r \in Results, Fits(r, v),
         SameBody(v, w), w.odometer >= v.odometer
  PROVE  Fits(r, w)
<1>1. Waves(w) = Waves(v) /\ w.health = v.health /\ w.impacts = v.impacts
  BY DEF SameBody, Waves
<1>2. Accounts(w, r.damage)
  BY SameBodyAccounts DEF Fits
<1>3. r.distance \in Int /\ v.odometer \in Int /\ w.odometer \in Int
  BY DEF Results, Vehicles
<1> QED  BY <1>1, <1>2, <1>3 DEF Fits, NotAhead

\* So does one that is struck, and the damage is added to both.
LEMMA StruckFits ==
  ASSUME NEW v \in Vehicles, NEW k \in Blows, NEW w \in Settled(Struck(v, k)),
         NEW r \in Results, Fits(r, v)
  PROVE  Fits([r EXCEPT !.damage = r.damage + k], w)
<1> DEFINE q == [r EXCEPT !.damage = r.damage + k]
<1>1. /\ w \in Vehicles /\ SameBody(Struck(v, k), w)
      /\ w.impacts = v.impacts + 1 /\ w.odometer = v.odometer /\ w.health <= v.health
  BY ThrownFits
<1>2. k \in Nat /\ r.damage \in Nat
  BY AssaultAssumption DEF Results
<1>3. Accounts(Struck(v, k), r.damage + k)
  BY <1>2, StruckAccounts DEF Fits
<1>4. Accounts(w, r.damage + k)
  BY <1>1, <1>3, SameBodyAccounts
<1>5. /\ q.damage = r.damage + k /\ q.attacks = r.attacks /\ q.waves = r.waves
      /\ q.distance = r.distance /\ q.health = r.health
  BY DEF Results
<1>6. Waves(v) <= Waves(w) /\ Waves(v) \in Nat /\ Waves(w) \in Nat
  <2>1. v.impacts \in Nat
    BY DEF Vehicles
  <2>2. v.impacts \div 5 <= (v.impacts + 1) \div 5
    BY <2>1
  <2> QED  BY <1>1, <2>2, WavesNat DEF Waves
<1>7. NotAhead(q, w)
  <2>1. /\ r.attacks \in Nat /\ r.waves \in Nat /\ r.health \in Int
        /\ v.impacts \in Nat /\ v.health \in Int /\ w.health \in Int
    BY <1>1, VehicleAssumption DEF Results, Vehicles, FullHealth
  <2> QED  BY <1>1, <1>5, <1>6, <2>1 DEF Fits, NotAhead
<1> QED  BY <1>4, <1>5, <1>7 DEF Fits

\* One round changes and still fits.
LEMMA OneRound ==
  ASSUME MapsType, Story, NEW s \in live, NEW v, NEW r, Fits(r, v),
         states' = [states EXCEPT ![s] = v], results' = [results EXCEPT ![s] = r],
         Kept' = Kept
  PROVE  Story'
<1>1. s \in Kept /\ DOMAIN states = Kept /\ DOMAIN results = Kept
  BY DEF MapsType, Kept
<1> QED  BY <1>1 DEF Story

\* One step per action: vehicle and result go on telling the same story.
LEMMA StoryNext == Shape /\ Story /\ [Next]_vars => Story'
<1> SUFFICES ASSUME Shape, Story, [Next]_vars  PROVE Story'
  OBVIOUS
<1> USE AssaultAssumption
<1>0. /\ MapsType /\ DOMAIN states = Kept /\ DOMAIN results = Kept
      /\ \A s \in live : /\ states[s] \in Vehicles /\ results[s] \in Results
                        /\ Fits(results[s], states[s])
  BY DEF Shape, MapsType, Kept, Story
<1>1. ASSUME NEW mode, StartSession(mode)  PROVE Story'
  <2>1. Kept' = Kept \union {nextSid} /\ nextSid \notin Kept
    BY <1>1 DEF StartSession, With, live, Kept, Shape, RestType
  <2>2. /\ states'[nextSid] = NewVehicle /\ results'[nextSid] = NewResult
        /\ \A s \in Kept : states'[s] = states[s] /\ results'[s] = results[s]
    BY <1>0, <1>1, <2>1 DEF StartSession, With
  <2> QED  BY <2>1, <2>2, NewFits DEF Story
<1>2. ASSUME NEW s \in Sid, EndSession(s)  PROVE Story'
  <2>1. /\ s \in live /\ results' = [results EXCEPT ![s] = Final(results[s], states[s])]
        /\ states' = [states EXCEPT ![s] = states[s]]
    BY <1>0, <1>2 DEF EndSession, MapsType
  <2>2. Kept' = Kept
    BY <1>2 DEF EndSession, Restrict, live, Kept
  <2>3. Fits(Final(results[s], states[s]), states[s])
    BY <1>0, <2>1, UpToDateFits
  <2> QED  BY <1>0, <2>1, <2>2, <2>3, OneRound
<1>3. ASSUME NEW s \in Sid, ApplyAction(s)  PROVE Story'
  <2>1. /\ s \in live /\ results' = [results EXCEPT ![s] = results[s]] /\ Kept' = Kept
    BY <1>0, <1>3 DEF ApplyAction, MapsType, Touch, live, Kept
  <2>2. PICK v \in Driven(states[s]) : states' = [states EXCEPT ![s] = v]
    BY <1>3 DEF ApplyAction
  <2>3. v \in Vehicles /\ SameBody(states[s], v) /\ v.odometer >= states[s].odometer
    BY <1>0, <2>1, <2>2, DrivenFits DEF Vehicles
  <2>4. Fits(results[s], v)
    BY <1>0, <2>1, <2>3, DrivesOnFits
  <2> QED  BY <1>0, <2>1, <2>2, <2>4, OneRound
<1>4. ASSUME NEW s \in Sid, ResetSession(s)  PROVE Story'
  <2>1. /\ s \in live /\ results' = [results EXCEPT ![s] = NewResult]
        /\ states' = [states EXCEPT ![s] = NewVehicle] /\ Kept' = Kept
    BY <1>4 DEF ResetSession, Touch, live, Kept
  <2> QED  BY <1>0, <2>1, NewFits, OneRound
<1>5. ASSUME NEW s \in Sid, NEW dt \in TimeSteps, BeginTick(s, dt)  PROVE Story'
  <2>1. /\ s \in live /\ results' = [results EXCEPT ![s] = results[s]]
        /\ states' = [states EXCEPT ![s] = Moved(states[s], dt)] /\ Kept' = Kept
    BY <1>0, <1>5 DEF BeginTick, MapsType, Touch, live, Kept
  <2>2. Moved(states[s], dt) \in Vehicles /\ SameBody(states[s], Moved(states[s], dt))
    BY <1>0, <2>1, MovedFits
  <2>3. Moved(states[s], dt).odometer >= states[s].odometer
    BY <1>0, <2>1, MovedOn
  <2>4. Fits(results[s], Moved(states[s], dt))
    BY <1>0, <2>1, <2>2, <2>3, DrivesOnFits
  <2> QED  BY <1>0, <2>1, <2>4, OneRound
<1>6. ASSUME NEW k \in Blows, Throw(k)  PROVE Story'
  <2>1. busy.sid \in live
    BY <1>6 DEF Throw, Shape, RestType, Free
  <2>2. PICK v \in Settled(Struck(states[busy.sid], k)) : states' = [states EXCEPT ![busy.sid] = v]
    BY <1>6 DEF Throw
  <2> DEFINE r == [results[busy.sid] EXCEPT !.damage = results[busy.sid].damage + k]
  <2>3. results' = [results EXCEPT ![busy.sid] = r] /\ Kept' = Kept
    BY <1>6 DEF Throw, live, Kept
  <2>4. Fits(r, v)
    BY <1>0, <2>1, <2>2, StruckFits
  <2> QED  BY <1>0, <2>1, <2>2, <2>3, <2>4, OneRound
<1>7. CASE EndAttack
  <2>1. busy.sid \in live
    BY <1>7 DEF EndAttack, MutexFree, Shape, RestType
  <2> DEFINE r == IF busy.tick THEN Progress(results[busy.sid], states[busy.sid])
                               ELSE results[busy.sid]
  <2>2. /\ results' = [results EXCEPT ![busy.sid] = r] /\ Kept' = Kept
        /\ states' = [states EXCEPT ![busy.sid] = states[busy.sid]]
    BY <1>0, <1>7, <2>1 DEF EndAttack, MapsType, live, Kept
  <2>3. Fits(r, states[busy.sid])
    BY <1>0, <2>1, UpToDateFits
  <2> HIDE DEF r
  <2> QED  BY <1>0, <2>1, <2>2, <2>3, OneRound
<1>8. CASE TimePasses
  BY <1>8 DEF TimePasses, Story, Kept, live
<1>9. CASE Cleanup
  <2> DEFINE gone == {s \in live : sessions[s] > IdleTimeout}
  <2>1. Erase(gone) /\ ended' = ended /\ gone \in SUBSET live
    BY <1>9 DEF Cleanup
  <2> HIDE DEF gone
  <2>2. Kept' = Kept \ gone /\ \A s \in Kept' : states'[s] = states[s] /\ results'[s] = results[s]
    BY <1>0, <2>1, EraseKeepsMaps
  <2> QED  BY <2>2 DEF Story
<1>10. CASE UNCHANGED vars
  BY <1>10 DEF vars, mapVars, Story, Kept, live
<1>11. ASSUME NEW s \in Sid, BeginTrigger(s)  PROVE Story'
  BY <1>11 DEF BeginTrigger, Touch, Story, Kept, live
<1> QED
  BY <1>1, <1>2, <1>3, <1>4, <1>5, <1>6, <1>7, <1>8, <1>9, <1>10, <1>11 DEF Next

(***************************************************************************)
(* Damage is kept twice, in the vehicle's wear and in the result, by       *)
(* different operations: the two always agree; and the result never tells  *)
(* of more rocks, waves or way than the vehicle has seen.                  *)
(***************************************************************************)
THEOREM SameStory == Spec => []OneStory
<1>1. Init => Story
  BY DEF Init, Story, Kept, live
<1>2. Shape /\ Story => OneStory
  BY StoryGivesBoth DEF Shape
<1> QED  BY <1>1, <1>2, StoryNext, ShapeKept, PTL DEF Spec
-----------------------------------------------------------------------------
(***************************************************************************)
(* No step touches a round that has ended.                                 *)
(***************************************************************************)
Untouched ==
  \A s \in ended :
    s \in ended' /\ s \in DOMAIN results' /\ results'[s] = results[s] /\ states'[s] = states[s]

\* Every operation looks for the session, and an ended round has none.
LEMMA EndedUntouched == Shape /\ [Next]_vars => Untouched
<1> SUFFICES ASSUME Shape, [Next]_vars, NEW s \in ended
             PROVE  /\ s \in ended' /\ s \in DOMAIN results'
                    /\ results'[s] = results[s] /\ states'[s] = states[s]
  BY DEF Untouched
<1>0. /\ MapsType /\ DOMAIN states = Kept /\ DOMAIN results = Kept
      /\ s \in Kept /\ s \notin live /\ s # nextSid
  BY DEF Shape, MapsType, RestType, Kept, Sid
<1> DEFINE Same == /\ s \in ended' /\ s \in DOMAIN results'
                   /\ results'[s] = results[s] /\ states'[s] = states[s]
<1>1. ASSUME NEW mode, StartSession(mode)  PROVE Same
  BY <1>0, <1>1 DEF StartSession, With
<1>2. ASSUME NEW t, EndSession(t)  PROVE Same
  BY <1>0, <1>2 DEF EndSession
<1>3. ASSUME NEW t, ApplyAction(t)  PROVE Same
  BY <1>0, <1>3 DEF ApplyAction
<1>4. ASSUME NEW t, ResetSession(t)  PROVE Same
  BY <1>0, <1>4 DEF ResetSession
<1>5. ASSUME NEW t, NEW dt, BeginTick(t, dt) \/ BeginTrigger(t)  PROVE Same
  BY <1>0, <1>5 DEF BeginTick, BeginTrigger
<1>6. ASSUME NEW k, Throw(k)  PROVE Same
  <2>1. busy.sid # s
    BY <1>0, <1>6 DEF Throw, Shape, RestType, Free
  <2> QED  BY <1>0, <1>6, <2>1 DEF Throw
<1>7. CASE EndAttack
  <2>1. busy.sid # s
    BY <1>0, <1>7 DEF EndAttack, MutexFree, Shape, RestType
  <2> QED  BY <1>0, <1>7, <2>1 DEF EndAttack
<1>8. CASE TimePasses \/ UNCHANGED vars
  BY <1>0, <1>8 DEF TimePasses, vars, mapVars
<1>9. CASE Cleanup
  BY <1>0, <1>9 DEF Cleanup, Erase, Restrict
<1> QED
  BY <1>1, <1>2, <1>3, <1>4, <1>5, <1>6, <1>7, <1>8, <1>9 DEF Next

(***************************************************************************)
(* The result of an ended round stays what it was.                         *)
(***************************************************************************)
THEOREM FinalResultsStay == Spec => FinalResultStays
<1>1. Shape /\ [Next]_vars => [\A s \in ended : s \in DOMAIN results' /\ results'[s] = results[s]]_vars
  BY EndedUntouched DEF Untouched
<1> QED  BY <1>1, ShapeKept, PTL DEF Spec, FinalResultStays

(***************************************************************************)
(* The end of a round closes its result.                                   *)
(***************************************************************************)
LEMMA FinalIsFinal ==
  ASSUME NEW v \in Vehicles, NEW r \in Results
  PROVE  LET f == Final(r, v) IN f.over /\ f = Final(f, v)
<1>1. Progress(r, v) \in Results /\ Final(r, v) \in Results
  BY ProgressFits
<1>2. Final(r, v).over
  BY <1>1 DEF Final, Results
<1>3. Final(r, v) = Final(Final(r, v), v)
  BY <1>1 DEF Final, Progress, Results
<1> QED  BY <1>2, <1>3

\* The result of an ended round is that of its vehicle: closed when the round was, untouched since.
THEOREM FinalResultsFit == Spec => []FinalResultFits
<1>1. Init => FinalResultFits
  BY DEF Init, FinalResultFits
<1>2. Shape /\ FinalResultFits /\ [Next]_vars => FinalResultFits'
  <2> SUFFICES ASSUME Shape, FinalResultFits, [Next]_vars, NEW s \in ended'
               PROVE  results'[s].over /\ results'[s] = Final(results'[s], states'[s])
    BY DEF FinalResultFits
  <2>1. CASE s \in ended
    BY <2>1, EndedUntouched DEF Untouched, FinalResultFits
  <2>2. CASE s \notin ended
    <3>1. s \in Sid /\ EndSession(s)
      BY <2>2 DEF Next, StartSession, EndSession, ApplyAction, ResetSession, BeginTick,
                  BeginTrigger, Throw, EndAttack, TimePasses, Cleanup, vars
    <3>2. s \in live /\ states[s] \in Vehicles /\ results[s] \in Results /\ s \in DOMAIN results
      BY <3>1 DEF EndSession, Shape, MapsType, Kept
    <3>3. results'[s] = Final(results[s], states[s]) /\ states' = states
      BY <3>1, <3>2 DEF EndSession
    <3> QED  BY <3>2, <3>3, FinalIsFinal
  <2> QED  BY <2>1, <2>2
<1> QED  BY <1>1, <1>2, ShapeKept, PTL DEF Spec
=============================================================================
