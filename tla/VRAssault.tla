------------------------------ MODULE VRAssault ------------------------------
(***************************************************************************)
(* VRAssaultEngine: rounds of a game in one of four modes, each with a     *)
(* vehicle and a result.  Every operation is one critical section of the   *)
(* engine's mutex; tick and trigger_attack keep it while they wait for the *)
(* simulation of each rock.  Any thread may call any operation; the        *)
(* application itself lists the sessions and cleans up.                    *)
(*                                                                         *)
(* end_session keeps state and result of the round, cleanup_expired only   *)
(* knows the rounds that are still in sessions_.                           *)
(***************************************************************************)
EXTENDS Vehicle, Functions

CONSTANTS
  MaxSessions,   \* bound of the model: rounds ever started
  MaxRocks,      \* bound of the model: rocks ever thrown
  IdleTimeout,   \* cleanup_expired: idle_timeout_ms
  Modes,         \* VRGameMode values in use
  Blows, Speeds, TimeSteps

ASSUME AssaultAssumption ==
  /\ MaxSessions \in Nat /\ MaxRocks \in Nat /\ IdleTimeout \in Nat
  /\ Modes \subseteq {"FREE_DRIVE", "ASSAULT_CHALLENGE", "SURVIVAL", "TIMED_RACE"}
  /\ Blows \subseteq Nat /\ Speeds \subseteq Int /\ TimeSteps \subseteq Int

Sid == 1 .. MaxSessions
NoSid == 0

VARIABLES
  sessions,   \* sessions_: for each round, the time since last_active_ms
  states,     \* states_
  results,    \* round_results_
  modes,      \* game_modes_
  nextSid,    \* session_id_counter_
  rocks,      \* attack_id_counter_
  busy,       \* the attack that holds the mutex: round, tick or not, rocks left, dt
  ended       \* history: the rounds end_session has closed

mapVars == <<sessions, states, results, modes>>
vars == <<mapVars, nextSid, rocks, busy, ended>>

Free == [sid |-> NoSid, tick |-> FALSE, left |-> 0, dt |-> 0]
MutexFree == busy = Free
live == DOMAIN sessions

\* VRRoundResult.  Damage is counted in blows, score in tenths of a point
\* where Full is 100.
NewResult ==
  [over |-> FALSE, health |-> FullHealth, distance |-> 0, attacks |-> 0, damage |-> 0,
   waves |-> 0, score |-> 0]

Waves(v) == v.impacts \div 5
Score(v) == 3 * v.odometer + 10 * v.health + 500 * Waves(v)

Init ==
  /\ sessions = <<>> /\ states = <<>> /\ results = <<>> /\ modes = <<>>
  /\ nextSid = 1 /\ rocks = 0
  /\ busy = Free
  /\ ended = {}

Touch(s) == sessions' = [sessions EXCEPT ![s] = 0]
-----------------------------------------------------------------------------
\* start_session
StartSession(mode) ==
  /\ MutexFree /\ nextSid <= MaxSessions
  /\ nextSid' = nextSid + 1
  /\ sessions' = With(sessions, nextSid, 0)
  /\ states' = With(states, nextSid, NewVehicle)
  /\ results' = With(results, nextSid, NewResult)
  /\ modes' = With(modes, nextSid, mode)
  /\ UNCHANGED <<rocks, busy, ended>>

\* What end_session writes down of the vehicle, and what tick does: score and
\* end only at the end, the damage with each rock.
Progress(r, v) ==
  [r EXCEPT !.health = v.health, !.distance = v.odometer, !.attacks = v.impacts,
            !.waves = Waves(v)]
Final(r, v) == [Progress(r, v) EXCEPT !.over = TRUE, !.score = Score(v)]

EndSession(s) ==
  /\ MutexFree /\ s \in live
  /\ results' = [results EXCEPT ![s] = Final(@, states[s])]
  /\ sessions' = Restrict(sessions, live \ {s})
  /\ modes' = Restrict(modes, DOMAIN modes \ {s})
  /\ ended' = ended \union {s}
  /\ UNCHANGED <<states, nextSid, rocks, busy>>

\* apply_action
Driven(v) == {v, AtStart(v)} \union {AtSpeed(v, sp) : sp \in Speeds \union {0}}

ApplyAction(s) ==
  /\ MutexFree /\ s \in live
  /\ Touch(s)
  /\ \E v \in Driven(states[s]) : states' = [states EXCEPT ![s] = v]
  /\ UNCHANGED <<results, modes, nextSid, rocks, busy, ended>>

\* Mutants: reset_session looks for the state only; it leaves the result.
ResetUnchecked(s) ==
  /\ MutexFree /\ s \in DOMAIN states
  /\ sessions' = [t \in live |-> IF t = s THEN 0 ELSE sessions[t]]
  /\ states' = [states EXCEPT ![s] = NewVehicle]
  /\ results' = [results EXCEPT ![s] = NewResult]
  /\ UNCHANGED <<modes, nextSid, rocks, busy, ended>>

ResetVehicleOnly(s) ==
  /\ MutexFree /\ s \in live
  /\ Touch(s)
  /\ states' = [states EXCEPT ![s] = NewVehicle]
  /\ UNCHANGED <<results, modes, nextSid, rocks, busy, ended>>

\* reset_session: the vehicle, its vibration and the result.
ResetSession(s) ==
  /\ MutexFree /\ s \in live
  /\ Touch(s)
  /\ states' = [states EXCEPT ![s] = NewVehicle]
  /\ results' = [results EXCEPT ![s] = NewResult]
  /\ UNCHANGED <<modes, nextSid, rocks, busy, ended>>
-----------------------------------------------------------------------------
\* Rocks of a tick.  The wave of SURVIVAL is that before the tick.
RockCount(mode, v) ==
  CASE mode = "ASSAULT_CHALLENGE" -> 2
    [] mode = "SURVIVAL"          -> Smaller(5, 1 + Waves(v))
    [] OTHER                      -> 1

BeginTick(s, dt) ==
  /\ MutexFree /\ s \in live
  /\ rocks + RockCount(modes[s], states[s]) <= MaxRocks
  /\ Touch(s)
  /\ states' = [states EXCEPT ![s] = Moved(@, dt)]
  /\ busy' = [sid |-> s, tick |-> TRUE, left |-> RockCount(modes[s], states[s]), dt |-> dt]
  /\ UNCHANGED <<results, modes, nextSid, rocks, ended>>

\* Mutant: trigger_attack looks for the state only.
TriggerUnchecked(s) ==
  /\ MutexFree /\ s \in DOMAIN states
  /\ rocks < MaxRocks
  /\ sessions' = [t \in live |-> IF t = s THEN 0 ELSE sessions[t]]
  /\ busy' = [sid |-> s, tick |-> FALSE, left |-> 1, dt |-> 0]
  /\ UNCHANGED <<states, results, modes, nextSid, rocks, ended>>

\* trigger_attack
BeginTrigger(s) ==
  /\ MutexFree /\ s \in live
  /\ rocks < MaxRocks
  /\ Touch(s)
  /\ busy' = [sid |-> s, tick |-> FALSE, left |-> 1, dt |-> 0]
  /\ UNCHANGED <<states, results, modes, nextSid, rocks, ended>>

\* decay_vibration after each rock of a tick; what ends a vibration needs a
\* positive step.
Settled(v) == {v} \union (IF busy.dt > 0 THEN {[v EXCEPT !.shaken = FALSE]} ELSE {})

\* generate_attack, with run_simulation, and apply_attack_to_state.
Throw(k) ==
  /\ busy.left > 0
  /\ rocks' = rocks + 1
  /\ \E v \in Settled(Struck(states[busy.sid], k)) : states' = [states EXCEPT ![busy.sid] = v]
  /\ results' = [results EXCEPT ![busy.sid].damage = @ + k]
  /\ busy' = [busy EXCEPT !.left = @ - 1]
  /\ UNCHANGED <<sessions, modes, nextSid, ended>>

\* The end of tick brings the result up to date; trigger_attack does not.
EndAttack ==
  /\ ~MutexFree /\ busy.left = 0
  /\ results' = IF busy.tick
                  THEN [results EXCEPT ![busy.sid] = Progress(@, states[busy.sid])]
                  ELSE results
  /\ busy' = Free
  /\ UNCHANGED <<sessions, states, modes, nextSid, rocks, ended>>
-----------------------------------------------------------------------------
TimePasses ==
  /\ sessions' = [s \in live |-> Smaller(sessions[s] + 1, IdleTimeout + 1)]
  /\ UNCHANGED <<states, results, modes, nextSid, rocks, busy, ended>>

\* Mutant: the mode of a session that expired is forgotten.
EraseThree(gone) ==
  /\ sessions' = Restrict(sessions, live \ gone)
  /\ states' = Restrict(states, DOMAIN states \ gone)
  /\ results' = Restrict(results, DOMAIN results \ gone)
  /\ UNCHANGED modes

Erase(gone) ==
  /\ sessions' = Restrict(sessions, live \ gone)
  /\ states' = Restrict(states, DOMAIN states \ gone)
  /\ results' = Restrict(results, DOMAIN results \ gone)
  /\ modes' = Restrict(modes, DOMAIN modes \ gone)

\* cleanup_expired, in the session_cleanup thread.
Cleanup ==
  /\ MutexFree
  /\ Erase({s \in live : sessions[s] > IdleTimeout})
  /\ UNCHANGED <<nextSid, rocks, busy, ended>>

Next ==
  \/ \E mode \in Modes : StartSession(mode)
  \/ \E s \in Sid :
       \/ EndSession(s) \/ ApplyAction(s) \/ ResetSession(s) \/ BeginTrigger(s)
       \/ \E dt \in TimeSteps : BeginTick(s, dt)
  \/ \E k \in Blows : Throw(k)
  \/ EndAttack
  \/ TimePasses \/ Cleanup

Spec == Init /\ [][Next]_vars
-----------------------------------------------------------------------------
Results ==
  [over : BOOLEAN, health : 0 .. FullHealth, distance : Nat, attacks : Nat, damage : Nat,
   waves : Nat, score : Nat]

\* Type invariant; health and armour stay between none and full.
TypeOK ==
  /\ live \subseteq Sid /\ sessions \in [live -> 0 .. IdleTimeout + 1]
  /\ DOMAIN states \subseteq Sid /\ states \in [DOMAIN states -> Vehicles]
  /\ DOMAIN results \subseteq Sid /\ results \in [DOMAIN results -> Results]
  /\ DOMAIN modes \subseteq Sid /\ modes \in [DOMAIN modes -> Modes]
  /\ nextSid \in 1 .. MaxSessions + 1
  /\ rocks \in 0 .. MaxRocks
  /\ busy \in [sid : Sid \union {NoSid}, tick : BOOLEAN, left : 0 .. 5, dt : TimeSteps \union {0}]
  /\ ended \subseteq Sid

\* A round that goes on is in all four maps, one that was ended in states_
\* and round_results_ only, one that expired in none; whoever erases them.
MapsNest ==
  /\ DOMAIN modes = live
  /\ DOMAIN states = live \union ended /\ DOMAIN results = DOMAIN states
  /\ live \intersect ended = {}

DamageAccounted ==
  \A s \in DOMAIN states \intersect DOMAIN results : Accounts(states[s], results[s].damage)

ResultNeverAhead ==
  \A s \in DOMAIN states \intersect DOMAIN results :
    /\ results[s].attacks <= states[s].impacts
    /\ results[s].waves <= Waves(states[s])
    /\ results[s].distance <= states[s].odometer
    /\ results[s].health >= states[s].health

\* Result and state, kept in two maps by different operations, tell the same
\* story: the health and armour that are gone add up to total_damage_taken,
\* until no health is left, and the result never tells of more rocks, waves or
\* way than the vehicle has seen, though it is brought up to date by ticks only.
OneStory == DamageAccounted /\ ResultNeverAhead

\* The result of an ended round is that of its vehicle, whatever was called
\* before or after the end.
FinalResultFits ==
  \A s \in ended :
    results[s].over /\ results[s] = Final(results[s], states[s])

\* No operation changes or removes the result of an ended round.
FinalResultStays ==
  [][\A s \in ended : s \in DOMAIN results' /\ results'[s] = results[s]]_vars
=============================================================================
