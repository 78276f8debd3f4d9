----------------------------- MODULE UserSessions -----------------------------
(***************************************************************************)
(* UserSessionManager with its two users: the HTTP thread, which answers   *)
(* one request at a time, and the cleanup thread of FenyunApplication.     *)
(*                                                                         *)
(* Every operation of the manager is one critical section of its mutex,    *)
(* but a request is several operations: has_session, the operation itself, *)
(* and get_vehicle_state.  An attack keeps the mutex while run_simulation  *)
(* is awaited, one step for each rock.                                     *)
(*                                                                         *)
(* Time: a session's last_active_ms is kept as the time since then, which  *)
(* stops counting once it has passed the timeout.                          *)
(***************************************************************************)
EXTENDS Vehicle, Functions

CONSTANTS
  MaxSessions,   \* bound of the model: sessions ever created
  MaxRocks,      \* bound of the model: rocks ever thrown
  IdleTimeout,   \* cleanup_expired_sessions: idle_timeout_ms
  Blows,         \* forces of a rock's blow
  Speeds,        \* speeds throttle and brake can set
  TimeSteps,     \* dt_seconds of a tick, any number a client sends
  LibraryUse     \* TRUE: destroy_session is called, as unit tests do

ASSUME SessionAssumption ==
  /\ MaxSessions \in Nat /\ MaxRocks \in Nat /\ IdleTimeout \in Nat
  /\ Blows \subseteq Nat /\ Speeds \subseteq Int /\ TimeSteps \subseteq Int
  /\ LibraryUse \in BOOLEAN

Sid == 1 .. MaxSessions
NoSid == 0
NoState == -1      \* the state an unknown session has: UserVehicleState{}

VARIABLES
  sessions,   \* sessions_: for each session, the time since last_active_ms
  states,     \* vehicle_states_
  recent,     \* recent_attacks_: how many events the last attack had
  nextSid,    \* session_id_counter_
  rocks,      \* attack_id_counter_
  http,       \* HTTP thread: position, operation, session, rocks to throw,
              \* events so far, time step
  answer,     \* the answer last given: operation, session, events, impacts shown
  dealt,      \* history: damage dealt to each session since its last reset
  quiet       \* history: time since the last operation on each session

mapVars == <<sessions, states, recent>>
historyVars == <<dealt, quiet>>
vars == <<mapVars, nextSid, rocks, http, answer, historyVars>>

Idle == [pc |-> "idle", op |-> "none", sid |-> NoSid, left |-> 0, events |-> 0, dt |-> 0]
NoAnswer == [op |-> "none", sid |-> NoSid, events |-> 0, shown |-> NoState]
Operation == {"action", "attack", "tick", "reset"}

live == DOMAIN sessions
MutexFree == http.pc # "attacking"

Init ==
  /\ sessions = <<>> /\ states = <<>> /\ recent = <<>>
  /\ nextSid = 1 /\ rocks = 0
  /\ http = Idle /\ answer = NoAnswer
  /\ dealt = [s \in Sid |-> 0]
  /\ quiet = [s \in Sid |-> 0]

\* last_active_ms = current_timestamp_ms()
Touched(s) == [sessions EXCEPT ![s] = 0]
Touch(s) == sessions' = Touched(s) /\ quiet' = [quiet EXCEPT ![s] = 0]
Answer(events, shown) ==
  answer' = [op |-> http.op, sid |-> http.sid, events |-> events, shown |-> shown]
-----------------------------------------------------------------------------
\* POST /api/user/session/create: create_session.
Create ==
  /\ http = Idle /\ nextSid <= MaxSessions
  /\ nextSid' = nextSid + 1
  /\ sessions' = With(sessions, nextSid, 0)
  /\ states' = With(states, nextSid, NewVehicle)
  /\ recent' = With(recent, nextSid, 0)
  /\ answer' = NoAnswer
  /\ quiet' = [quiet EXCEPT ![nextSid] = 0]
  /\ UNCHANGED <<rocks, http, dealt>>

\* A request names a session: has_session, and 404 when there is none.
Check(op, s) ==
  /\ http = Idle /\ s < nextSid
  /\ op \in {"attack", "tick"} => rocks < MaxRocks
  /\ answer' = NoAnswer
  /\ http' = IF s \in live THEN [Idle EXCEPT !.pc = "found", !.op = op, !.sid = s] ELSE Idle
  /\ UNCHANGED <<mapVars, nextSid, rocks, historyVars>>

Found(op) == http.pc = "found" /\ http.op = op

\* The cleanup has been quicker: action and reset do nothing, and are
\* answered with an empty state and with ok.
OnGone ==
  /\ http.pc = "found" /\ http.op \in {"action", "reset"}
  /\ http.sid \notin live
  /\ Answer(0, NoState)
  /\ http' = Idle
  /\ UNCHANGED <<mapVars, nextSid, rocks, historyVars>>

\* apply_action; an action that is none of the four changes no state.
Driven(v) == {v, AtStart(v)} \union {AtSpeed(v, sp) : sp \in Speeds \union {0}}

\* Mutant: apply_action does not refresh last_active_ms.
ActionUntouched ==
  /\ Found("action") /\ http.sid \in live
  /\ quiet' = [quiet EXCEPT ![http.sid] = 0]
  /\ \E v \in Driven(states[http.sid]) : states' = [states EXCEPT ![http.sid] = v]
  /\ Answer(0, states[http.sid].impacts)
  /\ http' = Idle
  /\ UNCHANGED <<sessions, recent, nextSid, rocks, dealt>>

Action ==
  /\ Found("action") /\ http.sid \in live
  /\ Touch(http.sid)
  /\ \E v \in Driven(states[http.sid]) : states' = [states EXCEPT ![http.sid] = v]
  /\ Answer(0, states[http.sid].impacts)
  /\ http' = Idle
  /\ UNCHANGED <<recent, nextSid, rocks, dealt>>

\* reset_session restores all but the vibration and its effects.
ResetVehicle(v) == [NewVehicle EXCEPT !.shaken = v.shaken]

Reset ==
  /\ Found("reset") /\ http.sid \in live
  /\ Touch(http.sid)
  /\ states' = [states EXCEPT ![http.sid] = ResetVehicle(@)]
  /\ recent' = [recent EXCEPT ![http.sid] = 0]
  /\ dealt' = [dealt EXCEPT ![http.sid] = 0]
  /\ Answer(0, NoState)
  /\ http' = Idle
  /\ UNCHANGED <<nextSid, rocks>>
-----------------------------------------------------------------------------
\* trigger_rock_attack and process_time_step find no session: no events.
AttackGone ==
  /\ http.pc = "found" /\ http.op \in {"attack", "tick"}
  /\ http.sid \notin live
  /\ http' = [http EXCEPT !.pc = "read"]
  /\ UNCHANGED <<mapVars, nextSid, rocks, answer, historyVars>>

\* trigger_rock_attack: one rock.
BeginAttack ==
  /\ Found("attack") /\ http.sid \in live
  /\ Touch(http.sid)
  /\ http' = [http EXCEPT !.pc = "attacking", !.left = 1]
  /\ UNCHANGED <<states, recent, nextSid, rocks, answer, dealt>>

\* process_time_step: the vehicle moves, then one to three rocks.
BeginTick(dt, n) ==
  /\ Found("tick") /\ http.sid \in live
  /\ rocks + n <= MaxRocks
  /\ Touch(http.sid)
  /\ states' = [states EXCEPT ![http.sid] = Moved(@, dt)]
  /\ http' = [http EXCEPT !.pc = "attacking", !.left = n, !.dt = dt]
  /\ UNCHANGED <<recent, nextSid, rocks, answer, dealt>>

\* generate_random_attack, with run_simulation, and update_state_from_attack.
Throw(k) ==
  /\ http.pc = "attacking" /\ http.left > 0
  /\ rocks' = rocks + 1
  /\ states' = [states EXCEPT ![http.sid] = Struck(@, k)]
  /\ http' = [http EXCEPT !.left = @ - 1, !.events = @ + 1]
  /\ dealt' = [dealt EXCEPT ![http.sid] = @ + k]
  /\ UNCHANGED <<sessions, recent, nextSid, answer, quiet>>

\* The vibration decays over the tick.  It is over when a positive step has
\* brought it below a hundredth and the last simulation took longer than it
\* lasts; a step that is not positive only keeps or feeds it.
Settled(v) == {v} \union (IF http.dt > 0 THEN {[v EXCEPT !.shaken = FALSE]} ELSE {})

\* The events are recorded and the mutex is released.
EndAttack ==
  /\ http.pc = "attacking" /\ http.left = 0
  /\ recent' = [recent EXCEPT ![http.sid] = http.events]
  /\ \E v \in Settled(states[http.sid]) : states' = [states EXCEPT ![http.sid] = v]
  /\ http' = [http EXCEPT !.pc = "read"]
  /\ UNCHANGED <<sessions, nextSid, rocks, answer, historyVars>>

\* Mutant: get_vehicle_state makes an unknown session a new vehicle.
ShownAsNew(s) == IF s \in DOMAIN states THEN states[s].impacts ELSE 0

\* get_vehicle_state, and the answer with events and state.
ShownImpacts(s) == IF s \in DOMAIN states THEN states[s].impacts ELSE NoState

Read ==
  /\ http.pc = "read"
  /\ Answer(http.events, ShownImpacts(http.sid))
  /\ http' = Idle
  /\ UNCHANGED <<mapVars, nextSid, rocks, historyVars>>
-----------------------------------------------------------------------------
Ticked(t) == [s \in DOMAIN t |-> Smaller(t[s] + 1, IdleTimeout + 1)]

TimePasses ==
  /\ sessions' = Ticked(sessions)
  /\ quiet' = Ticked(quiet)
  /\ UNCHANGED <<states, recent, nextSid, rocks, http, answer, dealt>>

ExpiredLate(s) == sessions[s] > IdleTimeout + 1   \* mutant: never the case
Expired(s) == sessions[s] > IdleTimeout

\* Mutant: recent_attacks_ is forgotten.
EraseTwo(gone) ==
  /\ sessions' = Restrict(sessions, live \ gone)
  /\ states' = Restrict(states, DOMAIN states \ gone)
  /\ UNCHANGED recent

Erase(gone) ==
  /\ sessions' = Restrict(sessions, live \ gone)
  /\ states' = Restrict(states, DOMAIN states \ gone)
  /\ recent' = Restrict(recent, DOMAIN recent \ gone)

\* cleanup_expired_sessions, in the session_cleanup thread.
Cleanup ==
  /\ MutexFree
  /\ Erase({s \in live : Expired(s)})
  /\ UNCHANGED <<nextSid, rocks, http, answer, historyVars>>

\* destroy_session, and cleanup_expired_sessions from the thread that uses
\* the sessions; only tests call them so.
Destroy(s) ==
  /\ LibraryUse /\ http = Idle
  /\ Erase({s})
  /\ answer' = NoAnswer
  /\ UNCHANGED <<nextSid, rocks, http, historyVars>>

CleanupCall ==
  /\ LibraryUse /\ http = Idle
  /\ Erase({s \in live : Expired(s)})
  /\ answer' = [NoAnswer EXCEPT !.op = "cleanup"]
  /\ UNCHANGED <<nextSid, rocks, http, historyVars>>
-----------------------------------------------------------------------------
\* What the HTTP thread does in a request.
HttpStep ==
  \/ OnGone \/ Action \/ Reset
  \/ AttackGone \/ BeginAttack
  \/ \E dt \in TimeSteps, n \in 1 .. 3 : BeginTick(dt, n)
  \/ \E k \in Blows : Throw(k)
  \/ EndAttack \/ Read

Next ==
  \/ Create
  \/ \E op \in Operation, s \in Sid : Check(op, s)
  \/ HttpStep
  \/ TimePasses \/ Cleanup
  \/ CleanupCall
  \/ \E s \in Sid : Destroy(s)

Spec == Init /\ [][Next]_vars

\* The HTTP thread goes on with a request, the clock goes on, and the cleanup
\* thread gets the mutex in the end.  Nothing obliges a client to ask.
Fairness ==
  /\ WF_vars(HttpStep)
  /\ WF_vars(TimePasses)
  /\ SF_vars(Cleanup)

FairSpec == Spec /\ Fairness
-----------------------------------------------------------------------------
Ages == 0 .. IdleTimeout + 1
HttpStates ==
  [pc : {"idle", "found", "attacking", "read"}, op : Operation \union {"none"},
   sid : Sid \union {NoSid}, left : 0 .. 3, events : 0 .. 3, dt : TimeSteps \union {0}]
Answers ==
  [op : Operation \union {"none", "cleanup"}, sid : Sid \union {NoSid}, events : 0 .. 3,
   shown : Nat \union {NoState}]

\* Type invariant; health and armour stay between none and full.
TypeOK ==
  /\ live \subseteq Sid /\ sessions \in [live -> Ages]
  /\ DOMAIN states \subseteq Sid /\ states \in [DOMAIN states -> Vehicles]
  /\ DOMAIN recent \subseteq Sid /\ recent \in [DOMAIN recent -> 0 .. 3]
  /\ nextSid \in 1 .. MaxSessions + 1
  /\ rocks \in 0 .. MaxRocks
  /\ http \in HttpStates
  /\ answer \in Answers
  /\ dealt \in [Sid -> Nat]
  /\ quiet \in [Sid -> Ages]

\* The three maps hold the same sessions, whichever thread erases one and
\* whatever request is under way; an attack's session is in them to its end.
MapsAgree ==
  /\ DOMAIN states = live /\ DOMAIN recent = live
  /\ ~MutexFree => http.sid \in live

DamageAccounted == \A s \in DOMAIN states : Accounts(states[s], dealt[s])
OdometerCoversTrip == \A s \in DOMAIN states : Abs(states[s].x) <= states[s].odometer

\* Through any sequence of attacks, ticks and resets, the health and armour that
\* are gone add up to the damage that was dealt, until no health is left, and
\* the odometer covers the distance from the start, whatever mix of
\* operations brought the vehicle where it is.
WearAndWay == DamageAccounted /\ OdometerCoversTrip

\* The answer to an attack shows a state with the attack in it, or none
\* because the session has expired in between: has_session, the attack and
\* get_vehicle_state are three critical sections.
AnswerFits ==
  answer.events > 0 =>
    \/ answer.shown >= answer.events
    \/ answer.shown = NoState /\ answer.sid \notin live

\* A session used within the timeout is not cleaned up, whatever it was used
\* for: nothing but destroy_session ends it.
ActiveStays == [][\A s \in live \ live' : quiet[s] > IdleTimeout \/ Destroy(s)]_vars

\* A session nobody asks for any more is cleaned up.
AbandonedGoes == \A s \in Sid : s \in live ~> s \notin live \/ http.sid = s
=============================================================================
