---------------------------- MODULE ReadingJourney ----------------------------
(***************************************************************************)
(* What the service promises about one sensor reading: it goes forward     *)
(* through the stages from the HTTP handler to one of eight ends, never    *)
(* back, never by a short cut, and each step moves a single reading.       *)
(***************************************************************************)
CONSTANT Reading

VARIABLE stage   (* where each reading is *)

Onward == [
  unsent     |-> {"unparsed", "validating"},
  validating |-> {"rejected", "dropped", "queued"},
  queued     |-> {"simulating"},
  simulating |-> {"shed", "result"},
  result     |-> {"checking", "storing"},
  checking   |-> {"checked"},
  storing    |-> {"stored", "failed", "unsaved"} ]

Init == stage = [r \in Reading |-> "unsent"]

Advance(r) ==
  /\ stage[r] \in DOMAIN Onward
  /\ \E next \in Onward[stage[r]] : stage' = [stage EXCEPT ![r] = next]

Next == \E r \in Reading : Advance(r)

Spec == Init /\ [][Next]_stage
=============================================================================
