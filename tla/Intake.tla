-------------------------------- MODULE Intake --------------------------------
(***************************************************************************)
(* From the text of a request to the readings that are queued: the two     *)
(* ingesting routes, DtuReceiver's parsing and validation, and json below. *)
(* HttpServer hands on a body that was cut off as if it were whole, and    *)
(* nobody looks at the end of a configuration file either, so that each    *)
(* text may be the beginning of the one that was meant.                    *)
(*                                                                         *)
(* The queue has room here; SensorPipeline has the counters and what       *)
(* happens when it has not.                                                *)
(***************************************************************************)
EXTENDS Config, Selection

CONSTANTS
  System, Materials, Ahp, Vehicles,   \* the four files
  Bodies,     \* bodies that are meant
  UIntSize,   \* 2^32, past which a vehicle_id begins again
  Now         \* the time stamp of a reading that has none

VARIABLES
  main,   \* how far main has come
  config,  \* the settings in force
  posted,  \* history: route, text that was meant and text that came
  read,    \* what parse_sensor_json made of it
  queued,  \* what was pushed to the sensor queue
  reply    \* error_msg, or how many were received

vars == <<main, config, posted, read, queued, reply>>

IntakeAssumption ==
  /\ \A text \in Bodies : IsText(text)
  /\ UIntSize \in Nat /\ UIntSize > 1000
  /\ Now \in Nat \ {0}

NoPost == [route |-> "none", meant |-> <<>>, text |-> <<>>]

Init ==
  /\ main = "new" /\ config = Empty
  /\ posted = NoPost /\ read = <<>> /\ queued = <<>> /\ reply = "none"

\* load_config: main ends if it fails.  At most one file is cut short.
Start ==
  /\ main = "new"
  /\ \/ \E text \in Beginnings(System) : config' = Load(text, Materials, Ahp, Vehicles)
     \/ \E text \in Beginnings(Materials) : config' = Load(System, text, Ahp, Vehicles)
     \/ \E text \in Beginnings(Ahp) : config' = Load(System, Materials, text, Vehicles)
     \/ \E text \in Beginnings(Vehicles) : config' = Load(System, Materials, Ahp, text)
  /\ main' = IF config'.loaded THEN "up" ELSE "exited"
  /\ UNCHANGED <<posted, read, queued, reply>>

-----------------------------------------------------------------------------
(* parse_sensor_json                                                       *)

\* The place of the impact, which nothing looks at, is left out.
Defaults(c) ==
  [vehicle_id |-> 1, timestamp_ms |-> 0, roof_stress |-> 0, wheel_deformation |-> 0,
   rock_impact_force |-> 0,
   protection_thickness |-> c.settings[<<"dtu_receiver", "default_protection_thickness_mm">>],
   protection_material |-> c.settings[<<"dtu_receiver", "default_material">>],
   ambient_temp |-> 20, rock_mass |-> 50, rock_velocity |-> 15]
Field == DOMAIN Defaults(Empty)

Conversion(f, v) ==
  CASE f = "vehicle_id"          -> AsInt64(v) % UIntSize
    [] f = "timestamp_ms"        -> AsInt64(v)
    [] f = "protection_material" -> AsString(v)
    [] OTHER                     -> AsDouble(v)

ParseSensor(c, root) ==
  [f \in Field |-> IF Has(root, f) THEN Conversion(f, Member(root, f)) ELSE Defaults(c)[f]]

Stamped(r) == IF r.timestamp_ms = 0 THEN [r EXCEPT !.timestamp_ms = Now] ELSE r

-----------------------------------------------------------------------------
(* validate                                                                *)

\* Mutant: any material that has a name will do.
NotEmpty(c, material) == TRUE
\* The names are copied when the receiver is made; without any, four are known.
Supported(c, material) ==
  material \in IF DOMAIN c.strengths = {} THEN {"wood", "cowhide", "iron", "composite"}
               ELSE DOMAIN c.strengths

\* The rules in their order, each with what breaks it.
Rules(c, r) ==
  << <<"VEHICLE_ID_INVALID",       r.vehicle_id = 0 \/ r.vehicle_id > 1000>>,
     <<"TIMESTAMP_INVALID",        r.timestamp_ms < 0>>,
     <<"STRESS_OUT_OF_RANGE",      r.roof_stress \notin 0 .. 2000>>,
     <<"DEFORMATION_NEGATIVE",     r.wheel_deformation < 0>>,
     <<"IMPACT_FORCE_NEGATIVE",    r.rock_impact_force < 0>>,
     <<"THICKNESS_INVALID",        r.protection_thickness \notin 1 .. 500>>,
     <<"MATERIAL_UNKNOWN",         r.protection_material = "">>,
     <<"MATERIAL_UNKNOWN",         ~Supported(c, r.protection_material)
                                     /\ ~HasMaterial(c, r.protection_material)>>,
     <<"ROCK_PARAMS_INVALID",      r.rock_mass < 0 \/ r.rock_velocity < 0>>,
     <<"TEMPERATURE_OUT_OF_RANGE", r.ambient_temp \notin -60 .. 200>> >>
Validate(c, r) ==
  LET broken == {i \in 1 .. 10 : Rules(c, r)[i][2]} IN
    IF broken = {} THEN "OK" ELSE Rules(c, r)[CHOOSE i \in broken : \A j \in broken : i <= j][1]

-----------------------------------------------------------------------------
(* The routes                                                              *)

\* ingest_json_batch passes over what is no object, and over its errors.
Readings(c, route, root) ==
  LET items == IF route = "single" THEN <<root>> ELSE IF IsArray(root) THEN root.of ELSE <<>>
      objects == Selected(items, {i \in DOMAIN items : IsObject(items[i])})
  IN  [i \in DOMAIN objects |-> Stamped(ParseSensor(c, objects[i]))]

Answer(c, route, root, taken) ==
  CASE route = "batch"   -> IF IsArray(root) THEN "" ELSE "Invalid JSON array"
    [] IsNull(root)      -> "Invalid JSON"
    [] ~IsObject(root)   -> "Missing required fields"
    [] OTHER             -> IF taken = <<>> THEN "refused without a reason" ELSE "received"

Post(route) ==
  /\ main = "up" /\ posted = NoPost
  /\ \E meant \in Bodies : \E text \in Beginnings(meant) :
       LET root == Parse(text)
           readings == Readings(config, route, root)
           taken == Selected(readings, {i \in DOMAIN readings : Validate(config, readings[i]) = "OK"})
       IN  /\ posted' = [route |-> route, meant |-> meant, text |-> text]
           /\ read' = readings
           /\ queued' = taken
           /\ reply' = Answer(config, route, root, taken)
  /\ UNCHANGED <<main, config>>

\* The handler returns and the next request starts from nothing.
Return ==
  /\ posted # NoPost /\ posted' = NoPost
  /\ read' = <<>> /\ queued' = <<>> /\ reply' = "none"
  /\ UNCHANGED <<main, config>>

Next == Start \/ Post("single") \/ Post("batch") \/ Return

Spec == Init /\ [][Next]_vars
-----------------------------------------------------------------------------
\* Type invariant.
TypeOK ==
  /\ main \in {"new", "up", "exited"}
  /\ config.loaded \in BOOLEAN /\ DOMAIN config.flows = DOMAIN config.strengths
  /\ \A i \in DOMAIN read : DOMAIN read[i] = Field /\ read[i].vehicle_id \in 0 .. UIntSize - 1
  /\ \A i \in DOMAIN queued : \E j \in DOMAIN read : queued[i] = read[j]

Token(v) == CASE v.type = "int"    -> Num(v.of)
              [] v.type = "string" -> Str(v.of)
              [] OTHER             -> Word("null")

\* A body that was cut off is read up to its cut and no further: the readings
\* before the last are those that were meant; in the last one a field is what
\* was meant or the default, but for the one that the cut is in, of which only
\* a beginning is there or nothing, which is 0.
ReadUpToTheCut ==
  LET meant == Readings(config, posted.route, Parse(posted.meant))
      items == LET root == Parse(posted.meant) IN IF IsArray(root) THEN root.of ELSE <<root>>
      objects == Selected(items, {i \in DOMAIN items : IsObject(items[i])})
      last == Len(read)
      default == Stamped(Defaults(config))
      changed == {f \in Field : read[last][f] \notin {meant[last][f], default[f]}}
  IN  /\ last <= Len(meant)
      /\ \A i \in 1 .. last - 1 : read[i] = meant[i]
      /\ last > 0 =>
           /\ Cardinality(changed) <= 1
           /\ \A f \in changed :
                \/ read[last][f] = Conversion(f, Null)
                \/ \E part \in Broken(Token(Member(objects[last], f))) :
                     read[last][f] = Conversion(f, Parse(<<part>>))

\* Whatever is queued is of a material the configuration has, with a strength
\* and parameters of its own: get_material and get_jc_params, which give an
\* unknown name the first entry they have, are never asked for one.
MaterialIsItsOwn ==
  \A i \in DOMAIN queued :
    LET m == queued[i].protection_material IN
      MaterialOf(config, m) = m /\ FlowOf(config, m) = m

\* Nothing that is queued is made up, although json ends quietly wherever a
\* text does, in requests and in configuration files alike.
NothingMadeUp == ReadUpToTheCut /\ MaterialIsItsOwn
=============================================================================
