-------------------------------- MODULE Config --------------------------------
(***************************************************************************)
(* ConfigLoader: what load_from_string makes of the four files and what    *)
(* the other components are told.  A setting that is not there, or not of  *)
(* its type, is 0 or "", and no error.                                     *)
(***************************************************************************)
EXTENDS Json

CONSTANT Names   \* names of materials and vehicles, in the order of std::map

\* Settings by section and key, those the modules beside this one use.
Numbers ==
  {<<"simulation", "threads">>, <<"simulation", "queue_capacity">>, <<"alarm", "queue_capacity">>,
   <<"alarm", "deformation_threshold_mm">>, <<"alarm", "penetration_threshold_ratio">>,
   <<"alarm", "stress_threshold_mpa">>, <<"alarm", "deformation_warn_ratio">>,
   <<"dtu_receiver", "default_protection_thickness_mm">>}
Texts == {<<"clickhouse", "host">>, <<"mqtt", "topic_prefix">>, <<"dtu_receiver", "default_material">>}
Settings(root) ==
  [s \in Numbers \union Texts |->
     LET v == Member(Member(root, s[1]), s[2]) IN IF s \in Numbers THEN AsDouble(v) ELSE AsString(v)]

\* Strength stands for the properties of a material, flow for the parameters
\* of Johnson and Cook.  Both maps are filled side by side.
Strengths(root) ==
  LET mats == Member(root, "materials") IN
    IF ~IsObject(mats) THEN <<>>
    ELSE [n \in DOMAIN mats.of |-> AsDouble(Member(mats.of[n], "yield_strength_mpa"))]
Flows(root) ==
  LET mats == Member(root, "materials") IN
    IF ~IsObject(mats) THEN <<>>
    ELSE [n \in DOMAIN mats.of |-> AsDouble(Member(Member(mats.of[n], "johnson_cook"), "A_pa"))]

Strings(v) == [i \in 1 .. Size(v) |-> AsString(Element(v, i))]
Matrix(v) == [i \in 1 .. Size(v) |->
                [j \in 1 .. Size(Element(v, i)) |-> AsDouble(Element(Element(v, i), j))]]
Judgement(root) ==
  LET group == Member(root, "group_decision") IN
    [criteria |-> Strings(Member(root, "criteria")),
     matrix |-> Matrix(Member(root, "reference_pairwise_matrix")),
     grouped |-> AsBool(Member(group, "enabled")),
     experts |-> AsInt64(Member(group, "default_expert_count"))]

\* What a vehicle's entry leaves out, or gives as null, is guessed from its
\* size or its era.
Era(v) == IF AsString(Member(v, "era")) = "modern" THEN "modern" ELSE "ancient"
Given(v, key) == Has(v, key) /\ ~IsNull(Member(v, key))
Pressure(v) ==
  IF Given(v, "ground_pressure_kpa") THEN "given"
  ELSE IF AsDouble(Member(v, "length_m")) * AsDouble(Member(v, "width_m")) > 0 THEN "computed"
  ELSE Era(v)
Fleet(root) ==
  LET vehicles == Member(root, "vehicles") IN
    IF ~IsObject(vehicles) THEN <<>>
    ELSE [id \in DOMAIN vehicles.of |-> [era |-> Era(vehicles.of[id]), pressure |-> Pressure(vehicles.of[id])]]

\* FenyunApplication makes a loader and loads it once.  A file that is no JSON
\* at all ends the load before it begins; vehicles.json may be empty.
Empty == [loaded |-> FALSE, settings |-> Settings(Null), strengths |-> <<>>, flows |-> <<>>,
          judgement |-> Judgement(Null), vehicles |-> <<>>]
Load(system, materials, ahp, vehicles) ==
  LET root == Parse(system)
      mats == Parse(materials)
      judge == Parse(ahp)
      veh == Parse(vehicles)
      new == [Empty EXCEPT !.settings = Settings(root), !.strengths = Strengths(mats),
                           !.flows = Flows(mats), !.judgement = Judgement(judge),
                           !.vehicles = Fleet(veh)]
      fits == /\ DOMAIN new.strengths # {}
              /\ new.judgement.criteria # <<>> /\ new.judgement.matrix # <<>>
              /\ vehicles # <<>> => DOMAIN new.vehicles # {}
  IN  IF IsNull(root) \/ IsNull(mats) \/ IsNull(judge) THEN Empty ELSE [new EXCEPT !.loaded = fits]

HasMaterial(config, name) == name \in DOMAIN config.strengths

\* An unknown name gets the first entry of the map, if there is one.
Entry(map, name) ==
  IF name \in DOMAIN map THEN name
  ELSE IF DOMAIN map = {} THEN "none"
  ELSE Names[CHOOSE i \in DOMAIN Names :
               Names[i] \in DOMAIN map /\ \A j \in 1 .. i - 1 : Names[j] \notin DOMAIN map]
MaterialOf(config, name) == Entry(config.strengths, name)
FlowOf(config, name) == Entry(config.flows, name)
VehicleOf(config, id) == Entry(config.vehicles, id)
=============================================================================
