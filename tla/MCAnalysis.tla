------------------------------ MODULE MCAnalysis ------------------------------
(***************************************************************************)
(* Analysis for TLC: a fleet, scores, files and bodies a configuration     *)
(* file cannot write; and what Formation and AlarmRules calculate without  *)
(* state, over bounded inputs, as assumptions.                             *)
(***************************************************************************)
EXTENDS Analysis

\* Two ancient vehicles, one of them without a roof, and two modern ones; the
\* years are those of vehicles.json.
Vehicle(e, y, w, c, r, a, s, l) ==
  [era |-> e, year |-> y, weight |-> w, cost |-> c, roof |-> r, rha |-> a, speed |-> s, stanag |-> l]
Fleet ==
  [fenyun_basic |-> Vehicle("ancient", -440, 3, 1, 75, 0, 3, 0),
   yunti_basic |-> Vehicle("ancient", -450, 2, 1, 0, 0, 4, 0),
   modern_m113 |-> Vehicle("modern", 1979, 12, 8, 32, 14, 64, 3),
   modern_m1a2 |-> Vehicle("modern", 1992, 60, 50, 80, 600, 67, 6)]

Years == {-440, -280, 1044, 1960, 1980, 1992}
Lists == {<<>>, <<"modern_m113", "unknown", "modern_m113">>, <<"yunti_basic", "fenyun_basic">>}

\* Trenches favour what open ground does not.
Strength == [LINE |-> 1, WEDGE |-> 2, ECHELON |-> 3, V_SHAPE |-> 4, COLUMN |-> 5, DIAMOND |-> 6]
Size == [narrow |-> 1, template |-> 2, wide |-> 3]
MCMerit(terrain, d) ==
  IF terrain = "FLAT" THEN 20 + Strength[d.type] * Size[d.shape]
                      ELSE 2 * (7 - Strength[d.type]) + 4 - Size[d.shape]

MCExpertCounts == {-1, 1, 3, 12}

\* Texts, as tokens.
J == INSTANCE Json
RECURSIVE Listed(_)
Listed(texts) ==
  IF Len(texts) < 2 THEN IF texts = <<>> THEN <<>> ELSE texts[1]
  ELSE texts[1] \o <<J!Mark(",")>> \o Listed(Tail(texts))
Of(key, text) == <<J!Str(key), J!Mark(":")>> \o text
Braces(members) == <<J!Mark("{")>> \o Listed(members) \o <<J!Mark("}")>>
Brackets(elements) == <<J!Mark("[")>> \o Listed(elements) \o <<J!Mark("]")>>
N(n) == <<J!Num(n)>>
S(s) == <<J!Str(s)>>
W(w) == <<J!Word(w)>>

SystemFile ==
  Braces(<<Of("alarm", Braces(<<Of("deformation_threshold_mm", N(15)),
                                Of("penetration_threshold_ratio", N(90)),
                                Of("stress_threshold_mpa", N(200)),
                                Of("deformation_warn_ratio", N(70))>>)),
           Of("dtu_receiver", Braces(<<Of("default_material", S("wood")),
                                       Of("default_protection_thickness_mm", N(80))>>))>>)
Stuff(strength) ==
  Braces(<<Of("yield_strength_mpa", N(strength)), Of("johnson_cook", Braces(<<Of("A_pa", N(strength))>>))>>)
MaterialsFile == Braces(<<Of("materials", Braces(<<Of("iron", Stuff(250)), Of("wood", Stuff(40))>>))>>)
AhpFile ==
  Braces(<<Of("criteria", Brackets(<<S("energy"), S("cost")>>)),
           Of("reference_pairwise_matrix", Brackets(<<Brackets(<<N(1), N(2)>>), Brackets(<<N(2), N(1)>>)>>)),
           Of("group_decision", Braces(<<Of("enabled", W("true")), Of("default_expert_count", N(5))>>))>>)
VehiclesFile ==
  Braces(<<Of("vehicles", Braces(<<
     Of("fenyun", Braces(<<Of("era", S("ancient")), Of("length_m", N(6)), Of("width_m", N(3))>>)),
     Of("m1a2", Braces(<<Of("era", S("modern")), Of("ground_pressure_kpa", N(103))>>)) >>))>>)

\* A full reading, some with much left to defaults, one of them of a vehicle
\* whose number is past 32 bits, and one that is no object.
Reports ==
  {Braces(<<Of("vehicle_id", N(12)), Of("roof_stress", N(180)), Of("ambient_temp", N(-25)),
            Of("protection_thickness", N(120)), Of("protection_material", S("iron")),
            Of("rock_mass", N(75))>>),
   Braces(<<Of("vehicle_id", N(2049)), Of("wheel_deformation", W("null"))>>),
   Brackets(<<Braces(<<Of("vehicle_id", N(3)), Of("protection_material", S("iron"))>>),
              W("null"),
              Braces(<<Of("ambient_temp", N(999)), Of("rock_velocity", N(20))>>),
              Braces(<<Of("rock_mass", N(30)), Of("protection_thickness", N(10))>>)>>)}

\* Nobody who sends a reading, and no file, gives a key twice.
ASSUME TextsKeysOnce ==
  \A text \in Reports \union {SystemFile, MaterialsFile, AhpFile, VehiclesFile} : J!KeysOnce(text)

KnownNames == <<"(part)", "fenyun", "iron", "m1a2", "wood">>

-----------------------------------------------------------------------------
\* The constants.  (TLC evaluates the definitions above once, but one that a
\* configuration file names each time.)
MCProfile == Fleet
MCMilestones == Years
MCAsked == Lists
MCNames == KnownNames
MCSystem == SystemFile
MCMaterials == MaterialsFile
MCAhp == AhpFile
MCVehicles == VehiclesFile
MCBodies == Reports

-----------------------------------------------------------------------------
(* Pure calculations                                                       *)

\* Two vehicles of a formation stand in two places, in formations of up to
\* thirteen (layout_formation, which the HTTP route calls with five), but for
\* one: the diamond of five puts the last vehicle where the first one is.
Collisions ==
  {<<type, n, i, j>> \in {Search!Types[k] : k \in 1 .. 6} \X (1 .. 13) \X (0 .. 12) \X (0 .. 12) :
     /\ i < j /\ j < n
     /\ LET a == Search!PlaceOf(type, i, n)
            b == Search!PlaceOf(type, j, n)
        IN  a.x = b.x /\ a.y = b.y}
ASSUME PlacesDiffer == Collisions = {<<"DIAMOND", 5, 0, 4>>}

\* A formation has one lead vehicle, but a line of an even number has none.
Leads(type, n) == {i \in 0 .. n - 1 : Search!PlaceOf(type, i, n).lead}
ASSUME OneLead ==
  \A k \in 1 .. 6, n \in 1 .. 13 :
    Cardinality(Leads(Search!Types[k], n)) = IF Search!Types[k] = "LINE" /\ n % 2 = 0 THEN 0 ELSE 1

\* Results of roofs of thirty to two hundred millimetres, by what the alarms
\* look at.
Impact(d, p, s, thickness) ==
  [deformation |-> d, depth |-> p, stress |-> s, is_penetrated |-> Alarms!Penetrated(p, thickness)]
Whole == Taking!Load(SystemFile, MaterialsFile, AhpFile, VehiclesFile)
Cut == Taking!Load(SubSeq(SystemFile, 1, 1), MaterialsFile, AhpFile, VehiclesFile)
Depths == {10 * k : k \in 0 .. 20}
Stresses == {0, 140, 141, 200, 201}

\* Of two impacts on one roof that bend it alike, the deeper one that stresses
\* it more raises no lower level (check_and_alert).
ASSUME LevelsRise ==
  LET whole == Whole IN
  \A d \in {0, 11, 16, 40}, p, q \in Depths, s, z \in Stresses, thickness \in {30, 80, 200} :
    p <= q /\ s <= z =>
      \A type \in {"penetration", "stress_exceed"} :
        Alarms!Levels(whole, Impact(d, p, s, thickness))[type]
          <= Alarms!Levels(whole, Impact(d, q, z, thickness))[type]

\* A roof that is penetrated is always an emergency.  One that nearly is, three
\* quarters of the way, gets its warning where it is as thick as worker_loop
\* makes it up, and misses it where it is thinner.
NearlyThrough(p, thickness) == 1000 * p > 675 * thickness
ASSUME ThinRoofsUnwarned ==
  LET whole == Whole
      Raised(d, p, thickness) == Alarms!Levels(whole, Impact(d, p, 0, thickness)).penetration
  IN
  /\ \A d \in {0, 11, 16, 40}, p \in Depths, thickness \in {30, 80, 84, 200} :
       LET level == Raised(d, p, thickness) IN
         /\ Alarms!Penetrated(p, thickness) => level = 4
         /\ NearlyThrough(p, thickness) /\ 10 * thickness >= 800 + d => level > 0
  /\ \E p \in 0 .. 30 : NearlyThrough(p, 30) /\ Raised(0, p, 30) = 0

\* Without its settings, which a file cut short leaves at 0, whatever is above
\* nothing is critical, and all three alerts come in their order.
ASSUME NoSettingsNoBounds ==
  /\ Cut.loaded
  /\ Alarms!Alerts(Cut, Impact(1, 1, 1, 80), 6) =
       << [alert_id |-> 7, alert_type |-> "deformation_exceed", alert_level |-> 3],
          [alert_id |-> 8, alert_type |-> "penetration",        alert_level |-> 4],
          [alert_id |-> 9, alert_type |-> "stress_exceed",      alert_level |-> 3] >>
=============================================================================
