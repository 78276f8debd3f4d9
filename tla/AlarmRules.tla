------------------------------ MODULE AlarmRules ------------------------------
(***************************************************************************)
(* AlarmMqtt: its thresholds, which come from the configuration, and what  *)
(* worker_loop raises for a result of the simulation.  SensorPipeline has  *)
(* the thread and its queue; connect and publish_alert are stubs that      *)
(* always succeed.                                                         *)
(*                                                                         *)
(* Lengths are in millimetres, ratios in per cent of one.                  *)
(***************************************************************************)
EXTENDS Config

\* A bound that a measure crosses when measure * per is above it.
Bound(limit, per) == [limit |-> limit, per |-> per]
Crosses(measure, bound) == measure * bound.per > bound.limit

\* The constructor.  Warnings come at a ratio of their own for deformation, at
\* 0.75 and 0.7 of the critical value for the other two.
Thresholds(c) ==
  LET alarm(key) == c.settings[<<"alarm", key>>] IN
    [deformation |-> [critical |-> Bound(alarm("deformation_threshold_mm"), 1),
                      warn |-> Bound(alarm("deformation_threshold_mm") * alarm("deformation_warn_ratio"), 100)],
     penetration |-> [critical |-> Bound(alarm("penetration_threshold_ratio"), 100),
                      warn |-> Bound(alarm("penetration_threshold_ratio") * 3, 400)],
     stress      |-> [critical |-> Bound(alarm("stress_threshold_mpa"), 1),
                      warn |-> Bound(alarm("stress_threshold_mpa") * 7, 10)]]

\* A result does not carry the thickness it was computed for: worker_loop makes
\* one up from the deformation, here in tenths of a millimetre.
MadeUpThickness(result) == result.deformation + 800

\* run_plasticity_calc, which knows the thickness.
Penetrated(depth, thickness) == depth * 10 > thickness * 9

\* The ratio of two lengths against a bound for it.
RatioCrosses(depth, tenths, bound) ==
  IF tenths > 0 THEN depth * 10 * bound.per > bound.limit * tenths ELSE 0 > bound.limit

Level(severe, slight, high) == IF severe THEN high ELSE IF slight THEN 2 ELSE 0

\* The levels of the three kinds of alert, none of them 0.
Levels(c, result) ==
  LET t == Thresholds(c)
      thickness == MadeUpThickness(result)
      Ratio(bound) == RatioCrosses(result.depth, thickness, bound)
  IN  [deformation_exceed |-> Level(Crosses(result.deformation, t.deformation.critical),
                                    Crosses(result.deformation, t.deformation.warn), 3),
       penetration        |-> Level(result.is_penetrated \/ Ratio(t.penetration.critical),
                                    Ratio(t.penetration.warn), 4),
       stress_exceed      |-> Level(Crosses(result.stress, t.stress.critical),
                                    Crosses(result.stress, t.stress.warn), 3)]

\* The alerts in the order they are published; given is how many there have
\* been before.
Alerts(c, result, given) ==
  LET Raised(type) == Levels(c, result)[type] > 0
      types == SelectSeq(<<"deformation_exceed", "penetration", "stress_exceed">>, Raised)
  IN  [i \in DOMAIN types |->
         [alert_id |-> given + i, alert_type |-> types[i], alert_level |-> Levels(c, result)[types[i]]]]
=============================================================================
