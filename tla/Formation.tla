------------------------------- MODULE Formation -------------------------------
(***************************************************************************)
(* FormationOptimizer: where the vehicles of a formation stand, and the    *)
(* search for the best formation.  The search takes the six templates,     *)
(* draws designs at random until there are Target candidates, and picks    *)
(* the first one of the highest score.  Designs whose spacing and width    *)
(* are close (0.1 and 0.5 m) are one design here; what the three formulas  *)
(* for survival, coverage and progress, their penalties for terrain and    *)
(* the weights make of a design on a terrain is Merit.                     *)
(***************************************************************************)
EXTENDS Integers, Sequences, FiniteSetsExt

CONSTANTS
  Shapes,         \* spacing and width of a design, up to closeness
  Template,       \* those of a template
  Terrains,       \* TerrainType
  Merit(_, _),    \* terrain and design: the score
  Target,         \* candidates to compare, 8
  MaxOptimizations \* bound of the model: calls of optimize

Types == <<"LINE", "WEDGE", "ECHELON", "V_SHAPE", "COLUMN", "DIAMOND">>
Designs == [type : {Types[i] : i \in DOMAIN Types}, shape : Shapes]

\* What the constants have to be; Analysis assumes it.
FormationAssumption ==
  /\ Template \in Shapes /\ "FLAT" \in Terrains
  /\ \A t \in Terrains, d \in Designs : Merit(t, d) \in Nat
  /\ Target \in Nat \ {0} /\ MaxOptimizations \in Nat

-----------------------------------------------------------------------------
(* create_vehicle_in_formation: x in spacings, y in tenths of one, from    *)
(* the line the formation stands on; index counts from zero                *)

Place(x, y, lead) == [x |-> x, y |-> y, lead |-> lead]
Magnitude(n) == IF n < 0 THEN -n ELSE n
Side(k) == IF k % 2 = 0 THEN -1 ELSE 1
Offset(i, n) == i - (n - 1) \div 2

InLine(i, n) == Place(Offset(i, n), 0, n % 2 = 1 /\ Offset(i, n) = 0)
InEchelon(i, n) == Place(Offset(i, n), -6 * Magnitude(Offset(i, n)), Offset(i, n) = 0)
InColumn(i) == Place(0, -10 * i, i = 0)

Pair(i) == (i - 1) \div 2
InWedge(i) ==
  IF i = 0 THEN Place(0, -5, TRUE)
           ELSE Place(Side(i - 1) * (Pair(i) + 2), -5 - 10 * (Pair(i) + 2), FALSE)
InVShape(i) ==
  IF i = 0 THEN Place(0, 0, TRUE)
           ELSE Place(Side(i - 1) * (Pair(i) + 1), 5 * (Pair(i) + 1), FALSE)

\* Layer l has 2l + 1 places; whoever finds none in the layers goes behind.
Layers(n) == 2 + (n - 2) \div 4
InDiamond(i, n) ==
  IF n = 1 THEN Place(0, 0, TRUE)
  ELSE IF i >= Layers(n) * Layers(n) THEN Place(0, 5 * (i - Layers(n) * Layers(n)), i = 0)
  ELSE LET layer == Max({l \in 0 .. Layers(n) : l * l <= i})
       IN  Place(i - layer * layer - layer, -5 * layer, i = 0)

PlaceOf(type, i, n) ==
  CASE type = "LINE" -> InLine(i, n)
    [] type = "WEDGE" -> InWedge(i)
    [] type = "ECHELON" -> InEchelon(i, n)
    [] type = "V_SHAPE" -> InVShape(i)
    [] type = "COLUMN" -> InColumn(i)
    [] type = "DIAMOND" -> InDiamond(i, n)

Layout(type, n) == [i \in 0 .. n - 1 |-> PlaceOf(type, i, n)]

-----------------------------------------------------------------------------
VARIABLES
  phase,         \* how far optimize has come
  request,       \* the terrains of the request and of its baseline
  candidates,    \* designs to compare, each with its terrain
  best,          \* best_formation of the last result
  optimizations  \* optimization_id_counter_

vars == <<phase, request, candidates, best, optimizations>>

Candidate(design, terrain) == [design |-> design, terrain |-> terrain]
None == <<>>

Init ==
  /\ phase = "idle"
  /\ request = [terrain |-> "FLAT", baseline |-> "FLAT"]
  /\ candidates = <<>> /\ best = None
  /\ optimizations = 0

\* A request for flat ground says nothing: the other terrain counts.
Resolved(asked, other) == IF asked = "FLAT" THEN other ELSE asked
Terrain == Resolved(request.terrain, request.baseline)

\* evaluate_formation, the score anyone may ask for.
Evaluate(c) == Merit(Resolved(request.terrain, c.terrain), c.design)

BeginOptimize ==
  /\ phase = "idle" /\ optimizations < MaxOptimizations
  /\ optimizations' = optimizations + 1
  /\ request' \in [terrain : Terrains, baseline : Terrains]
  /\ candidates' = [i \in DOMAIN Types |-> Candidate([type |-> Types[i], shape |-> Template], Terrain')]
  /\ best' = None
  /\ phase' = "drawing"

\* Mutant: the terrain is left at its default.
DrawnFlat(d) == Candidate(d, "FLAT")
Drawn(d) == Candidate(d, Terrain)

\* A draw close to a candidate is thrown away.
DrawCandidate ==
  /\ phase = "drawing" /\ Len(candidates) < Target
  /\ \E d \in Designs :
       /\ \A i \in DOMAIN candidates : candidates[i].design # d
       /\ candidates' = Append(candidates, Drawn(d))
  /\ UNCHANGED <<phase, request, best, optimizations>>

\* optimize scores on its own, by the request's terrain.
Score(c) == Merit(Terrain, c.design)
FirstBest ==
  CHOOSE i \in DOMAIN candidates :
    /\ \A j \in DOMAIN candidates : Score(candidates[j]) <= Score(candidates[i])
    /\ \A j \in 1 .. i - 1 : Score(candidates[j]) < Score(candidates[i])

Choose ==
  /\ phase = "drawing" /\ Len(candidates) >= Target
  /\ best' = <<Candidate(candidates[FirstBest].design, Terrain)>>
  /\ phase' = "idle"
  /\ UNCHANGED <<request, candidates, optimizations>>

Next == BeginOptimize \/ DrawCandidate \/ Choose

Spec == Init /\ [][Next]_vars

-----------------------------------------------------------------------------
TypeOK ==
  /\ phase \in {"idle", "drawing"}
  /\ request \in [terrain : Terrains, baseline : Terrains]
  /\ \A i \in DOMAIN candidates : candidates[i] \in [design : Designs, terrain : Terrains]
  /\ best = None \/ best[1] \in [design : Designs, terrain : Terrains]
  /\ optimizations \in 0 .. MaxOptimizations

\* optimize scores candidates by the terrain of request and baseline, and
\* evaluate_formation by that of request and candidate, in code of its own:
\* no candidate a result lists is better than its best by evaluate_formation,
\* and the best is one of them.
BestUnderBoth ==
  best # None =>
    /\ \E i \in DOMAIN candidates : candidates[i] = best[1]
    /\ \A i \in DOMAIN candidates : Evaluate(candidates[i]) <= Evaluate(best[1])

=============================================================================
