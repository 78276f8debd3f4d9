-------------------------- MODULE VehicleComparison --------------------------
(***************************************************************************)
(* VehicleComparator and EraComparator: vehicles of the configuration are  *)
(* hit by one rock, scored, ranked, and summed up by era.  Scores are      *)
(* percentages; the weighted sum of three of them is kept tenfold.  What a *)
(* simulation makes of a vehicle is one of a few percentages, the same     *)
(* each time: PlasticityPool shows that a call gets the result of its own  *)
(* task, and the calculation has no other input than rock and vehicle.     *)
(***************************************************************************)
EXTENDS Integers, Selection, SequencesExt, FiniteSetsExt

CONSTANTS
  Profile,        \* vehicles of the configuration, by id
  Milestones,     \* years of the milestones of the timeline
  Percentages,    \* what a simulation may make of a vehicle with a roof
  Asked,          \* lists of ids a client may send, unknown ones among them
  MaxComparisons  \* bound of the model: runs of compare_vehicles

Fleet == DOMAIN Profile
Era == {"ancient", "modern"}

\* What the constants have to be; Analysis assumes it.
ComparisonAssumption ==
  /\ IsFiniteSet(Fleet)
  /\ Profile \in [Fleet -> [era : Era, year : Int, weight : Nat \ {0}, cost : Nat \ {0},
                            roof : Nat, rha : Nat, speed : Nat, stanag : Nat]]
  /\ Milestones \subseteq Int
  /\ Percentages \subseteq 0 .. 100
  /\ \A ids \in Asked : Len(ids) \in Nat /\ DOMAIN ids = 1 .. Len(ids)
  /\ MaxComparisons \in Nat

VARIABLES
  absorbed,       \* what the simulation makes of each vehicle
  comparisons,    \* comparisons_run_, and the last comparison_id
  eraComparisons, \* era_comparisons_run_
  compared,       \* the last ranking of VehicleComparator
  crossEra,       \* the last answer of EraComparator::compare_cross_era
  full,           \* the last answer of compare_full
  timeline        \* the last answer of build_protection_timeline

vars == <<absorbed, comparisons, eraComparisons, compared, crossEra, full, timeline>>

NoAnswer == <<>>

Init ==
  /\ absorbed \in [Fleet -> Percentages]
  /\ comparisons = 0 /\ eraComparisons = 0
  /\ compared = NoAnswer /\ crossEra = NoAnswer /\ full = NoAnswer /\ timeline = NoAnswer

-----------------------------------------------------------------------------
(* Scores and rankings                                                     *)

AtMost100(n) == Min({100, n})
Efficiency == [v \in Fleet |-> IF Profile[v].roof = 0 THEN 0 ELSE absorbed[v]]
WeightScore == [v \in Fleet |-> AtMost100((2 * Efficiency[v]) \div Profile[v].weight)]
CostScore == [v \in Fleet |-> AtMost100(500 \div Profile[v].cost)]
Overall == [v \in Fleet |-> 5 * Efficiency[v] + 3 * WeightScore[v] + 2 * CostScore[v]]

Known(ids) == Selected(ids, {i \in DOMAIN ids : ids[i] \in Fleet})

\* std::sort is not stable: equal scores may come out in any order.
Descending(s) == \A i, j \in DOMAIN s : i < j => Overall[s[i]] >= Overall[s[j]]
Arranged(s) == {[i \in DOMAIN s |-> s[p[i]]] : p \in Bijection(DOMAIN s, DOMAIN s)}
Rankings(ids) == {r \in Arranged(Known(ids)) : Descending(r)}

\* Those of one year may come out in any order here, too.
ByYear(s) == \A i, j \in DOMAIN s : i < j => Profile[s[i]].year <= Profile[s[j]].year
ListAll == {s \in Arranged(SetToSeq(Fleet)) : ByYear(s)}
ListEra(era) == SetToSeq({v \in Fleet : Profile[v].era = era})

OfEra(ranking, era) == Selected(ranking, {i \in DOMAIN ranking : Profile[ranking[i]].era = era})
Best(ranking) == IF ranking = <<>> THEN <<>> ELSE <<Head(ranking)>>

-----------------------------------------------------------------------------
(* calculate_era_gap: a factor is a fraction, zero where the code says so  *)

Over(a, b) == IF b = 0 THEN <<0, 1>> ELSE <<a, b>>
Times(v, ranking) == Cardinality({i \in DOMAIN ranking : ranking[i] = v})
Total(f) == FoldFunction(+, 0, f)
SumOver(f, ranking) == Total([v \in Fleet |-> Times(v, ranking) * f[v]])
MaxOver(f, ranking) == Max({0} \union {f[ranking[i]] : i \in DOMAIN ranking})
Weight == [v \in Fleet |-> Profile[v].weight]
Speed == [v \in Fleet |-> Profile[v].speed]
Armour == [v \in Fleet |-> Profile[v].rha]
Roof == [v \in Fleet |-> Profile[v].roof]
Stanag == [v \in Fleet |-> Profile[v].stanag]
Years(ranking) == {Profile[ranking[i]].year : i \in DOMAIN ranking}

TechnologyGap(ancient, modern) ==
  IF ancient = <<>> \/ modern = <<>> THEN 2500 ELSE Min(Years(modern)) - Max(Years(ancient))

EraGap(ancient, modern) ==
  [protection |-> Over(SumOver(Overall, modern) * Len(ancient), SumOver(Overall, ancient) * Len(modern)),
   weight |-> Over(SumOver(Efficiency, modern) * SumOver(Weight, ancient),
                   SumOver(Efficiency, ancient) * SumOver(Weight, modern)),
   cost |-> Over(SumOver(CostScore, ancient) * Len(modern), SumOver(CostScore, modern) * Len(ancient)),
   speed |-> Over(MaxOver(Speed, modern), MaxOver(Speed, ancient)),
   years |-> TechnologyGap(ancient, modern),
   stanag |-> MaxOver(Stanag, modern),
   armour |-> Over(MaxOver(Armour, modern), Max({MaxOver(Armour, ancient), MaxOver(Roof, ancient)}))]

EraAnswer(ranking, ancient, modern) ==
  <<[ranking |-> ranking, ancient |-> ancient, modern |-> modern,
     gap |-> EraGap(ancient, modern), best |-> Best(ranking)]>>

-----------------------------------------------------------------------------
(* Operations                                                              *)

Runs(n) ==
  /\ comparisons + n <= MaxComparisons
  /\ comparisons' = comparisons + n

CompareVehicles ==
  /\ Runs(1)
  /\ \E ids \in Asked : \E r \in Rankings(ids) : compared' = r
  /\ UNCHANGED <<absorbed, eraComparisons, crossEra, full, timeline>>

CompareAncient ==
  /\ Runs(1)
  /\ compared' \in Rankings(ListEra("ancient"))
  /\ UNCHANGED <<absorbed, eraComparisons, crossEra, full, timeline>>

CompareCrossEra ==
  /\ Runs(1)
  /\ \E all \in ListAll : compared' \in Rankings(all)
  /\ UNCHANGED <<absorbed, eraComparisons, crossEra, full, timeline>>

\* EraComparator::compare_cross_era: three comparisons, ranked one by one.
EraCompareCrossEra ==
  /\ Runs(3) /\ eraComparisons' = eraComparisons + 1
  /\ \E all \in ListAll : \E ranking \in Rankings(all) :
       \E ancient \in Rankings(ListEra("ancient")), modern \in Rankings(ListEra("modern")) :
         crossEra' = EraAnswer(ranking, ancient, modern)
  /\ UNCHANGED <<absorbed, compared, full, timeline>>

\* Mutant: an id that is in the list already is added again.
WithTwice(ids, extra) == ids \o Known(extra)

\* Ids asked for besides the fleet: known ones that are not in the list yet.
With(ids, extra) ==
  ids \o Selected(extra, {i \in DOMAIN extra : /\ extra[i] \in Fleet
                                             /\ extra[i] \notin ToSet(ids)
                                             /\ \A j \in 1 .. i - 1 : extra[j] # extra[i]})

\* compare_full: one comparison, whose ranking is then parted by era.
EraCompareFull ==
  /\ Runs(1) /\ eraComparisons' = eraComparisons + 1
  /\ \E all \in ListAll, extra \in Asked : \E ranking \in Rankings(With(all, extra)) :
       full' = EraAnswer(ranking, OfEra(ranking, "ancient"), OfEra(ranking, "modern"))
  /\ UNCHANGED <<absorbed, compared, crossEra, timeline>>

Reached(v) == {y \in Milestones : y <= Profile[v].year}
Entry(v) ==
  [vehicle |-> v, year |-> Profile[v].year, protection |-> Efficiency[v],
   milestone |-> IF Reached(v) = {} THEN <<>> ELSE <<Max(Reached(v))>>]

BuildTimeline ==
  /\ Runs(Cardinality(Fleet))
  /\ \E all \in ListAll : timeline' = [i \in DOMAIN all |-> Entry(all[i])]
  /\ UNCHANGED <<absorbed, eraComparisons, compared, crossEra, full>>

Next ==
  \/ CompareVehicles \/ CompareAncient \/ CompareCrossEra
  \/ EraCompareCrossEra \/ EraCompareFull \/ BuildTimeline

Spec == Init /\ [][Next]_vars

-----------------------------------------------------------------------------
TypeOK ==
  /\ absorbed \in [Fleet -> Percentages]
  /\ comparisons \in 0 .. MaxComparisons /\ eraComparisons \in 0 .. comparisons
  /\ compared \in Seq(Fleet)
  /\ \A answer \in {crossEra, full} \ {NoAnswer} :
       answer[1].ranking \in Seq(Fleet) /\ answer[1].gap.stanag \in Nat
  /\ \A i \in DOMAIN timeline : timeline[i].vehicle \in Fleet

\* compare_cross_era ranks each era in a comparison of its own, compare_full
\* parts one ranking and may be asked for vehicles it has: for one rock both
\* tell the same gap between the eras, and the best of all scores no more and
\* no less than the better of the two eras' best.
BestScore(ranking) == IF ranking = <<>> THEN 0 ELSE Overall[ranking[1]]
SummariesAgree ==
  /\ crossEra # NoAnswer /\ full # NoAnswer =>
       /\ crossEra[1].gap = full[1].gap
       /\ BestScore(crossEra[1].best) = BestScore(full[1].best)
  /\ \A answer \in {crossEra, full} \ {NoAnswer} :
       BestScore(answer[1].best) =
         Max({BestScore(answer[1].ancient), BestScore(answer[1].modern)})

=============================================================================
