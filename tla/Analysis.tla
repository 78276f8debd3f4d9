------------------------------- MODULE Analysis -------------------------------
(***************************************************************************)
(* The components that analyse on request.  They share no state and one    *)
(* thread calls them, so that a behaviour has requests for one of them     *)
(* only, its subject: all their own behaviours are there, and their states *)
(* add up instead of multiplying.                                          *)
(***************************************************************************)
EXTENDS Integers, Sequences, FiniteSets

CONSTANTS
  Profile, Milestones, Percentages, Asked, MaxComparisons,        \* of VehicleComparison
  Shapes, Template, Terrains, Merit(_, _), Target, MaxOptimizations, \* of Formation
  DefaultGroup, DefaultExperts, ExpertCounts, MaxTime,            \* of Evaluation
  Names, System, Materials, Ahp, Vehicles, Bodies, UIntSize, Now  \* of Intake

VARIABLES
  subject,
  absorbed, comparisons, eraComparisons, compared, crossEra, full, timeline,
  phase, request, candidates, best, optimizations,
  time, grouped, expertCount, experts, report, call, asked, answer, judged,
  main, config, posted, read, queued, reply

comparisonVars == <<absorbed, comparisons, eraComparisons, compared, crossEra, full, timeline>>
formationVars == <<phase, request, candidates, best, optimizations>>
evaluationVars == <<time, grouped, expertCount, experts, report, call, asked, answer, judged>>
intakeVars == <<main, config, posted, read, queued, reply>>
vars == <<subject, comparisonVars, formationVars, evaluationVars, intakeVars>>

Comparison == INSTANCE VehicleComparison
Search == INSTANCE Formation
Judging == INSTANCE Evaluation
Taking == INSTANCE Intake
Alarms == INSTANCE AlarmRules

\* The constants are as the modules want them.
ASSUME ConstantsFit ==
  /\ Comparison!ComparisonAssumption
  /\ Search!FormationAssumption
  /\ Judging!EvaluationAssumption
  /\ Taking!IntakeAssumption

-----------------------------------------------------------------------------
Init ==
  /\ subject \in {"comparison", "formation", "evaluation", "intake"}
  /\ IF subject = "comparison"
       THEN Comparison!Init
       ELSE /\ absorbed = <<>> /\ comparisons = 0 /\ eraComparisons = 0
            /\ compared = <<>> /\ crossEra = <<>> /\ full = <<>> /\ timeline = <<>>
  /\ Search!Init /\ Judging!Init /\ Taking!Init

Next ==
  \/ /\ subject = "comparison" /\ Comparison!Next
     /\ UNCHANGED <<subject, formationVars, evaluationVars, intakeVars>>
  \/ /\ subject = "formation" /\ Search!Next
     /\ UNCHANGED <<subject, comparisonVars, evaluationVars, intakeVars>>
  \/ /\ subject = "evaluation" /\ Judging!Next
     /\ UNCHANGED <<subject, comparisonVars, formationVars, intakeVars>>
  \/ /\ subject = "intake" /\ Taking!Next
     /\ UNCHANGED <<subject, comparisonVars, formationVars, evaluationVars>>

Spec == Init /\ [][Next]_vars

-----------------------------------------------------------------------------
\* The types of the subject's variables.
TypeOK ==
  /\ subject = "comparison" => Comparison!TypeOK
  /\ Search!TypeOK /\ Judging!TypeOK /\ Taking!TypeOK

\* Both ways EraComparator compares the eras tell the same (see VehicleComparison).
SummariesAgree == subject = "comparison" => Comparison!SummariesAgree

\* The best formation is so by both scorings (see Formation).
BestUnderBoth == Search!BestUnderBoth

\* An answer about evaluations is of one piece (see Evaluation).
AnswerIsOneJudgement == Judging!AnswerIsOneJudgement

\* A text that was cut off is read up to its cut, and what is queued is of a
\* material of its own (see Intake).
NothingMadeUp == Taking!NothingMadeUp

=============================================================================
