------------------------------ MODULE Evaluation ------------------------------
(***************************************************************************)
(* ProtectionOptimizer as its HTTP routes use it: POST /api/evaluate sets  *)
(* the group decision up, evaluates, and then asks the optimizer three     *)
(* times more for what it shows beside the scores; GET /api/ahp/weights    *)
(* asks twice.  Each call is a step.  A judgement is what the weights of   *)
(* the criteria come from: the reference matrix of the configuration, or   *)
(* the experts drawn at some time.                                         *)
(*                                                                         *)
(* Nothing pushes to the optimizer's input queue, so that its worker never *)
(* evaluates and the HTTP thread is alone here.                            *)
(***************************************************************************)
EXTENDS Integers

CONSTANTS
  DefaultGroup,   \* group_decision.enabled of ahp_weights.json
  DefaultExperts, \* group_decision.default_expert_count
  ExpertCounts,   \* expert counts a client may ask for
  MaxTime         \* bound of the model: seconds that pass

\* What the constants have to be; Analysis assumes it.
EvaluationAssumption ==
  /\ DefaultGroup \in BOOLEAN /\ DefaultExperts \in Nat
  /\ ExpertCounts \subseteq Int
  /\ MaxTime \in Nat

VARIABLES
  time,         \* external: std::time, which seeds the experts
  grouped,      \* group_decision_enabled_
  expertCount,  \* expert_count_
  experts,      \* cached_experts_: when they were drawn, and how many
  report,       \* cached_group_result_: the judgement it tells of
  call,         \* the call the HTTP thread makes next
  asked,        \* enable_group_decision and expert_count of the request
  answer,       \* what the answer shows so far, a judgement each
  judged        \* history: the judgement of the last evaluation

vars == <<time, grouped, expertCount, experts, report, call, asked, answer, judged>>

Reference == [kind |-> "reference"]
Experts(t, n) == [kind |-> "experts", drawn |-> t, size |-> n]
Nobody == [kind |-> "none"]

Asks(group, n) == [group |-> group, count |-> n]
Shown(scores, cr, rep, weights) ==
  [scores |-> scores, cr |-> cr, report |-> rep, weights |-> weights]
Blank == Shown(Nobody, Nobody, Nobody, Nobody)

-----------------------------------------------------------------------------
(* get_criteria_weights                                                    *)

ByGroup == grouped /\ expertCount > 1

\* The experts it judges by: those of the cache, or new ones if it is empty.
Consulted == IF experts = Nobody THEN Experts(time, expertCount) ELSE experts
Judgement == IF ByGroup THEN Consulted ELSE Reference

\* It fills the cache and the report when the group decides.
Judge ==
  /\ experts' = IF ByGroup THEN Consulted ELSE experts
  /\ report' = IF ByGroup THEN Consulted ELSE report

Init ==
  /\ time = 0
  /\ grouped = DefaultGroup /\ expertCount = DefaultExperts
  /\ LET first == IF grouped /\ expertCount > 1 THEN Experts(0, expertCount) ELSE Nobody
     IN  /\ experts = first /\ report = first
         /\ judged = IF first = Nobody THEN Reference ELSE first
  /\ call = "none" /\ asked = Asks(FALSE, 0) /\ answer = Blank

-----------------------------------------------------------------------------
(* POST /api/evaluate                                                      *)

GroupAsked(a) == a.group /\ a.count > 1
\* Mutant: no upper bound.
ClampedBelow(n) == IF n < 1 THEN 1 ELSE n
Clamped(n) == IF n < 1 THEN 1 ELSE IF n > 10 THEN 10 ELSE n

Configure(a) ==
  /\ grouped' = GroupAsked(a)
  /\ expertCount' = IF GroupAsked(a) THEN Clamped(a.count) ELSE expertCount

BeginEvaluate ==
  /\ call = "none"
  /\ \E group \in BOOLEAN, n \in ExpertCounts :
       asked' = Asks(group, n) /\ Configure(Asks(group, n))
  /\ answer' = Blank
  /\ call' = "generate"
  /\ UNCHANGED <<time, experts, report, judged>>

\* Mutant: experts once drawn are kept.
GenerateOnce ==
  /\ call = "generate"
  /\ Configure(asked)
  /\ experts' = IF GroupAsked(asked) /\ experts = Nobody THEN Experts(time, asked.count) ELSE experts
  /\ call' = "score"
  /\ UNCHANGED <<time, report, asked, answer, judged>>

\* evaluate_all: the settings again, and experts as many as were asked for.
Generate ==
  /\ call = "generate"
  /\ Configure(asked)
  /\ experts' = IF GroupAsked(asked) THEN Experts(time, asked.count) ELSE experts
  /\ call' = "score"
  /\ UNCHANGED <<time, report, asked, answer, judged>>

Score ==
  /\ call = "score"
  /\ Judge
  /\ answer' = [answer EXCEPT !.scores = Judgement]
  /\ judged' = Judgement
  /\ call' = "own ratio"
  /\ UNCHANGED <<time, grouped, expertCount, asked>>

\* evaluate_all ends with get_consistency_ratio, for current_cr_.
OwnRatio ==
  /\ call = "own ratio"
  /\ Judge
  /\ call' = "ratio"
  /\ UNCHANGED <<time, grouped, expertCount, asked, answer, judged>>

\* get_consistency_ratio: that of the report where the group decides.
Ratio ==
  /\ call = "ratio"
  /\ Judge
  /\ answer' = [answer EXCEPT !.cr = IF ByGroup THEN report' ELSE Reference]
  /\ call' = IF GroupAsked(asked) THEN "report" ELSE "weights"
  /\ UNCHANGED <<time, grouped, expertCount, asked, judged>>

Report ==
  /\ call = "report"
  /\ answer' = [answer EXCEPT !.report = report]
  /\ call' = "weights"
  /\ UNCHANGED <<time, grouped, expertCount, experts, report, asked, judged>>

Weights ==
  /\ call = "weights"
  /\ Judge
  /\ answer' = [answer EXCEPT !.weights = Judgement]
  /\ call' = "evaluated"
  /\ UNCHANGED <<time, grouped, expertCount, asked, judged>>

-----------------------------------------------------------------------------
(* GET /api/ahp/weights: the settings stay as the last evaluation left them *)

BeginWeights ==
  /\ call = "none"
  /\ Judge
  /\ answer' = [Blank EXCEPT !.weights = Judgement]
  /\ call' = "shown ratio"
  /\ UNCHANGED <<time, grouped, expertCount, asked, judged>>

ShownRatio ==
  /\ call = "shown ratio"
  /\ Judge
  /\ answer' = [answer EXCEPT !.cr = IF ByGroup THEN report' ELSE Reference]
  /\ call' = "shown"
  /\ UNCHANGED <<time, grouped, expertCount, asked, judged>>

Answered ==
  /\ call \in {"evaluated", "shown"}
  /\ call' = "none"
  /\ UNCHANGED <<time, grouped, expertCount, experts, report, asked, answer, judged>>

TimePasses ==
  /\ time < MaxTime
  /\ time' = time + 1
  /\ UNCHANGED <<grouped, expertCount, experts, report, call, asked, answer, judged>>

Next ==
  \/ BeginEvaluate \/ Generate \/ Score \/ OwnRatio \/ Ratio \/ Report \/ Weights
  \/ BeginWeights \/ ShownRatio \/ Answered \/ TimePasses

Spec == Init /\ [][Next]_vars

-----------------------------------------------------------------------------
Counts == 1 .. 10 \union {DefaultExperts}
Judgements == {Nobody, Reference} \union {Experts(t, n) : t \in 0 .. MaxTime, n \in ExpertCounts \union Counts}

TypeOK ==
  /\ time \in 0 .. MaxTime
  /\ grouped \in BOOLEAN /\ expertCount \in Counts
  /\ experts \in Judgements /\ report \in Judgements
  /\ asked \in [group : BOOLEAN, count : ExpertCounts \union {0}]
  /\ judged \in Judgements
  /\ answer \in [scores : Judgements, cr : Judgements, report : Judgements, weights : Judgements]

\* Scores, consistency ratio, report and weights of an answer come from four
\* calls that judge anew, over a cache and settings that outlive requests and
\* while the clock that seeds the experts goes on: all show one judgement,
\* with the experts the request asked for; and weights asked for afterwards
\* show that of the last evaluation still.
AnswerIsOneJudgement ==
  /\ call = "evaluated" =>
       /\ answer.cr = answer.scores /\ answer.weights = answer.scores
       /\ IF GroupAsked(asked)
            THEN answer.report = answer.scores /\ answer.scores.size = asked.count
            ELSE answer.scores = Reference
  /\ call = "shown" =>
       /\ answer.cr = answer.weights
       /\ answer.weights = judged

=============================================================================
