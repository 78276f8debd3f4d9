---------------------------- MODULE AnalysisProofs ----------------------------
(***************************************************************************)
(* Proofs about Analysis, for any constants that fit.                      *)
(***************************************************************************)
EXTENDS Analysis, FiniteSetTheorems, WellFoundedInduction, TLAPS

(***************************************************************************)
(* A step of Analysis is one of a component or leaves its variables alone. *)
(***************************************************************************)
LEMMA StepsOfComponents ==
  ASSUME [Next]_vars
  PROVE  /\ subject' = subject
         /\ [Comparison!Next]_comparisonVars
         /\ [Search!Next]_formationVars
         /\ [Judging!Next]_evaluationVars
         /\ [Taking!Next]_intakeVars
BY DEF Next, vars

-----------------------------------------------------------------------------
(* Numbers and the places of vectors                                       *)

\* A set of naturals has a least one.
LEMMA LeastOf ==
  ASSUME NEW T, T \subseteq Nat, T # {}
  PROVE  \E x \in T : \A y \in T : x <= y
<1>1. PICK x \in T : \A y \in T : ~(<<y, x>> \in OpToRel(<, Nat))
  BY NatLessThanWellFounded, WFMin
<1>2. \A y \in T : ~(y < x)
  BY <1>1 DEF OpToRel
<1> QED  BY <1>2

\* Among the scores of a vector that is not empty there is a greatest one.
LEMMA MaximumThere ==
  ASSUME NEW n \in Nat \ {0}, NEW s \in [1 .. n -> Int]
  PROVE  \E i \in 1 .. n : \A j \in 1 .. n : s[j] <= s[i]
<1> DEFINE Top(k) == \E i \in 1 .. k : \A j \in 1 .. k : s[j] <= s[i]
           Bad == {k \in 1 .. n : ~Top(k)}
<1>1. SUFFICES ASSUME ~Top(n)  PROVE FALSE
  OBVIOUS
<1>2. \E k \in Bad : \A l \in Bad : k <= l
  <2>1. n \in Bad /\ Bad \subseteq Nat
    BY <1>1
  <2> HIDE DEF Bad
  <2> QED  BY <2>1, LeastOf
<1>3. PICK k \in 1 .. n : ~Top(k) /\ \A l \in 1 .. n : ~Top(l) => k <= l
  BY <1>2
<1>4. k # 1
  BY <1>3
<1>5. k - 1 \in 1 .. n /\ Top(k - 1)
  <2>1. k - 1 \in 1 .. n /\ ~(k <= k - 1)
    BY <1>3, <1>4
  <2> QED  BY <1>3, <2>1
<1>6. PICK i \in 1 .. k - 1 : \A j \in 1 .. k - 1 : s[j] <= s[i]
  BY <1>5
<1>7. i \in 1 .. k /\ s[i] \in Int /\ s[k] \in Int /\ \A j \in 1 .. k : j \in 1 .. k - 1 \/ j = k
  BY <1>3
<1>8. CASE s[k] <= s[i]
  BY <1>3, <1>6, <1>7, <1>8
<1>9. CASE s[i] < s[k]
  <2>1. \A j \in 1 .. k - 1 : s[j] \in Int
    BY <1>3
  <2>2. \A j \in 1 .. k : s[j] <= s[k]
    BY <1>6, <1>7, <1>9, <2>1
  <2> QED  BY <1>3, <1>7, <2>2
<1> QED  BY <1>7, <1>8, <1>9

\* And a first one of these.
LEMMA FirstMaximumThere ==
  ASSUME NEW n \in Nat \ {0}, NEW s \in [1 .. n -> Int]
  PROVE  \E i \in 1 .. n : /\ \A j \in 1 .. n : s[j] <= s[i]
                           /\ \A j \in 1 .. i - 1 : s[j] < s[i]
<1> DEFINE Best == {i \in 1 .. n : \A j \in 1 .. n : s[j] <= s[i]}
<1>1. Best # {} /\ Best \subseteq Nat
  <2>1. PICK i \in 1 .. n : \A j \in 1 .. n : s[j] <= s[i]
    BY MaximumThere
  <2>2. \A k \in 1 .. n : k \in Nat
    OBVIOUS
  <2> QED  BY <2>1, <2>2
<1>2. PICK i \in Best : \A l \in Best : i <= l
  <2> HIDE DEF Best
  <2> QED  BY <1>1, LeastOf
<1>3. i \in 1 .. n /\ \A j \in 1 .. n : s[j] <= s[i]
  OBVIOUS
<1>4. ASSUME NEW j \in 1 .. i - 1  PROVE s[j] < s[i]
  <2>1. j \in 1 .. n /\ j \notin Best
    BY <1>2, <1>3
  <2>2. PICK l \in 1 .. n : ~(s[l] <= s[j])
    BY <2>1
  <2>3. s[l] \in Int /\ s[j] \in Int /\ s[i] \in Int /\ s[l] <= s[i]
    BY <1>3, <2>1, <2>2
  <2> QED  BY <2>2, <2>3
<1> QED  BY <1>3, <1>4

-----------------------------------------------------------------------------
(* ProtectionOptimizer: settings, experts and report outlive a request     *)

\* The calls of an evaluation, and those that are left after one of them.
EvaluationCalls == {"generate", "score", "own ratio", "ratio", "report", "weights", "evaluated"}
AfterGenerate == EvaluationCalls \ {"generate"}
AfterScore == AfterGenerate \ {"score"}
AfterRatio == {"report", "weights", "evaluated"}
Calls == EvaluationCalls \union {"none", "shown ratio", "shown"}

\* The settings are those the request asked for.
Configured ==
  /\ grouped = Judging!GroupAsked(asked)
  /\ grouped => expertCount = Judging!Clamped(asked.count)

\* Nobody has to be drawn to judge again, and the last evaluation judged so.
Settled ==
  /\ Judging!ByGroup => experts # Judging!Nobody /\ report = experts
  /\ judged = Judging!Judgement

\* What is known between any two calls of a request, and between requests.
JudgementKept ==
  /\ call \in Calls
  /\ call \in EvaluationCalls => Configured
  /\ call \in AfterGenerate /\ grouped => experts # Judging!Nobody /\ experts.size = asked.count
  /\ call \notin {"generate", "score"} => Settled
  /\ call \in AfterScore => answer.scores = Judging!Judgement
  /\ call \in AfterRatio \union {"shown"} => answer.cr = Judging!Judgement
  /\ call \in {"weights", "evaluated"} /\ grouped => answer.report = Judging!Judgement
  /\ call \in {"evaluated", "shown ratio", "shown"} => answer.weights = Judging!Judgement

JInv == Judging!TypeOK /\ JudgementKept

\* What a request may ask for.
LEMMA AskedCounts ==
  ASSUME NEW a \in [group : BOOLEAN, count : ExpertCounts \union {0}]
  PROVE  a.count \in Int /\ a.group \in BOOLEAN /\ (Judging!GroupAsked(a) => a.count \in ExpertCounts)
<1>1. \A n \in ExpertCounts \union {0} : n \in Int
  BY ConstantsFit DEF Judging!EvaluationAssumption
<1>2. a.count \in ExpertCounts \union {0} /\ a.group \in BOOLEAN
  OBVIOUS
<1>3. a.count \in Int
  BY <1>1, <1>2
<1> QED  BY <1>2, <1>3 DEF Judging!GroupAsked

\* A count that is clamped is in range, and still more than one if it was.
LEMMA ClampedFits ==
  ASSUME NEW n \in Int
  PROVE  Judging!Clamped(n) \in 1 .. 10 /\ (Judging!Clamped(n) > 1 <=> n > 1)
BY DEF Judging!Clamped

\* Experts, the reference matrix and nobody are three different things.
LEMMA Somebody ==
  /\ Judging!Reference # Judging!Nobody
  /\ \A t, n : /\ Judging!Experts(t, n) # Judging!Nobody
               /\ Judging!Experts(t, n).size = n
<1>1. Judging!Reference.kind # Judging!Nobody.kind
  BY DEF Judging!Reference, Judging!Nobody
<1>2. ASSUME NEW t, NEW n
      PROVE  Judging!Experts(t, n).kind # Judging!Nobody.kind /\ Judging!Experts(t, n).size = n
  BY DEF Judging!Experts, Judging!Nobody
<1> QED  BY <1>1, <1>2

\* Experts drawn now, in the number of the settings or of a request, are among
\* the judgements there may be.
LEMMA JudgementsHold ==
  ASSUME Judging!TypeOK
  PROVE  /\ Judging!Consulted \in Judging!Judgements
         /\ Judging!Judgement \in Judging!Judgements
         /\ \A n \in ExpertCounts : Judging!Experts(time, n) \in Judging!Judgements
         /\ Judging!Nobody \in Judging!Judgements
<1>1. time \in 0 .. MaxTime /\ expertCount \in Judging!Counts /\ experts \in Judging!Judgements
  BY DEF Judging!TypeOK
<1>2. /\ \A t \in 0 .. MaxTime, n \in ExpertCounts \union Judging!Counts :
            Judging!Experts(t, n) \in Judging!Judgements
      /\ Judging!Nobody \in Judging!Judgements /\ Judging!Reference \in Judging!Judgements
  BY DEF Judging!Judgements
<1>3. Judging!Consulted \in Judging!Judgements
  BY <1>1, <1>2 DEF Judging!Consulted
<1> QED  BY <1>1, <1>2, <1>3 DEF Judging!Judgement

LEMMA JInvInit == Init => JInv
<1> SUFFICES ASSUME Judging!Init  PROVE JInv
  BY DEF Init
<1> USE DEF Judging!Init
<1>1. MaxTime \in Nat /\ DefaultGroup \in BOOLEAN /\ DefaultExperts \in Nat
  BY ConstantsFit DEF Judging!EvaluationAssumption
<1>2. time \in 0 .. MaxTime /\ DefaultExperts \in Judging!Counts
  BY <1>1 DEF Judging!Counts
<1>3. /\ \A n \in Judging!Counts : Judging!Experts(0, n) \in Judging!Judgements
      /\ Judging!Nobody \in Judging!Judgements /\ Judging!Reference \in Judging!Judgements
  BY <1>1 DEF Judging!Judgements
<1>4. experts \in Judging!Judgements /\ report \in Judging!Judgements /\ judged \in Judging!Judgements
  BY <1>2, <1>3
<1>5. asked \in [group : BOOLEAN, count : ExpertCounts \union {0}]
  BY DEF Judging!Asks
<1>6. answer \in [scores : Judging!Judgements, cr : Judging!Judgements,
                  report : Judging!Judgements, weights : Judging!Judgements]
  BY <1>3 DEF Judging!Blank, Judging!Shown
<1>7. Judging!TypeOK
  BY <1>1, <1>2, <1>4, <1>5, <1>6 DEF Judging!TypeOK
<1>8. Settled
  BY Somebody DEF Settled, Judging!ByGroup, Judging!Judgement, Judging!Consulted
<1> QED  BY <1>7, <1>8 DEF JInv, JudgementKept, Calls, EvaluationCalls, AfterGenerate, AfterScore, AfterRatio

-----------------------------------------------------------------------------
\* Types: what each call may set.
LEMMA JudgingTypesStep == Judging!TypeOK /\ [Judging!Next]_evaluationVars => Judging!TypeOK'
<1> SUFFICES ASSUME Judging!TypeOK, [Judging!Next]_evaluationVars  PROVE Judging!TypeOK'
  OBVIOUS
<1> DEFINE Js == Judging!Judgements
<1>1. /\ time \in 0 .. MaxTime /\ grouped \in BOOLEAN /\ expertCount \in Judging!Counts
      /\ experts \in Js /\ report \in Js /\ judged \in Js
      /\ asked \in [group : BOOLEAN, count : ExpertCounts \union {0}]
      /\ answer \in [scores : Js, cr : Js, report : Js, weights : Js]
  BY DEF Judging!TypeOK
<1>2. /\ Judging!Consulted \in Js /\ Judging!Judgement \in Js /\ Judging!Nobody \in Js
      /\ \A n \in ExpertCounts : Judging!Experts(time, n) \in Js
      /\ Judging!Reference \in Js
  BY JudgementsHold DEF Judging!Judgements
<1>3. MaxTime \in Nat /\ ExpertCounts \subseteq Int
  BY ConstantsFit DEF Judging!EvaluationAssumption
<1>4. ASSUME Judging!Judge  PROVE experts' \in Js /\ report' \in Js
  BY <1>1, <1>2, <1>4 DEF Judging!Judge
<1>5. ASSUME NEW a \in [group : BOOLEAN, count : ExpertCounts \union {0}], Judging!Configure(a)
      PROVE  grouped' \in BOOLEAN /\ expertCount' \in Judging!Counts
  <2>1. a.count \in Int /\ a.group \in BOOLEAN
    BY AskedCounts
  <2>2. Judging!Clamped(a.count) \in Judging!Counts
    BY <2>1, ClampedFits DEF Judging!Counts
  <2>3. Judging!GroupAsked(a) \in BOOLEAN
    BY <2>1 DEF Judging!GroupAsked
  <2> QED  BY <1>1, <1>5, <2>2, <2>3 DEF Judging!Configure
<1> DEFINE Typed(t, g, n, e, r, a, j, w) ==
             /\ t \in 0 .. MaxTime /\ g \in BOOLEAN /\ n \in Judging!Counts
             /\ e \in Js /\ r \in Js /\ j \in Js
             /\ a \in [group : BOOLEAN, count : ExpertCounts \union {0}]
             /\ w \in [scores : Js, cr : Js, report : Js, weights : Js]
<1> SUFFICES Typed(time', grouped', expertCount', experts', report', asked', judged', answer')
  BY DEF Judging!TypeOK
<1> HIDE DEF Js
<1>6. CASE Judging!BeginEvaluate
  <2>1. PICK group \in BOOLEAN, n \in ExpertCounts :
          asked' = Judging!Asks(group, n) /\ Judging!Configure(Judging!Asks(group, n))
    BY <1>6 DEF Judging!BeginEvaluate
  <2>2. Judging!Asks(group, n) \in [group : BOOLEAN, count : ExpertCounts \union {0}]
    BY DEF Judging!Asks
  <2>3. answer' \in [scores : Js, cr : Js, report : Js, weights : Js]
    BY <1>2, <1>6 DEF Judging!BeginEvaluate, Judging!Blank, Judging!Shown
  <2> QED  BY <1>1, <1>5, <1>6, <2>1, <2>2, <2>3 DEF Judging!BeginEvaluate
<1>7. CASE Judging!Generate
  <2>1. Judging!GroupAsked(asked) => asked.count \in ExpertCounts
    BY <1>1, AskedCounts
  <2>2. experts' \in Js
    BY <1>1, <1>2, <1>7, <2>1 DEF Judging!Generate
  <2>3. Judging!Configure(asked)
    BY <1>7 DEF Judging!Generate
  <2>4. UNCHANGED <<time, report, asked, answer, judged>>
    BY <1>7 DEF Judging!Generate
  <2> QED  BY <1>1, <1>5, <2>2, <2>3, <2>4
<1>8. CASE Judging!Score
  BY <1>1, <1>2, <1>4, <1>8 DEF Judging!Score
<1>9. CASE Judging!OwnRatio
  BY <1>1, <1>4, <1>9 DEF Judging!OwnRatio
<1>10. CASE Judging!Ratio
  BY <1>1, <1>2, <1>4, <1>10 DEF Judging!Ratio
<1>11. CASE Judging!Report
  BY <1>1, <1>11 DEF Judging!Report
<1>12. CASE Judging!Weights
  BY <1>1, <1>2, <1>4, <1>12 DEF Judging!Weights
<1>13. CASE Judging!BeginWeights
  BY <1>1, <1>2, <1>4, <1>13 DEF Judging!BeginWeights, Judging!Blank, Judging!Shown
<1>14. CASE Judging!ShownRatio
  BY <1>1, <1>2, <1>4, <1>14 DEF Judging!ShownRatio
<1>15. CASE Judging!Answered \/ UNCHANGED evaluationVars
  BY <1>1, <1>15 DEF Judging!Answered, evaluationVars
<1>16. CASE Judging!TimePasses
  BY <1>1, <1>3, <1>16 DEF Judging!TimePasses
<1> QED  BY <1>6, <1>7, <1>8, <1>9, <1>10, <1>11, <1>12, <1>13, <1>14, <1>15, <1>16 DEF Judging!Next

-----------------------------------------------------------------------------
\* Judging with the settings of a request leaves experts and report at the
\* judgement, where there are experts to ask.
LEMMA JudgingAgain ==
  ASSUME Judging!Judge, grouped' = grouped, expertCount' = expertCount,
         Judging!ByGroup => experts # Judging!Nobody
  PROVE  /\ experts' = experts
         /\ Judging!ByGroup => report' = experts
         /\ Judging!Judgement' = Judging!Judgement
         /\ ~Judging!ByGroup => report' = report
BY DEF Judging!Judge, Judging!Judgement, Judging!Consulted, Judging!ByGroup

LEMMA JudgementKeptStep == JInv /\ [Judging!Next]_evaluationVars => JudgementKept'
<1> SUFFICES ASSUME JInv, [Judging!Next]_evaluationVars  PROVE JudgementKept'
  OBVIOUS
<1> USE DEF Calls, EvaluationCalls, AfterGenerate, AfterScore, AfterRatio
<1>1. JudgementKept /\ Judging!TypeOK
  BY DEF JInv
<1>2. /\ answer \in [scores : Judging!Judgements, cr : Judging!Judgements,
                     report : Judging!Judgements, weights : Judging!Judgements]
      /\ asked \in [group : BOOLEAN, count : ExpertCounts \union {0}]
      /\ asked.count \in Int /\ grouped \in BOOLEAN
  BY <1>1, AskedCounts DEF Judging!TypeOK
<1>3. CASE Judging!BeginEvaluate
  <2>1. call' = "generate" /\ Configured'
    BY <1>3 DEF Judging!BeginEvaluate, Judging!Configure, Configured
  <2> QED  BY <2>1 DEF JudgementKept
<1>4. CASE Judging!Generate
  <2>1. call' = "score" /\ Configured'
    BY <1>4 DEF Judging!Generate, Judging!Configure, Configured
  <2>2. grouped' => experts' # Judging!Nobody /\ experts'.size = asked'.count
    BY <1>4, Somebody DEF Judging!Generate, Judging!Configure
  <2> QED  BY <2>1, <2>2 DEF JudgementKept
<1>5. CASE Judging!Score
  <2>1. Configured /\ (grouped => experts # Judging!Nobody /\ experts.size = asked.count)
    BY <1>1, <1>5 DEF Judging!Score, JudgementKept
  <2>2. /\ UNCHANGED <<grouped, expertCount, asked>> /\ Judging!Judge
        /\ call' = "own ratio" /\ judged' = Judging!Judgement
        /\ answer' = [answer EXCEPT !.scores = Judging!Judgement]
    BY <1>5 DEF Judging!Score
  <2>3. Judging!ByGroup => experts # Judging!Nobody
    BY <2>1 DEF Judging!ByGroup
  <2>4. experts' = experts /\ Judging!Judgement' = Judging!Judgement /\ (Judging!ByGroup => report' = experts)
    BY <2>2, <2>3, JudgingAgain
  <2>5. Judging!ByGroup' = Judging!ByGroup /\ Configured'
    BY <2>1, <2>2 DEF Judging!ByGroup, Configured
  <2>6. Settled'
    BY <2>2, <2>3, <2>4, <2>5 DEF Settled
  <2>7. answer'.scores = Judging!Judgement
    BY <1>2, <2>2
  <2> QED  BY <2>1, <2>2, <2>4, <2>5, <2>6, <2>7 DEF JudgementKept
<1>6. ASSUME Judging!Judge, UNCHANGED <<grouped, expertCount, asked, judged>>, Settled
      PROVE  /\ Settled' /\ experts' = experts /\ Judging!Judgement' = Judging!Judgement
             /\ Judging!ByGroup => report' = Judging!Judgement
             /\ Configured => Configured'
             /\ judged = Judging!Judgement
  <2>1. Judging!ByGroup => experts # Judging!Nobody
    BY <1>6 DEF Settled
  <2>2. /\ experts' = experts /\ Judging!Judgement' = Judging!Judgement
        /\ Judging!ByGroup => report' = experts
    BY <1>6, <2>1, JudgingAgain
  <2>3. Judging!ByGroup' = Judging!ByGroup /\ (Configured => Configured')
    BY <1>6 DEF Judging!ByGroup, Configured
  <2>4. Judging!ByGroup => Judging!Judgement = experts
    BY <2>1 DEF Judging!Judgement, Judging!Consulted
  <2> QED  BY <1>6, <2>1, <2>2, <2>3, <2>4 DEF Settled
<1>7. CASE Judging!OwnRatio
  <2>1. /\ Judging!Judge /\ UNCHANGED <<grouped, expertCount, asked, answer, judged>>
        /\ call = "own ratio" /\ call' = "ratio"
    BY <1>7 DEF Judging!OwnRatio
  <2>2. Configured /\ Settled /\ answer.scores = Judging!Judgement
        /\ (grouped => experts # Judging!Nobody /\ experts.size = asked.count)
    BY <1>1, <2>1 DEF JudgementKept
  <2> QED  BY <1>6, <2>1, <2>2 DEF JudgementKept
<1>8. CASE Judging!Ratio
  <2>1. /\ Judging!Judge /\ UNCHANGED <<grouped, expertCount, asked, judged>> /\ call = "ratio"
        /\ answer' = [answer EXCEPT !.cr = IF Judging!ByGroup THEN report' ELSE Judging!Reference]
        /\ call' = IF Judging!GroupAsked(asked) THEN "report" ELSE "weights"
    BY <1>8 DEF Judging!Ratio
  <2>2. Configured /\ Settled /\ answer.scores = Judging!Judgement
        /\ (grouped => experts # Judging!Nobody /\ experts.size = asked.count)
    BY <1>1, <2>1 DEF JudgementKept
  <2>3. ~Judging!ByGroup => Judging!Judgement = Judging!Reference
    BY DEF Judging!Judgement
  <2>4. answer'.scores = answer.scores /\ answer'.cr = Judging!Judgement
    BY <1>2, <1>6, <2>1, <2>2, <2>3
  <2>5. call' = "report" \/ (call' = "weights" /\ ~grouped')
    BY <2>1, <2>2 DEF Configured
  <2> QED  BY <1>6, <2>1, <2>2, <2>4, <2>5 DEF JudgementKept
<1>9. CASE Judging!Report
  <2>1. /\ UNCHANGED <<grouped, expertCount, experts, report, asked, judged>> /\ call = "report"
        /\ answer' = [answer EXCEPT !.report = report] /\ call' = "weights"
    BY <1>9 DEF Judging!Report
  <2>2. Configured /\ Settled /\ answer.scores = Judging!Judgement /\ answer.cr = Judging!Judgement
        /\ (grouped => experts # Judging!Nobody /\ experts.size = asked.count)
    BY <1>1, <2>1 DEF JudgementKept
  <2>3. answer'.scores = answer.scores /\ answer'.cr = answer.cr /\ answer'.report = report
    BY <1>2, <2>1
  <2>4. ASSUME grouped  PROVE Judging!ByGroup /\ report = Judging!Judgement
    <3>1. expertCount = Judging!Clamped(asked.count) /\ asked.count > 1
      BY <2>2, <2>4 DEF Configured, Judging!GroupAsked
    <3>2. Judging!ByGroup
      BY <1>2, <2>4, <3>1, ClampedFits DEF Judging!ByGroup
    <3> QED  BY <2>2, <3>2 DEF Settled, Judging!Judgement, Judging!Consulted
  <2>5. Settled' /\ Configured' /\ (Judging!ByGroup => experts # Judging!Nobody)
    BY <2>1, <2>2 DEF Settled, Configured, Judging!ByGroup, Judging!Judgement, Judging!Consulted
  <2>6. Judging!Judgement' = Judging!Judgement
    BY <2>1, <2>5 DEF Judging!ByGroup, Judging!Judgement, Judging!Consulted
  <2> QED  BY <2>1, <2>2, <2>3, <2>4, <2>5, <2>6 DEF JudgementKept
<1>10. CASE Judging!Weights
  <2>1. /\ Judging!Judge /\ UNCHANGED <<grouped, expertCount, asked, judged>> /\ call = "weights"
        /\ answer' = [answer EXCEPT !.weights = Judging!Judgement] /\ call' = "evaluated"
    BY <1>10 DEF Judging!Weights
  <2>2. Configured /\ Settled /\ answer.scores = Judging!Judgement /\ answer.cr = Judging!Judgement
        /\ (grouped => answer.report = Judging!Judgement)
        /\ (grouped => experts # Judging!Nobody /\ experts.size = asked.count)
    BY <1>1, <2>1 DEF JudgementKept
  <2>3. answer'.scores = answer.scores /\ answer'.cr = answer.cr
        /\ answer'.report = answer.report /\ answer'.weights = Judging!Judgement
    BY <1>2, <2>1
  <2> QED  BY <1>6, <2>1, <2>2, <2>3 DEF JudgementKept
<1>11. CASE Judging!BeginWeights
  <2>1. /\ Judging!Judge /\ UNCHANGED <<grouped, expertCount, asked, judged>> /\ call = "none"
        /\ answer' = [Judging!Blank EXCEPT !.weights = Judging!Judgement] /\ call' = "shown ratio"
    BY <1>11 DEF Judging!BeginWeights
  <2>2. Settled
    BY <1>1, <2>1 DEF JudgementKept
  <2>3. answer'.weights = Judging!Judgement
    BY <2>1 DEF Judging!Blank, Judging!Shown
  <2> QED  BY <1>6, <2>1, <2>2, <2>3 DEF JudgementKept
<1>12. CASE Judging!ShownRatio
  <2>1. /\ Judging!Judge /\ UNCHANGED <<grouped, expertCount, asked, judged>> /\ call = "shown ratio"
        /\ answer' = [answer EXCEPT !.cr = IF Judging!ByGroup THEN report' ELSE Judging!Reference]
        /\ call' = "shown"
    BY <1>12 DEF Judging!ShownRatio
  <2>2. Settled /\ answer.weights = Judging!Judgement
    BY <1>1, <2>1 DEF JudgementKept
  <2>3. ~Judging!ByGroup => Judging!Judgement = Judging!Reference
    BY DEF Judging!Judgement
  <2>4. answer'.weights = answer.weights /\ answer'.cr = Judging!Judgement
    BY <1>2, <1>6, <2>1, <2>2, <2>3
  <2> QED  BY <1>6, <2>1, <2>2, <2>4 DEF JudgementKept
<1>13. ASSUME UNCHANGED <<grouped, expertCount, experts, report, asked, answer, judged>>
       PROVE  /\ Configured => Configured'
              /\ Settled => Settled' /\ Judging!Judgement' = Judging!Judgement
  <2>1. Judging!ByGroup' = Judging!ByGroup /\ (Configured => Configured')
    BY <1>13 DEF Judging!ByGroup, Configured
  <2>2. (Judging!ByGroup => experts # Judging!Nobody) => Judging!Judgement' = Judging!Judgement
    BY <1>13, <2>1 DEF Judging!Judgement, Judging!Consulted
  <2> QED  BY <1>13, <2>1, <2>2 DEF Settled
<1>14. CASE Judging!Answered
  <2>1. Settled /\ call' = "none" /\ UNCHANGED <<grouped, expertCount, experts, report, asked, answer, judged>>
    BY <1>1, <1>14 DEF Judging!Answered, JudgementKept
  <2> QED  BY <1>13, <2>1 DEF JudgementKept
<1>15. CASE Judging!TimePasses \/ UNCHANGED evaluationVars
  <2>1. call' = call /\ UNCHANGED <<grouped, expertCount, experts, report, asked, answer, judged>>
    BY <1>15 DEF Judging!TimePasses, evaluationVars
  <2>2. call \in {"generate", "score"} \/ Settled
    BY <1>1 DEF JudgementKept
  <2> QED  BY <1>1, <1>13, <2>1, <2>2 DEF JudgementKept
<1> QED  BY <1>3, <1>4, <1>5, <1>7, <1>8, <1>9, <1>10, <1>11, <1>12, <1>14, <1>15 DEF Judging!Next

(***************************************************************************)
(* Whatever calls the requests are made of, and however time goes on       *)
(* between them: what is known of settings, experts and report between two *)
(* calls is kept.                                                          *)
(***************************************************************************)
THEOREM JudgementAlwaysKept == Spec => []JInv
<1>1. JInv /\ [Next]_vars => JInv'
  BY JudgingTypesStep, JudgementKeptStep, StepsOfComponents DEF JInv
<1> QED  BY <1>1, JInvInit, PTL DEF Spec

(***************************************************************************)
(* Scores, consistency ratio, report and weights of an answer are of one   *)
(* judgement, although each is asked for in a call of its own.             *)
(***************************************************************************)
THEOREM AnswersAreOneJudgement == Spec => []AnswerIsOneJudgement
<1>1. ASSUME JInv  PROVE AnswerIsOneJudgement
  <2> USE DEF Calls, EvaluationCalls, AfterGenerate, AfterScore, AfterRatio
  <2>1. JudgementKept /\ asked.count \in Int
    BY <1>1, AskedCounts DEF JInv, Judging!TypeOK
  <2>2. ASSUME call = "evaluated"
        PROVE  /\ answer.cr = answer.scores /\ answer.weights = answer.scores
               /\ IF Judging!GroupAsked(asked)
                    THEN answer.report = answer.scores /\ answer.scores.size = asked.count
                    ELSE answer.scores = Judging!Reference
    <3>1. /\ Configured /\ answer.scores = Judging!Judgement /\ answer.cr = Judging!Judgement
          /\ answer.weights = Judging!Judgement
          /\ grouped => experts # Judging!Nobody /\ experts.size = asked.count
          /\ grouped => answer.report = Judging!Judgement
      BY <2>1, <2>2 DEF JudgementKept
    <3>2. CASE Judging!GroupAsked(asked)
      <4>1. asked.count > 1 /\ grouped /\ expertCount = Judging!Clamped(asked.count)
        BY <3>1, <3>2 DEF Configured, Judging!GroupAsked
      <4>2. Judging!ByGroup
        BY <2>1, <4>1, ClampedFits DEF Judging!ByGroup
      <4>3. Judging!Judgement = experts
        BY <3>1, <3>2, <4>2 DEF Configured, Judging!Judgement, Judging!Consulted
      <4> QED  BY <3>1, <3>2, <4>3 DEF Configured
    <3>3. CASE ~Judging!GroupAsked(asked)
      BY <3>1, <3>3 DEF Configured, Judging!Judgement, Judging!ByGroup
    <3> QED  BY <3>2, <3>3
  <2>3. ASSUME call = "shown"
        PROVE  answer.cr = answer.weights /\ answer.weights = judged
    BY <2>1, <2>3 DEF JudgementKept, Settled
  <2> QED  BY <2>2, <2>3 DEF AnswerIsOneJudgement, Judging!AnswerIsOneJudgement
<1> QED  BY <1>1, JudgementAlwaysKept, PTL

-----------------------------------------------------------------------------
(* FormationOptimizer: the candidates of a request and the best of them    *)

\* All candidates stand on the terrain of the request, and the best, once it
\* is chosen, is the best of them by the scoring of optimize.
BestOfItsKind ==
  /\ \A i \in DOMAIN candidates : candidates[i].terrain = Search!Terrain
  /\ phase = "drawing" => best = Search!None
  /\ best # Search!None =>
       \E i \in DOMAIN candidates :
         /\ candidates[i] = best[1]
         /\ \A j \in DOMAIN candidates : Search!Score(candidates[j]) <= Search!Score(candidates[i])

CandidateSet == [design : Search!Designs, terrain : Terrains]
FInv == Search!TypeOK /\ candidates \in Seq(CandidateSet) /\ BestOfItsKind

LEMMA FInvInit == Init => FInv
<1> SUFFICES ASSUME Search!Init  PROVE FInv
  BY DEF Init
<1>1. "FLAT" \in Terrains /\ MaxOptimizations \in Nat
  BY ConstantsFit DEF Search!FormationAssumption
<1>2. candidates = <<>> /\ best = Search!None
  BY DEF Search!Init
<1> QED  BY <1>1, <1>2 DEF Search!Init, FInv, Search!TypeOK, BestOfItsKind

\* The six templates are designs.
LEMMA TemplatesFit ==
  ASSUME NEW t \in Terrains
  PROVE  [i \in DOMAIN Search!Types |->
            Search!Candidate([type |-> Search!Types[i], shape |-> Template], t)] \in Seq(CandidateSet)
<1>1. Template \in Shapes
  BY ConstantsFit DEF Search!FormationAssumption
<1>2. DOMAIN Search!Types = 1 .. 6
  BY DEF Search!Types
<1>3. \A i \in 1 .. 6 : Search!Candidate([type |-> Search!Types[i], shape |-> Template], t) \in CandidateSet
  BY <1>1, <1>2 DEF Search!Candidate, CandidateSet, Search!Designs
<1> QED  BY <1>2, <1>3

LEMMA FInvStep == FInv /\ [Search!Next]_formationVars => FInv'
<1> SUFFICES ASSUME FInv, [Search!Next]_formationVars  PROVE FInv'
  OBVIOUS
<1>1. /\ phase \in {"idle", "drawing"} /\ request \in [terrain : Terrains, baseline : Terrains]
      /\ optimizations \in 0 .. MaxOptimizations /\ candidates \in Seq(CandidateSet) /\ BestOfItsKind
      /\ best = Search!None \/ best[1] \in CandidateSet
  BY DEF FInv, Search!TypeOK, CandidateSet
<1>2. MaxOptimizations \in Nat /\ Target \in Nat \ {0} /\ \A t \in Terrains, d \in Search!Designs : Merit(t, d) \in Nat
  BY ConstantsFit DEF Search!FormationAssumption
<1>3. \A r \in [terrain : Terrains, baseline : Terrains] : Search!Resolved(r.terrain, r.baseline) \in Terrains
  BY DEF Search!Resolved
<1>4. Search!Terrain \in Terrains
  BY <1>1, <1>3 DEF Search!Terrain
<1>5. \A i \in DOMAIN candidates : candidates[i] \in CandidateSet /\ candidates[i] \in [design : Search!Designs, terrain : Terrains]
  <2>1. \A i \in DOMAIN candidates : candidates[i] \in CandidateSet
    BY <1>1
  <2> QED  BY <2>1 DEF CandidateSet
<1>6. CASE Search!BeginOptimize
  <2>1. /\ optimizations' \in 0 .. MaxOptimizations /\ phase' = "drawing" /\ best' = Search!None
        /\ request' \in [terrain : Terrains, baseline : Terrains]
        /\ candidates' = [i \in DOMAIN Search!Types |->
                            Search!Candidate([type |-> Search!Types[i], shape |-> Template], Search!Terrain')]
    BY <1>1, <1>2, <1>6 DEF Search!BeginOptimize
  <2>2. Search!Terrain' \in Terrains
    BY <1>3, <2>1 DEF Search!Terrain
  <2>3. candidates' \in Seq(CandidateSet)
    BY <2>1, <2>2, TemplatesFit
  <2>4. \A i \in DOMAIN candidates' : candidates'[i].terrain = Search!Terrain' /\ candidates'[i] \in CandidateSet
    BY <2>1, <2>3 DEF Search!Candidate
  <2> QED  BY <2>1, <2>3, <2>4 DEF FInv, Search!TypeOK, BestOfItsKind, CandidateSet
<1>7. CASE Search!DrawCandidate
  <2>1. PICK d \in Search!Designs : candidates' = Append(candidates, Search!Drawn(d))
    BY <1>7 DEF Search!DrawCandidate
  <2>2. UNCHANGED <<phase, request, best, optimizations>> /\ phase = "drawing" /\ Search!Terrain' = Search!Terrain
    BY <1>7 DEF Search!DrawCandidate, Search!Terrain
  <2>3. Search!Drawn(d) \in CandidateSet /\ Search!Drawn(d).terrain = Search!Terrain
    BY <1>4 DEF Search!Drawn, Search!Candidate, CandidateSet
  <2>4. candidates' \in Seq(CandidateSet) /\ \A i \in DOMAIN candidates' : candidates'[i] \in CandidateSet
    BY <1>1, <2>1, <2>3
  <2>5. \A i \in DOMAIN candidates : candidates[i].terrain = Search!Terrain
    BY <1>1 DEF BestOfItsKind
  <2>6. \A i \in DOMAIN candidates' : candidates'[i].terrain = Search!Terrain
    BY <1>1, <2>1, <2>3, <2>5
  <2>7. best' = Search!None
    BY <1>1, <2>2 DEF BestOfItsKind
  <2> QED  BY <1>1, <2>2, <2>4, <2>6, <2>7 DEF FInv, Search!TypeOK, BestOfItsKind, CandidateSet
<1>8. CASE Search!Choose
  <2>1. /\ UNCHANGED <<request, candidates, optimizations>> /\ phase' = "idle" /\ Len(candidates) >= Target
        /\ best' = <<Search!Candidate(candidates[Search!FirstBest].design, Search!Terrain)>>
    BY <1>8 DEF Search!Choose
  <2>2. Search!Terrain' = Search!Terrain /\ \A c : Search!Score(c)' = Merit(Search!Terrain, c.design)
    BY <2>1 DEF Search!Terrain, Search!Score
  <2> DEFINE n == Len(candidates)
             s == [i \in 1 .. n |-> Search!Score(candidates[i])]
  <2>3. n \in Nat \ {0} /\ DOMAIN candidates = 1 .. n
    BY <1>1, <1>2, <2>1
  <2>4. \A i \in 1 .. n : Search!Score(candidates[i]) \in Nat
    BY <1>2, <1>4, <1>5, <2>3 DEF Search!Score
  <2>5. s \in [1 .. n -> Int]
    BY <2>4
  <2> HIDE DEF n
  <2>6. \E i \in 1 .. n : /\ \A j \in 1 .. n : s[j] <= s[i]
                          /\ \A j \in 1 .. i - 1 : s[j] < s[i]
    BY <2>3, <2>5, FirstMaximumThere
  <2>7. \E i \in DOMAIN candidates :
          /\ \A j \in DOMAIN candidates : Search!Score(candidates[j]) <= Search!Score(candidates[i])
          /\ \A j \in 1 .. i - 1 : Search!Score(candidates[j]) < Search!Score(candidates[i])
    <3>1. PICK i \in 1 .. n : /\ \A j \in 1 .. n : s[j] <= s[i]
                              /\ \A j \in 1 .. i - 1 : s[j] < s[i]
      BY <2>6
    <3>2. \A j \in 1 .. i - 1 : j \in 1 .. n
      BY <2>3
    <3>3. \A j \in 1 .. n : s[j] = Search!Score(candidates[j])
      OBVIOUS
    <3> QED  BY <2>3, <3>1, <3>2, <3>3
  <2> DEFINE b == Search!FirstBest
  <2>8. /\ b \in DOMAIN candidates
        /\ \A j \in DOMAIN candidates : Search!Score(candidates[j]) <= Search!Score(candidates[b])
    BY <2>7 DEF Search!FirstBest
  <2> HIDE DEF b, s
  <2>9. candidates[b] \in CandidateSet /\ candidates[b].terrain = Search!Terrain
    BY <1>1, <1>5, <2>8 DEF BestOfItsKind
  <2>10. Search!Candidate(candidates[b].design, Search!Terrain) = candidates[b]
    BY <2>9 DEF Search!Candidate, CandidateSet
  <2>11. best' = <<candidates[b]>> /\ best'[1] = candidates[b]
    BY <2>1, <2>10 DEF b
  <2>12. \A c : Search!Score(c)' = Search!Score(c)
    BY <2>2 DEF Search!Score
  <2>13. BestOfItsKind'
    <3>1. \A i \in DOMAIN candidates' : candidates'[i].terrain = Search!Terrain'
      BY <1>1, <2>1, <2>2 DEF BestOfItsKind
    <3>2. /\ candidates'[b] = best'[1] /\ b \in DOMAIN candidates'
          /\ \A j \in DOMAIN candidates' : Merit(Search!Terrain', candidates'[j].design) <= Merit(Search!Terrain', candidates'[b].design)
      BY <2>1, <2>2, <2>8, <2>11 DEF Search!Score
    <3> QED  BY <2>1, <3>1, <3>2 DEF BestOfItsKind, Search!Score
  <2> QED  BY <1>1, <1>5, <2>1, <2>9, <2>11, <2>13 DEF FInv, Search!TypeOK, CandidateSet
<1>9. CASE UNCHANGED formationVars
  BY <1>1, <1>5, <1>9 DEF formationVars, FInv, Search!TypeOK, BestOfItsKind, Search!Terrain, Search!Score, CandidateSet
<1> QED  BY <1>6, <1>7, <1>8, <1>9 DEF Search!Next

(***************************************************************************)
(* The candidates of a request stand on its terrain, and the best is the   *)
(* best of them, for any target and any scores.                            *)
(***************************************************************************)
THEOREM CandidatesKept == Spec => []FInv
<1>1. FInv /\ [Next]_vars => FInv'
  BY FInvStep, StepsOfComponents
<1> QED  BY <1>1, FInvInit, PTL DEF Spec

(***************************************************************************)
(* optimize and evaluate_formation resolve the terrain in code of their    *)
(* own: the best formation of a result is the best by both.                *)
(***************************************************************************)
THEOREM BestIsBestUnderBoth == Spec => []BestUnderBoth
<1>1. ASSUME FInv  PROVE BestUnderBoth
  <2> SUFFICES ASSUME best # Search!None
               PROVE  /\ \E i \in DOMAIN candidates : candidates[i] = best[1]
                      /\ \A i \in DOMAIN candidates : Search!Evaluate(candidates[i]) <= Search!Evaluate(best[1])
    BY DEF BestUnderBoth, Search!BestUnderBoth
  <2>1. BestOfItsKind
    BY <1>1 DEF FInv
  <2>2. PICK i \in DOMAIN candidates :
          /\ candidates[i] = best[1]
          /\ \A j \in DOMAIN candidates : Search!Score(candidates[j]) <= Search!Score(candidates[i])
    BY <2>1 DEF BestOfItsKind
  <2>3. \A c : c.terrain = Search!Terrain => Search!Evaluate(c) = Search!Score(c)
    BY DEF Search!Evaluate, Search!Score, Search!Terrain, Search!Resolved
  <2>4. \A j \in DOMAIN candidates : Search!Evaluate(candidates[j]) = Search!Score(candidates[j])
    BY <2>1, <2>3 DEF BestOfItsKind
  <2> QED  BY <2>2, <2>4
<1> QED  BY <1>1, CandidatesKept, PTL

-----------------------------------------------------------------------------
(* What a loop keeps                                                       *)

\* An instance has copies of its own of what it takes from the library.
LEMMA Copies ==
  /\ \A S : Comparison!Cardinality(S) = Cardinality(S) /\ Comparison!IsFiniteSet(S) = IsFiniteSet(S)
  /\ \A S : Taking!Cardinality(S) = Cardinality(S)
<1>1. \A S : Comparison!Cardinality(S) = Cardinality(S)
  BY DEF Comparison!Cardinality, Cardinality
<1>2. \A S : Comparison!IsFiniteSet(S) = IsFiniteSet(S)
  BY DEF Comparison!IsFiniteSet, IsFiniteSet
<1>3. \A S : Taking!Cardinality(S) = Cardinality(S)
  BY DEF Taking!Cardinality, Cardinality
<1> QED  BY <1>1, <1>2, <1>3

\* The place of i among the places in K.
UpTo(K, i) == {j \in K : j <= i}

\* Places are numbered from one on, each number once and in their order.
LEMMA PlacesCount ==
  ASSUME NEW K, K \subseteq Nat, IsFiniteSet(K)
  PROVE  /\ Cardinality(K) \in Nat
         /\ \A i \in K : Cardinality(UpTo(K, i)) \in 1 .. Cardinality(K)
         /\ \A i, j \in K : i < j => Cardinality(UpTo(K, i)) < Cardinality(UpTo(K, j))
         /\ \A n \in 1 .. Cardinality(K) : \E i \in K : Cardinality(UpTo(K, i)) = n
<1>1. Cardinality(K) \in Nat
  BY FS_CardinalityType
<1>2. ASSUME NEW i \in K
      PROVE  IsFiniteSet(UpTo(K, i)) /\ Cardinality(UpTo(K, i)) \in 1 .. Cardinality(K)
  <2>1. UpTo(K, i) \in SUBSET K /\ i \in UpTo(K, i)
    BY DEF UpTo
  <2>2. IsFiniteSet(UpTo(K, i)) /\ Cardinality(UpTo(K, i)) <= Cardinality(K)
    BY <2>1, FS_Subset
  <2>3. Cardinality(UpTo(K, i)) \in Nat /\ Cardinality(UpTo(K, i)) # 0
    BY <2>1, <2>2, FS_CardinalityType, FS_EmptySet
  <2> QED  BY <1>1, <2>2, <2>3
<1>3. ASSUME NEW i \in K, NEW j \in K, i < j
      PROVE  Cardinality(UpTo(K, i)) < Cardinality(UpTo(K, j))
  <2>1. i \in Nat /\ j \in Nat /\ \A k \in K : k \in Nat
    OBVIOUS
  <2>2. UpTo(K, i) \in SUBSET UpTo(K, j)
    <3>1. ASSUME NEW k \in K, k <= i  PROVE k <= j
      BY <1>3, <2>1, <3>1
    <3> QED  BY <3>1 DEF UpTo
  <2>3. j \in UpTo(K, j) /\ j \notin UpTo(K, i)
    BY <1>3, <2>1 DEF UpTo
  <2>4. IsFiniteSet(UpTo(K, j))
    BY <1>2
  <2>5. /\ Cardinality(UpTo(K, i)) <= Cardinality(UpTo(K, j))
        /\ Cardinality(UpTo(K, i)) # Cardinality(UpTo(K, j))
    BY <2>2, <2>3, <2>4, FS_Subset
  <2>6. Cardinality(UpTo(K, i)) \in Nat /\ Cardinality(UpTo(K, j)) \in Nat
    BY <1>1, <1>2
  <2> QED  BY <2>5, <2>6
<1> DEFINE rank == [i \in K |-> Cardinality(UpTo(K, i))]
           N == 1 .. Cardinality(K)
<1>4. rank \in Injection(K, N)
  <2>1. rank \in [K -> N]
    BY <1>2
  <2>2. ASSUME NEW i \in K, NEW j \in K, rank[i] = rank[j]  PROVE i = j
    <3>1. i \in Nat /\ j \in Nat /\ Cardinality(UpTo(K, i)) \in Nat
      BY <1>1, <1>2
    <3>2. ~(i < j) /\ ~(j < i)
      BY <1>3, <2>2, <3>1
    <3> QED  BY <3>1, <3>2
  <2> HIDE DEF rank, N
  <2> QED  BY <2>1, <2>2 DEF Injection, IsInjective
<1>5. IsFiniteSet(N) /\ Cardinality(N) = Cardinality(K)
  BY <1>1, FS_Interval
<1>6. rank \in Surjection(K, N)
  <2> HIDE DEF rank, N
  <2> QED  BY <1>4, <1>5, FS_Injection
<1>7. \A n \in N : \E i \in K : rank[i] = n
  <2> HIDE DEF rank, N
  <2> QED  BY <1>6 DEF Surjection
<1> QED  BY <1>1, <1>2, <1>3, <1>7

\* The numberings of K in its order.
Numbering(K) ==
  {e \in [1 .. Cardinality(K) -> K] :
     /\ \A n, m \in 1 .. Cardinality(K) : n < m => e[n] < e[m]
     /\ \A i \in K : \E n \in 1 .. Cardinality(K) : e[n] = i}

\* What takes each place where its number is, is a numbering.
LEMMA NumberingThere ==
  ASSUME NEW K, K \subseteq Nat, IsFiniteSet(K),
         NEW e \in [1 .. Cardinality(K) -> K],
         \A n \in 1 .. Cardinality(K) : Cardinality(UpTo(K, e[n])) = n
  PROVE  e \in Numbering(K)
<1> DEFINE N == 1 .. Cardinality(K)
<1>1. /\ Cardinality(K) \in Nat /\ \A i \in K : i \in Nat
      /\ \A i \in K : Cardinality(UpTo(K, i)) \in N
      /\ \A i, j \in K : i < j => Cardinality(UpTo(K, i)) < Cardinality(UpTo(K, j))
  BY PlacesCount
<1> HIDE DEF N
<1>2. \A n \in N : n \in Nat
  <2>1. Cardinality(K) \in Nat
    BY <1>1
  <2> QED  BY <2>1 DEF N
<1>3. \A n \in N : e[n] \in K /\ Cardinality(UpTo(K, e[n])) = n
  BY DEF N
<1>4. ASSUME NEW n \in N, NEW m \in N, n < m  PROVE e[n] < e[m]
  <2>1. /\ e[n] \in K /\ e[m] \in K
        /\ Cardinality(UpTo(K, e[n])) = n /\ Cardinality(UpTo(K, e[m])) = m
    BY <1>3
  <2>2. e[n] \in Nat /\ e[m] \in Nat /\ n \in Nat /\ m \in Nat
    BY <1>1, <1>2, <2>1
  <2>3. e[n] # e[m]
    BY <1>4, <2>1, <2>2
  <2>4. ~(e[m] < e[n])
    BY <1>1, <1>4, <2>1, <2>2
  <2> QED  BY <2>2, <2>3, <2>4
<1>5. ASSUME NEW i \in K  PROVE \E n \in N : e[n] = i
  <2>1. PICK n \in N : Cardinality(UpTo(K, i)) = n
    BY <1>1
  <2>2. e[n] \in K /\ Cardinality(UpTo(K, e[n])) = n
    BY <1>3
  <2>3. e[n] \in Nat /\ i \in Nat /\ n \in Nat
    BY <1>1, <1>2, <2>2
  <2>4. ~(e[n] < i) /\ ~(i < e[n])
    BY <1>1, <2>1, <2>2, <2>3
  <2> QED  BY <2>3, <2>4
<1> QED  BY <1>4, <1>5 DEF Numbering, N

\* Selected takes the elements at the places in K, in their order.
LEMMA SelectedFits ==
  ASSUME NEW s, NEW K, K \subseteq Nat, IsFiniteSet(K)
  PROVE  /\ Comparison!Selected(s, K) = [n \in 1 .. Cardinality(K) |-> Comparison!Selected(s, K)[n]]
         /\ Taking!Selected(s, K) = [n \in 1 .. Cardinality(K) |-> Taking!Selected(s, K)[n]]
         /\ \E e \in Numbering(K) : \A n \in 1 .. Cardinality(K) : Comparison!Selected(s, K)[n] = s[e[n]]
         /\ \E e \in Numbering(K) : \A n \in 1 .. Cardinality(K) : Taking!Selected(s, K)[n] = s[e[n]]
<1> DEFINE N == 1 .. Cardinality(K)
<1>1. \A n \in N : \E i \in K : Cardinality({j \in K : j <= i}) = n
  BY PlacesCount DEF UpTo
<1>2. ASSUME NEW n \in N
      PROVE  Comparison!Nth(K, n) \in K /\ Cardinality(UpTo(K, Comparison!Nth(K, n))) = n
  <2>1. \E i \in K : Comparison!Cardinality({j \in K : j <= i}) = n
    BY <1>1, Copies
  <2>2. /\ Comparison!Nth(K, n) \in K
        /\ Comparison!Cardinality({j \in K : j <= Comparison!Nth(K, n)}) = n
    BY <2>1 DEF Comparison!Nth
  <2> QED  BY <2>2, Copies DEF UpTo
<1>3. ASSUME NEW n \in N
      PROVE  Taking!Nth(K, n) \in K /\ Cardinality(UpTo(K, Taking!Nth(K, n))) = n
  <2>1. \E i \in K : Taking!Cardinality({j \in K : j <= i}) = n
    BY <1>1, Copies
  <2>2. /\ Taking!Nth(K, n) \in K
        /\ Taking!Cardinality({j \in K : j <= Taking!Nth(K, n)}) = n
    BY <2>1 DEF Taking!Nth
  <2> QED  BY <2>2, Copies DEF UpTo
<1> DEFINE c == [n \in N |-> Comparison!Nth(K, n)]
           t == [n \in N |-> Taking!Nth(K, n)]
<1>4. c \in [N -> K] /\ \A n \in N : Cardinality(UpTo(K, c[n])) = n
  BY <1>2
<1>5. t \in [N -> K] /\ \A n \in N : Cardinality(UpTo(K, t[n])) = n
  BY <1>3
<1>6. c \in Numbering(K) /\ t \in Numbering(K)
  <2> HIDE DEF c, t
  <2> QED  BY <1>4, <1>5, NumberingThere
<1>7. Comparison!Selected(s, K) = [n \in N |-> s[c[n]]]
  BY Copies DEF Comparison!Selected
<1>8. Taking!Selected(s, K) = [n \in N |-> s[t[n]]]
  BY Copies DEF Taking!Selected
<1> QED  BY <1>6, <1>7, <1>8
-----------------------------------------------------------------------------
(* VehicleComparator: lists of vehicles, each of them there once           *)

Listing(S) == Bijection(1 .. Cardinality(S), S)

\* What is numbered from one on without a gap has that many elements, each at
\* one place.
LEMMA ListingFacts ==
  ASSUME NEW S, IsFiniteSet(S), NEW r \in Listing(S)
  PROVE  /\ Cardinality(S) \in Nat
         /\ r \in [1 .. Cardinality(S) -> S] /\ DOMAIN r = 1 .. Cardinality(S)
         /\ r \in Seq(S) /\ Len(r) = Cardinality(S)
         /\ \A i, j \in DOMAIN r : r[i] = r[j] => i = j
         /\ \A v \in S : \E i \in DOMAIN r : r[i] = v
<1>1. Cardinality(S) \in Nat
  BY FS_CardinalityType
<1>2. /\ r \in [1 .. Cardinality(S) -> S]
      /\ \A i, j \in 1 .. Cardinality(S) : r[i] = r[j] => i = j
      /\ \A v \in S : \E i \in 1 .. Cardinality(S) : r[i] = v
  BY DEF Listing, Bijection, Injection, Surjection, IsInjective
<1>3. r \in Seq(S) /\ Len(r) = Cardinality(S)
  BY <1>1, <1>2
<1> QED  BY <1>1, <1>2, <1>3

\* An injective numbering of a finite set is one of all of it.
LEMMA ListingThere ==
  ASSUME NEW S, IsFiniteSet(S), NEW r \in [1 .. Cardinality(S) -> S],
         \A i, j \in 1 .. Cardinality(S) : r[i] = r[j] => i = j
  PROVE  r \in Listing(S)
<1> DEFINE N == 1 .. Cardinality(S)
<1>1. IsFiniteSet(N) /\ Cardinality(N) = Cardinality(S)
  <2>1. Cardinality(S) \in Nat
    BY FS_CardinalityType
  <2> QED  BY <2>1, FS_Interval
<1>2. r \in Injection(N, S)
  BY DEF Injection, IsInjective
<1>3. r \in Surjection(N, S)
  <2> HIDE DEF N
  <2> QED  BY <1>1, <1>2, FS_Injection
<1> QED  BY <1>2, <1>3 DEF Listing, Bijection

\* SetToSeq lists a set.
LEMMA SetToSeqLists ==
  ASSUME NEW S, IsFiniteSet(S)
  PROVE  Comparison!SetToSeq(S) \in Listing(S)
<1>1. \E f : f \in Bijection(1 .. Cardinality(S), S)
  BY FS_CardinalityType DEF ExistsBijection
<1>2. PICK f \in [1 .. Cardinality(S) -> S] : \A i, j \in 1 .. Cardinality(S) : f[i] = f[j] => i = j
  BY <1>1 DEF Bijection, Injection, IsInjective
<1> DEFINE P(g) == \A i, j \in DOMAIN g : g[i] = g[j] => i = j
           chosen == CHOOSE g \in [1 .. Cardinality(S) -> S] : P(g)
<1>3. P(f)
  BY <1>2
<1>4. chosen \in [1 .. Cardinality(S) -> S] /\ P(chosen)
  BY <1>3
<1>5. Comparison!SetToSeq(S) = chosen
  BY Copies DEF Comparison!SetToSeq, Comparison!IsInjective
<1> HIDE DEF chosen
<1> QED  BY <1>4, <1>5, ListingThere

\* std::sort keeps a listing one.
LEMMA ArrangedLists ==
  ASSUME NEW S, IsFiniteSet(S), NEW s \in Listing(S), NEW r \in Comparison!Arranged(s)
  PROVE  r \in Listing(S)
<1> DEFINE N == 1 .. Cardinality(S)
<1>1. /\ s \in [N -> S] /\ DOMAIN s = N
      /\ \A i, j \in N : s[i] = s[j] => i = j
      /\ Cardinality(S) \in Nat
  BY ListingFacts
<1>2. PICK p \in Comparison!Bijection(N, N) : r = [i \in N |-> s[p[i]]]
  BY <1>1 DEF Comparison!Arranged
<1>3. p \in [N -> N] /\ \A i, j \in N : p[i] = p[j] => i = j
  BY <1>2 DEF Comparison!Bijection, Comparison!Injection, Comparison!IsInjective
<1>4. r \in [N -> S] /\ \A i, j \in N : r[i] = r[j] => i = j
  BY <1>1, <1>2, <1>3
<1> QED  BY <1>4, ListingThere

\* A loop that keeps those of T lists those of T.
LEMMA SelectedLists ==
  ASSUME NEW S, IsFiniteSet(S), NEW s \in Listing(S), NEW T,
         NEW K, \A i : i \in K <=> i \in DOMAIN s /\ s[i] \in T
  PROVE  Comparison!Selected(s, K) \in Listing(S \cap T)
<1> DEFINE U == S \cap T
<1>1. /\ s \in [DOMAIN s -> S] /\ DOMAIN s \subseteq Nat /\ IsFiniteSet(DOMAIN s)
      /\ \A i, j \in DOMAIN s : s[i] = s[j] => i = j
      /\ \A v \in S : \E i \in DOMAIN s : s[i] = v
  <2>1. Cardinality(S) \in Nat /\ DOMAIN s = 1 .. Cardinality(S)
    BY ListingFacts
  <2>2. DOMAIN s \subseteq Nat /\ IsFiniteSet(DOMAIN s)
    BY <2>1, FS_Interval
  <2> QED  BY <2>2, ListingFacts
<1>2. K \subseteq Nat /\ IsFiniteSet(K)
  <2>1. K \in SUBSET DOMAIN s
    OBVIOUS
  <2> QED  BY <1>1, <2>1, FS_Subset
<1>3. IsFiniteSet(U)
  BY FS_Subset
<1> DEFINE f == [i \in K |-> s[i]]
<1>4. f \in Bijection(K, U)
  <2>1. f \in [K -> U] /\ (\A i, j \in K : f[i] = f[j] => i = j) /\ \A v \in U : \E i \in K : f[i] = v
    BY <1>1
  <2> HIDE DEF f
  <2> QED  BY <2>1 DEF Bijection, Injection, Surjection, IsInjective
<1>5. Cardinality(U) = Cardinality(K)
  <2> HIDE DEF f, U
  <2>1. ExistsBijection(K, U)
    BY <1>4 DEF ExistsBijection
  <2> QED  BY <1>2, <2>1, FS_Bijection
<1> DEFINE N == 1 .. Cardinality(K)
<1>6. PICK e \in Numbering(K) : \A n \in N : Comparison!Selected(s, K)[n] = s[e[n]]
  BY <1>2, SelectedFits
<1>7. Cardinality(K) \in Nat
  BY <1>2, FS_CardinalityType
<1>8. e \in [N -> K] /\ \A n, m \in N : e[n] = e[m] => n = m
  <2>1. e \in [N -> K] /\ \A n, m \in N : n < m => e[n] < e[m]
    BY DEF Numbering
  <2>2. \A n \in N : n \in Nat /\ e[n] \in Nat
    <3>1. \A n \in N : n \in Nat
      BY <1>7
    <3>2. \A i \in K : i \in Nat
      BY <1>2
    <3> HIDE DEF N
    <3> QED  BY <2>1, <3>1, <3>2
  <2>3. ASSUME NEW n \in N, NEW m \in N, e[n] = e[m]  PROVE n = m
    <3>1. n \in Nat /\ m \in Nat /\ e[n] \in Nat /\ e[m] \in Nat
      BY <2>2
    <3>2. ~(n < m) /\ ~(m < n)
      BY <2>1, <2>3, <3>1
    <3> QED  BY <3>1, <3>2
  <2> QED  BY <2>1, <2>3
<1> DEFINE r == [n \in N |-> s[e[n]]]
<1>9. r \in [1 .. Cardinality(U) -> U] /\ \A n, m \in 1 .. Cardinality(U) : r[n] = r[m] => n = m
  <2>1. \A n \in N : e[n] \in K /\ s[e[n]] \in U
    BY <1>1, <1>8
  <2>2. ASSUME NEW n \in N, NEW m \in N, r[n] = r[m]  PROVE n = m
    <3>1. e[n] \in DOMAIN s /\ e[m] \in DOMAIN s /\ s[e[n]] = s[e[m]]
      BY <2>1, <2>2
    <3> QED  BY <1>1, <1>8, <3>1
  <2> QED  BY <1>5, <2>1, <2>2
<1>10. r \in Listing(U)
  <2> HIDE DEF r, U
  <2> QED  BY <1>3, <1>9, ListingThere
<1>11. Comparison!Selected(s, K) = r
  <2>1. Comparison!Selected(s, K) = [n \in N |-> Comparison!Selected(s, K)[n]]
    BY <1>2, SelectedFits
  <2> QED  BY <1>6, <2>1
<1> QED  BY <1>10, <1>11
-----------------------------------------------------------------------------
(* Scores, and what is summed up over a list                               *)

\* The smaller and the greater of two numbers.
LEMMA OfTwo ==
  ASSUME NEW a \in Int, NEW b \in Int
  PROVE  /\ Comparison!Min({a, b}) = IF a <= b THEN a ELSE b
         /\ Comparison!Max({a, b}) = IF a <= b THEN b ELSE a
<1> DEFINE least == IF a <= b THEN a ELSE b
           greatest == IF a <= b THEN b ELSE a
<1>1. Comparison!Min({a, b}) = least
  <2>1. \A x \in {a, b} : (\A y \in {a, b} : x =< y) <=> x = least
    OBVIOUS
  <2>2. least \in {a, b}
    OBVIOUS
  <2> HIDE DEF least
  <2> QED  BY <2>1, <2>2 DEF Comparison!Min
<1>2. Comparison!Max({a, b}) = greatest
  <2>1. \A x \in {a, b} : (\A y \in {a, b} : x >= y) <=> x = greatest
    OBVIOUS
  <2>2. greatest \in {a, b}
    OBVIOUS
  <2> HIDE DEF greatest
  <2> QED  BY <2>1, <2>2 DEF Comparison!Max
<1> QED  BY <1>1, <1>2

\* The maximum that starts from zero.
LEMMA MaxFromZero ==
  ASSUME NEW n \in Nat, NEW s \in [1 .. n -> Nat]
  PROVE  Comparison!Max({0} \union {s[i] : i \in 1 .. n}) \in Nat
<1> DEFINE T == {0} \union {s[i] : i \in 1 .. n}
<1>1. T \subseteq Nat
  OBVIOUS
<1>2. \E x \in T : \A y \in T : x >= y
  <2>1. CASE n = 0
    BY <2>1
  <2>2. CASE n # 0
    <3>1. n \in Nat \ {0} /\ s \in [1 .. n -> Int]
      BY <2>2
    <3>2. PICK i \in 1 .. n : \A j \in 1 .. n : s[j] <= s[i]
      BY <3>1, MaximumThere
    <3>3. s[i] \in Nat /\ s[i] \in T /\ \A j \in 1 .. n : s[j] \in Nat
      OBVIOUS
    <3> QED  BY <3>2, <3>3
  <2> QED  BY <2>1, <2>2
<1> HIDE DEF T
<1>3. Comparison!Max(T) \in T
  BY <1>2 DEF Comparison!Max
<1> QED  BY <1>1, <1>3 DEF T

\* The vehicles of the configuration, as ComparisonAssumption has them.
LEMMA FleetFits ==
  /\ IsFiniteSet(Comparison!Fleet)
  /\ \A v \in Comparison!Fleet :
       /\ Profile[v].era \in {"ancient", "modern"} /\ Profile[v].year \in Int
       /\ Profile[v].weight \in Nat \ {0} /\ Profile[v].cost \in Nat \ {0}
       /\ Profile[v].roof \in Nat /\ Profile[v].rha \in Nat
       /\ Profile[v].speed \in Nat /\ Profile[v].stanag \in Nat
  /\ \A p \in Percentages : p \in Nat
  /\ \A ids \in Asked : Len(ids) \in Nat /\ DOMAIN ids = 1 .. Len(ids)
  /\ MaxComparisons \in Nat
<1>1. IsFiniteSet(Comparison!Fleet)
  BY ConstantsFit, Copies DEF Comparison!ComparisonAssumption
<1>2. Profile \in [Comparison!Fleet -> [era : {"ancient", "modern"}, year : Int, weight : Nat \ {0},
                     cost : Nat \ {0}, roof : Nat, rha : Nat, speed : Nat, stanag : Nat]]
  BY ConstantsFit DEF Comparison!ComparisonAssumption, Comparison!Era
<1>3. /\ Percentages \subseteq 0 .. 100 /\ MaxComparisons \in Nat
      /\ \A ids \in Asked : Len(ids) \in Nat /\ DOMAIN ids = 1 .. Len(ids)
  BY ConstantsFit DEF Comparison!ComparisonAssumption
<1> QED  BY <1>1, <1>2, <1>3

\* A score is a natural number.
LEMMA ScoresCount ==
  ASSUME absorbed \in [Comparison!Fleet -> Percentages]
  PROVE  \A v \in Comparison!Fleet : Comparison!Overall[v] \in Nat
<1> TAKE v \in Comparison!Fleet
<1>1. \A n \in Nat : Comparison!AtMost100(n) \in Nat
  BY OfTwo DEF Comparison!AtMost100
<1>2. Comparison!Efficiency[v] \in Nat
  BY FleetFits DEF Comparison!Efficiency
<1>3. Comparison!WeightScore[v] \in Nat
  <2>1. Profile[v].weight \in Nat \ {0}
    BY FleetFits
  <2>2. (2 * Comparison!Efficiency[v]) \div Profile[v].weight \in Nat
    BY <1>2, <2>1
  <2> QED  BY <1>1, <2>2 DEF Comparison!WeightScore
<1>4. Comparison!CostScore[v] \in Nat
  <2>1. Profile[v].cost \in Nat \ {0}
    BY FleetFits
  <2>2. 500 \div Profile[v].cost \in Nat
    BY <2>1
  <2> QED  BY <1>1, <2>2 DEF Comparison!CostScore
<1> QED  BY <1>2, <1>3, <1>4 DEF Comparison!Overall

\* A vehicle comes once in a listing, or not at all.
LEMMA TimesOnce ==
  ASSUME NEW S, IsFiniteSet(S), NEW r \in Listing(S), NEW v
  PROVE  Comparison!Times(v, r) = IF v \in S THEN 1 ELSE 0
<1> DEFINE K == {i \in DOMAIN r : r[i] = v}
<1>1. Comparison!Times(v, r) = Cardinality(K)
  BY Copies DEF Comparison!Times
<1>2. /\ r \in [DOMAIN r -> S]
      /\ \A i, j \in DOMAIN r : r[i] = r[j] => i = j
      /\ \A w \in S : \E i \in DOMAIN r : r[i] = w
  BY ListingFacts
<1>3. CASE v \in S
  <2>1. PICK i \in DOMAIN r : r[i] = v
    BY <1>2, <1>3
  <2>2. K = {i}
    BY <1>2, <2>1
  <2>3. Cardinality({i}) = 1
    BY FS_Singleton
  <2> QED  BY <1>1, <1>3, <2>2, <2>3
<1>4. CASE v \notin S
  <2>1. K = {}
    BY <1>2, <1>4
  <2> QED  BY <1>1, <1>4, <2>1, FS_EmptySet
<1> QED  BY <1>3, <1>4

\* What is summed up over a list does not depend on its order.
LEMMA SameSums ==
  ASSUME NEW S, IsFiniteSet(S), NEW r \in Listing(S), NEW q \in Listing(S)
  PROVE  /\ \A f : Comparison!SumOver(f, r) = Comparison!SumOver(f, q)
         /\ \A f : Comparison!MaxOver(f, r) = Comparison!MaxOver(f, q)
         /\ Comparison!Years(r) = Comparison!Years(q)
         /\ Len(r) = Len(q)
         /\ r = <<>> <=> S = {}
<1>1. /\ r \in Seq(S) /\ q \in Seq(S) /\ Len(r) = Cardinality(S) /\ Len(q) = Cardinality(S)
      /\ \A i \in DOMAIN r : r[i] \in S
      /\ \A i \in DOMAIN q : q[i] \in S
      /\ \A v \in S : \E i \in DOMAIN r : r[i] = v
      /\ \A v \in S : \E i \in DOMAIN q : q[i] = v
  BY ListingFacts
<1>2. \A v : Comparison!Times(v, r) = Comparison!Times(v, q)
  BY TimesOnce
<1>3. ASSUME NEW f  PROVE Comparison!SumOver(f, r) = Comparison!SumOver(f, q)
  BY <1>2 DEF Comparison!SumOver
<1>4. ASSUME NEW f  PROVE Comparison!MaxOver(f, r) = Comparison!MaxOver(f, q)
  <2>1. {f[r[i]] : i \in DOMAIN r} = {f[v] : v \in S}
    BY <1>1
  <2>2. {f[q[i]] : i \in DOMAIN q} = {f[v] : v \in S}
    BY <1>1
  <2> QED  BY <2>1, <2>2 DEF Comparison!MaxOver
<1>5. Comparison!Years(r) = Comparison!Years(q)
  <2>1. Comparison!Years(r) = {Profile[v].year : v \in S}
    BY <1>1 DEF Comparison!Years
  <2>2. Comparison!Years(q) = {Profile[v].year : v \in S}
    BY <1>1 DEF Comparison!Years
  <2> QED  BY <2>1, <2>2
<1>6. r = <<>> <=> S = {}
  <2>1. r = <<>> <=> Cardinality(S) = 0
    BY <1>1
  <2> QED  BY <2>1, FS_EmptySet
<1> QED  BY <1>1, <1>3, <1>4, <1>5, <1>6

\* So the gap between two eras is one, however their vehicles are arranged.
LEMMA SameGap ==
  ASSUME NEW A, IsFiniteSet(A), NEW a \in Listing(A), NEW b \in Listing(A),
         NEW M, IsFiniteSet(M), NEW m \in Listing(M), NEW n \in Listing(M)
  PROVE  Comparison!EraGap(a, m) = Comparison!EraGap(b, n)
<1>1. /\ \A f : Comparison!SumOver(f, a) = Comparison!SumOver(f, b)
      /\ \A f : Comparison!MaxOver(f, a) = Comparison!MaxOver(f, b)
      /\ Comparison!Years(a) = Comparison!Years(b)
      /\ Len(a) = Len(b) /\ (a = <<>> <=> b = <<>>)
  BY SameSums
<1>2. /\ \A f : Comparison!SumOver(f, m) = Comparison!SumOver(f, n)
      /\ \A f : Comparison!MaxOver(f, m) = Comparison!MaxOver(f, n)
      /\ Comparison!Years(m) = Comparison!Years(n)
      /\ Len(m) = Len(n) /\ (m = <<>> <=> n = <<>>)
  BY SameSums
<1>3. Comparison!TechnologyGap(a, m) = Comparison!TechnologyGap(b, n)
  BY <1>1, <1>2 DEF Comparison!TechnologyGap
<1> QED  BY <1>1, <1>2, <1>3 DEF Comparison!EraGap
-----------------------------------------------------------------------------
(* EraComparator: both ways of comparing the eras                          *)

OfTheEra(era) == {v \in Comparison!Fleet : Profile[v].era = era}
Sorted(S) == {r \in Listing(S) : Comparison!Descending(r)}

\* An answer is about all vehicles and those of each era, each of them ranked.
Answered(a) ==
  a # Comparison!NoAnswer =>
    \E all \in Sorted(Comparison!Fleet), ancient \in Sorted(OfTheEra("ancient")), modern \in Sorted(OfTheEra("modern")) :
      a = Comparison!EraAnswer(all, ancient, modern)

CInv ==
  subject = "comparison" => Comparison!TypeOK /\ Answered(crossEra) /\ Answered(full)

LEMMA EraFinite ==
  ASSUME NEW era
  PROVE  IsFiniteSet(OfTheEra(era)) /\ OfTheEra(era) \in SUBSET Comparison!Fleet
<1>1. OfTheEra(era) \in SUBSET Comparison!Fleet
  BY DEF OfTheEra
<1> QED  BY <1>1, FleetFits, FS_Subset

\* What is in a listing of vehicles is known, and a ranking of them is one.
LEMMA RankingsSorted ==
  ASSUME NEW S \in SUBSET Comparison!Fleet, NEW s \in Listing(S), NEW r \in Comparison!Rankings(s)
  PROVE  r \in Sorted(S)
<1>1. IsFiniteSet(S)
  BY FleetFits, FS_Subset
<1> DEFINE K == {i \in DOMAIN s : s[i] \in Comparison!Fleet}
<1>2. Comparison!Known(s) \in Listing(S \cap Comparison!Fleet)
  <2>1. \A i : i \in K <=> i \in DOMAIN s /\ s[i] \in Comparison!Fleet
    OBVIOUS
  <2>2. Comparison!Known(s) = Comparison!Selected(s, K)
    BY DEF Comparison!Known
  <2> HIDE DEF K
  <2>3. Comparison!Selected(s, K) \in Listing(S \cap Comparison!Fleet)
    BY <1>1, <2>1, SelectedLists
  <2> QED  BY <2>2, <2>3
<1>3. Comparison!Known(s) \in Listing(S)
  <2>1. S \cap Comparison!Fleet = S
    OBVIOUS
  <2> QED  BY <1>2, <2>1
<1>4. r \in Comparison!Arranged(Comparison!Known(s)) /\ Comparison!Descending(r)
  BY DEF Comparison!Rankings
<1>5. r \in Listing(S)
  BY <1>1, <1>3, <1>4, ArrangedLists
<1> QED  BY <1>4, <1>5 DEF Sorted

LEMMA AllListed ==
  ASSUME NEW all \in Comparison!ListAll
  PROVE  all \in Listing(Comparison!Fleet)
<1>1. IsFiniteSet(Comparison!Fleet)
  BY FleetFits
<1>2. Comparison!SetToSeq(Comparison!Fleet) \in Listing(Comparison!Fleet)
  BY <1>1, SetToSeqLists
<1>3. all \in Comparison!Arranged(Comparison!SetToSeq(Comparison!Fleet))
  BY DEF Comparison!ListAll
<1> QED  BY <1>1, <1>2, <1>3, ArrangedLists

LEMMA EraListed ==
  ASSUME NEW era
  PROVE  Comparison!ListEra(era) \in Listing(OfTheEra(era))
<1>1. Comparison!ListEra(era) = Comparison!SetToSeq(OfTheEra(era))
  BY DEF Comparison!ListEra, OfTheEra
<1> QED  BY <1>1, EraFinite, SetToSeqLists

\* All vehicles are there already: nobody asked for is added.
LEMMA NobodyAdded ==
  ASSUME NEW all \in Listing(Comparison!Fleet), NEW ids \in Asked
  PROVE  Comparison!With(all, ids) \in Listing(Comparison!Fleet)
<1> DEFINE K == {i \in DOMAIN ids : /\ ids[i] \in Comparison!Fleet
                                    /\ ids[i] \notin Comparison!ToSet(all)
                                    /\ \A j \in 1 .. i - 1 : ids[j] # ids[i]}
<1>1. /\ all \in Seq(Comparison!Fleet)
      /\ \A v \in Comparison!Fleet : \E i \in DOMAIN all : all[i] = v
  BY FleetFits, ListingFacts
<1>2. K = {}
  BY <1>1 DEF Comparison!ToSet
<1>3. Comparison!Selected(ids, K) = <<>>
  <2>1. Comparison!Cardinality(K) = 0
    BY <1>2, Copies, FS_EmptySet
  <2> HIDE DEF K
  <2> QED  BY <2>1 DEF Comparison!Selected
<1>4. Comparison!With(all, ids) = all \o Comparison!Selected(ids, K)
  BY DEF Comparison!With
<1>5. all \o <<>> = all
  BY <1>1
<1> HIDE DEF K
<1> QED  BY <1>3, <1>4, <1>5

\* The vehicles of one era stand in a ranking in the order of their scores.
LEMMA OfEraSorted ==
  ASSUME NEW r \in Sorted(Comparison!Fleet), NEW era
  PROVE  Comparison!OfEra(r, era) \in Sorted(OfTheEra(era))
<1> DEFINE K == {i \in DOMAIN r : Profile[r[i]].era = era}
           chosen == Comparison!Selected(r, K)
<1>1. /\ r \in Listing(Comparison!Fleet) /\ Comparison!Descending(r)
      /\ IsFiniteSet(Comparison!Fleet)
  BY FleetFits DEF Sorted
<1>2. \A i \in DOMAIN r : r[i] \in Comparison!Fleet /\ i \in Nat
  BY <1>1, ListingFacts
<1>3. Comparison!OfEra(r, era) = chosen
  BY DEF Comparison!OfEra
<1>4. chosen \in Listing(OfTheEra(era))
  <2>1. \A i : i \in K <=> i \in DOMAIN r /\ r[i] \in OfTheEra(era)
    BY <1>2 DEF OfTheEra
  <2> HIDE DEF K
  <2>2. chosen \in Listing(Comparison!Fleet \cap OfTheEra(era))
    BY <1>1, <2>1, SelectedLists
  <2>3. Comparison!Fleet \cap OfTheEra(era) = OfTheEra(era)
    BY DEF OfTheEra
  <2> QED  BY <2>2, <2>3
<1>5. K \subseteq Nat /\ IsFiniteSet(K)
  <2>1. K \in SUBSET DOMAIN r /\ K \subseteq Nat
    BY <1>2
  <2>2. IsFiniteSet(DOMAIN r)
    <3>1. Cardinality(Comparison!Fleet) \in Nat /\ DOMAIN r = 1 .. Cardinality(Comparison!Fleet)
      BY <1>1, ListingFacts
    <3> QED  BY <3>1, FS_Interval
  <2> QED  BY <2>1, <2>2, FS_Subset
<1>6. K \subseteq DOMAIN r
  OBVIOUS
<1> HIDE DEF K
<1>7. PICK e \in Numbering(K) : \A n \in 1 .. Cardinality(K) : chosen[n] = r[e[n]]
  BY <1>5, SelectedFits
<1>8. DOMAIN chosen = 1 .. Cardinality(K)
  BY <1>5, SelectedFits
<1>9. /\ e \in [1 .. Cardinality(K) -> K]
      /\ \A n, m \in 1 .. Cardinality(K) : n < m => e[n] < e[m]
  BY DEF Numbering
<1> HIDE DEF chosen
<1>10. Comparison!Descending(chosen)
  <2> SUFFICES ASSUME NEW n \in DOMAIN chosen, NEW m \in DOMAIN chosen, n < m
               PROVE  Comparison!Overall[chosen[n]] >= Comparison!Overall[chosen[m]]
    BY DEF Comparison!Descending
  <2>1. /\ chosen[n] = r[e[n]] /\ chosen[m] = r[e[m]] /\ e[n] < e[m]
        /\ e[n] \in DOMAIN r /\ e[m] \in DOMAIN r
    BY <1>6, <1>7, <1>8, <1>9
  <2> QED  BY <1>1, <2>1 DEF Comparison!Descending
<1> QED  BY <1>3, <1>4, <1>10 DEF Sorted
\* A ranking of ids that were asked for is one of vehicles.
LEMMA AskedRanked ==
  ASSUME NEW ids \in Asked, NEW r \in Comparison!Rankings(ids)
  PROVE  r \in Seq(Comparison!Fleet)
<1> DEFINE K == {i \in DOMAIN ids : ids[i] \in Comparison!Fleet}
           known == Comparison!Known(ids)
<1>1. K \subseteq Nat /\ IsFiniteSet(K) /\ \A i \in K : ids[i] \in Comparison!Fleet
  <2>1. Len(ids) \in Nat /\ DOMAIN ids = 1 .. Len(ids)
    BY FleetFits
  <2>2. K \in SUBSET (1 .. Len(ids)) /\ K \subseteq Nat
    BY <2>1
  <2>3. IsFiniteSet(1 .. Len(ids))
    BY <2>1, FS_Interval
  <2> QED  BY <2>2, <2>3, FS_Subset
<1>2. known = Comparison!Selected(ids, K)
  BY DEF Comparison!Known
<1>3. Cardinality(K) \in Nat
  BY <1>1, FS_CardinalityType
<1> DEFINE N == 1 .. Cardinality(K)
<1>4. known \in [N -> Comparison!Fleet] /\ DOMAIN known = N
  <2> HIDE DEF K
  <2>1. PICK e \in Numbering(K) : \A n \in 1 .. Cardinality(K) : Comparison!Selected(ids, K)[n] = ids[e[n]]
    BY <1>1, SelectedFits
  <2>2. \A n \in N : e[n] \in K
    BY DEF Numbering
  <2>3. \A n \in N : known[n] \in Comparison!Fleet
    BY <1>1, <1>2, <2>1, <2>2
  <2>4. known = [n \in N |-> known[n]]
    BY <1>1, <1>2, SelectedFits
  <2> HIDE DEF known, N
  <2> QED  BY <2>3, <2>4
<1> HIDE DEF K, known
<1>5. PICK p \in Comparison!Bijection(N, N) : r = [i \in N |-> known[p[i]]]
  BY <1>4 DEF Comparison!Rankings, Comparison!Arranged, known
<1>6. p \in [N -> N]
  BY <1>5 DEF Comparison!Bijection, Comparison!Injection
<1> QED  BY <1>3, <1>4, <1>5, <1>6

\* What an answer is made of.
LEMMA AnswerTyped ==
  ASSUME NEW a, Answered(a), a # Comparison!NoAnswer
  PROVE  a[1].ranking \in Seq(Comparison!Fleet) /\ a[1].gap.stanag \in Nat
<1>1. PICK all \in Sorted(Comparison!Fleet), ancient \in Sorted(OfTheEra("ancient")),
           modern \in Sorted(OfTheEra("modern")) :
        a = Comparison!EraAnswer(all, ancient, modern)
  BY DEF Answered
<1>2. a[1].ranking = all /\ a[1].gap = Comparison!EraGap(ancient, modern)
  BY <1>1 DEF Comparison!EraAnswer
<1>3. all \in Seq(Comparison!Fleet)
  BY FleetFits, ListingFacts DEF Sorted
<1>4. a[1].gap.stanag = Comparison!MaxOver(Comparison!Stanag, modern)
  BY <1>2 DEF Comparison!EraGap
<1> DEFINE n == Cardinality(OfTheEra("modern"))
           s == [i \in 1 .. n |-> Comparison!Stanag[modern[i]]]
<1>5. n \in Nat /\ DOMAIN modern = 1 .. n /\ \A i \in 1 .. n : modern[i] \in Comparison!Fleet
  <2>1. modern \in Listing(OfTheEra("modern")) /\ IsFiniteSet(OfTheEra("modern"))
    BY EraFinite DEF Sorted
  <2>2. n \in Nat /\ DOMAIN modern = 1 .. n /\ modern \in [1 .. n -> OfTheEra("modern")]
    BY <2>1, ListingFacts
  <2> QED  BY <2>2, EraFinite
<1>6. \A v \in Comparison!Fleet : Comparison!Stanag[v] \in Nat
  BY FleetFits DEF Comparison!Stanag
<1> HIDE DEF n
<1>7. s \in [1 .. n -> Nat]
  BY <1>5, <1>6
<1>8. Comparison!MaxOver(Comparison!Stanag, modern) = Comparison!Max({0} \union {s[i] : i \in 1 .. n})
  <2>1. {Comparison!Stanag[modern[i]] : i \in DOMAIN modern} = {s[i] : i \in 1 .. n}
    BY <1>5
  <2> QED  BY <2>1 DEF Comparison!MaxOver
<1> HIDE DEF s
<1>9. Comparison!Max({0} \union {s[i] : i \in 1 .. n}) \in Nat
  BY <1>5, <1>7, MaxFromZero
<1> QED  BY <1>2, <1>3, <1>4, <1>8, <1>9

\* What was answered stays an answer, as no vehicle absorbs more or less later.
LEMMA AnsweredStays ==
  ASSUME absorbed' = absorbed
  PROVE  /\ \A S : Sorted(S)' = Sorted(S)
         /\ \A r, a, m : Comparison!EraAnswer(r, a, m)' = Comparison!EraAnswer(r, a, m)
         /\ \A a : Answered(a) => Answered(a)'
<1>1. Comparison!Efficiency' = Comparison!Efficiency
  BY DEF Comparison!Efficiency
<1>2. Comparison!WeightScore' = Comparison!WeightScore
  BY <1>1 DEF Comparison!WeightScore
<1>3. Comparison!Overall' = Comparison!Overall
  BY <1>1, <1>2 DEF Comparison!Overall
<1>4. ASSUME NEW r  PROVE Comparison!Descending(r)' = Comparison!Descending(r)
  BY <1>3 DEF Comparison!Descending
<1>5. ASSUME NEW S  PROVE Sorted(S)' = Sorted(S)
  BY <1>4 DEF Sorted
<1>6. ASSUME NEW a, NEW m  PROVE Comparison!EraGap(a, m)' = Comparison!EraGap(a, m)
  BY <1>1, <1>3 DEF Comparison!EraGap
<1>7. ASSUME NEW r, NEW a, NEW m  PROVE Comparison!EraAnswer(r, a, m)' = Comparison!EraAnswer(r, a, m)
  BY <1>6 DEF Comparison!EraAnswer
<1>8. ASSUME NEW a, Answered(a)  PROVE Answered(a)'
  BY <1>5, <1>7, <1>8 DEF Answered
<1> QED  BY <1>5, <1>7, <1>8
LEMMA CInvInit == Init => CInv
<1> SUFFICES ASSUME Init, subject = "comparison"
             PROVE  Comparison!TypeOK /\ Answered(crossEra) /\ Answered(full)
  BY DEF CInv
<1>1. Comparison!Init
  BY DEF Init
<1>2. Comparison!TypeOK
  BY <1>1, FleetFits DEF Comparison!Init, Comparison!TypeOK, Comparison!NoAnswer
<1>3. Answered(crossEra) /\ Answered(full)
  BY <1>1 DEF Comparison!Init, Answered
<1> QED  BY <1>2, <1>3

\* Every comparison counts, and one of the eras counts itself, too.
LEMMA RunsCounted ==
  ASSUME NEW n \in Nat, Comparison!TypeOK, Comparison!Runs(n),
         \/ eraComparisons' = eraComparisons
         \/ n > 0 /\ eraComparisons' = eraComparisons + 1
  PROVE  comparisons' \in 0 .. MaxComparisons /\ eraComparisons' \in 0 .. comparisons'
<1>1. comparisons \in 0 .. MaxComparisons /\ eraComparisons \in 0 .. comparisons /\ MaxComparisons \in Nat
  BY FleetFits DEF Comparison!TypeOK
<1>2. comparisons + n <= MaxComparisons /\ comparisons' = comparisons + n
  BY DEF Comparison!Runs
<1> QED  BY <1>1, <1>2

LEMMA CInvStep ==
  ASSUME CInv, [Comparison!Next]_comparisonVars, subject' = subject
  PROVE  CInv'
<1> SUFFICES ASSUME subject = "comparison"
             PROVE  Comparison!TypeOK' /\ Answered(crossEra)' /\ Answered(full)'
  BY DEF CInv
<1> USE DEF CInv
<1>1. Comparison!TypeOK /\ Answered(crossEra) /\ Answered(full)
  OBVIOUS
<1>2. CASE UNCHANGED comparisonVars
  <2>1. /\ absorbed' = absorbed /\ comparisons' = comparisons /\ eraComparisons' = eraComparisons
        /\ compared' = compared /\ crossEra' = crossEra /\ full' = full /\ timeline' = timeline
    BY <1>2 DEF comparisonVars
  <2>2. Comparison!TypeOK'
    BY <1>1, <2>1 DEF Comparison!TypeOK
  <2>3. Answered(crossEra)' /\ Answered(full)'
    BY <1>1, <2>1, AnsweredStays DEF Answered
  <2> QED  BY <2>2, <2>3
<1>3. CASE Comparison!CompareVehicles
  <2> USE DEF Comparison!CompareVehicles
  <2>1. PICK ids \in Asked : \E r \in Comparison!Rankings(ids) : compared' = r
    BY <1>3
  <2>2. compared' \in Seq(Comparison!Fleet)
    BY <2>1, AskedRanked
  <2>3. comparisons' \in 0 .. MaxComparisons /\ eraComparisons' \in 0 .. comparisons'
    BY <1>1, <1>3, RunsCounted
  <2>4. absorbed' = absorbed /\ crossEra' = crossEra /\ full' = full /\ timeline' = timeline
    BY <1>3
  <2>5. Comparison!TypeOK'
    BY <1>1, <2>2, <2>3, <2>4 DEF Comparison!TypeOK
  <2>6. Answered(crossEra)' /\ Answered(full)'
    BY <1>1, <2>4, AnsweredStays DEF Answered
  <2> QED  BY <2>5, <2>6
<1>4. CASE Comparison!CompareAncient
  <2> USE DEF Comparison!CompareAncient
  <2>1. compared' \in Comparison!Rankings(Comparison!ListEra("ancient"))
    BY <1>4
  <2>2. compared' \in Seq(Comparison!Fleet)
    <3>1. PICK r \in Comparison!Rankings(Comparison!ListEra("ancient")) : compared' = r
      BY <2>1
    <3>2. OfTheEra("ancient") \in SUBSET Comparison!Fleet
      BY EraFinite
    <3>3. r \in Listing(OfTheEra("ancient"))
      BY <3>1, <3>2, EraListed, RankingsSorted DEF Sorted
    <3>4. r \in Seq(OfTheEra("ancient"))
      BY <3>3, EraFinite, ListingFacts
    <3> QED  BY <3>1, <3>2, <3>4
  <2>3. comparisons' \in 0 .. MaxComparisons /\ eraComparisons' \in 0 .. comparisons'
    BY <1>1, <1>4, RunsCounted
  <2>4. absorbed' = absorbed /\ crossEra' = crossEra /\ full' = full /\ timeline' = timeline
    BY <1>4
  <2>5. Comparison!TypeOK'
    BY <1>1, <2>2, <2>3, <2>4 DEF Comparison!TypeOK
  <2>6. Answered(crossEra)' /\ Answered(full)'
    BY <1>1, <2>4, AnsweredStays DEF Answered
  <2> QED  BY <2>5, <2>6
<1>5. CASE Comparison!CompareCrossEra
  <2> USE DEF Comparison!CompareCrossEra
  <2>1. PICK all \in Comparison!ListAll : compared' \in Comparison!Rankings(all)
    BY <1>5
  <2>2. compared' \in Seq(Comparison!Fleet)
    <3>1. PICK r \in Comparison!Rankings(all) : compared' = r
      BY <2>1
    <3>2. r \in Listing(Comparison!Fleet)
      BY <3>1, AllListed, RankingsSorted DEF Sorted
    <3> QED  BY <3>1, <3>2, FleetFits, ListingFacts
  <2>3. comparisons' \in 0 .. MaxComparisons /\ eraComparisons' \in 0 .. comparisons'
    BY <1>1, <1>5, RunsCounted
  <2>4. absorbed' = absorbed /\ crossEra' = crossEra /\ full' = full /\ timeline' = timeline
    BY <1>5
  <2>5. Comparison!TypeOK'
    BY <1>1, <2>2, <2>3, <2>4 DEF Comparison!TypeOK
  <2>6. Answered(crossEra)' /\ Answered(full)'
    BY <1>1, <2>4, AnsweredStays DEF Answered
  <2> QED  BY <2>5, <2>6
<1>6. CASE Comparison!EraCompareCrossEra
  <2> USE DEF Comparison!EraCompareCrossEra
  <2>1. PICK all \in Comparison!ListAll : \E ranking \in Comparison!Rankings(all) :
          \E ancient \in Comparison!Rankings(Comparison!ListEra("ancient")),
             modern \in Comparison!Rankings(Comparison!ListEra("modern")) :
            crossEra' = Comparison!EraAnswer(ranking, ancient, modern)
    BY <1>6
  <2>2. PICK ranking \in Comparison!Rankings(all),
             ancient \in Comparison!Rankings(Comparison!ListEra("ancient")),
             modern \in Comparison!Rankings(Comparison!ListEra("modern")) :
          crossEra' = Comparison!EraAnswer(ranking, ancient, modern)
    BY <2>1
  <2>3. ranking \in Sorted(Comparison!Fleet)
    BY <2>1, AllListed, RankingsSorted
  <2>4. ancient \in Sorted(OfTheEra("ancient"))
    BY EraFinite, EraListed, RankingsSorted
  <2>5. modern \in Sorted(OfTheEra("modern"))
    BY EraFinite, EraListed, RankingsSorted
  <2> DEFINE new == Comparison!EraAnswer(ranking, ancient, modern)
  <2>6. Answered(new)
    BY <2>3, <2>4, <2>5 DEF Answered
  <2> QED
    <3>1. new[1].ranking \in Seq(Comparison!Fleet) /\ new[1].gap.stanag \in Nat
      <4>1. new # Comparison!NoAnswer
        BY DEF Comparison!EraAnswer, Comparison!NoAnswer
      <4> HIDE DEF new
      <4> QED  BY <2>6, <4>1, AnswerTyped
    <3>2. crossEra' = new
      BY <2>2
    <3>3. absorbed' = absorbed /\ compared' = compared /\ full' = full /\ timeline' = timeline
      BY <1>6
    <3>4. comparisons' \in 0 .. MaxComparisons /\ eraComparisons' \in 0 .. comparisons'
      BY <1>1, <1>6, RunsCounted
    <3> HIDE DEF new
    <3>5. Comparison!TypeOK'
      BY <1>1, <3>1, <3>2, <3>3, <3>4 DEF Comparison!TypeOK
    <3>6. Answered(crossEra)' /\ Answered(full)'
      <4>1. \A a : Answered(a) => Answered(a)'
        BY <3>3, AnsweredStays
      <4>2. PICK c : c = crossEra'
        OBVIOUS
      <4>3. Answered(c)'
        BY <2>6, <3>2, <4>1, <4>2
      <4> QED  BY <1>1, <3>3, <4>1, <4>2, <4>3 DEF Answered
    <3> QED  BY <3>5, <3>6
<1>7. CASE Comparison!EraCompareFull
  <2> USE DEF Comparison!EraCompareFull
  <2>1. PICK all \in Comparison!ListAll, extra \in Asked : \E ranking \in Comparison!Rankings(Comparison!With(all, extra)) :
          full' = Comparison!EraAnswer(ranking, Comparison!OfEra(ranking, "ancient"), Comparison!OfEra(ranking, "modern"))
    BY <1>7
  <2>2. PICK ranking \in Comparison!Rankings(Comparison!With(all, extra)) :
          full' = Comparison!EraAnswer(ranking, Comparison!OfEra(ranking, "ancient"), Comparison!OfEra(ranking, "modern"))
    BY <2>1
  <2>3. ranking \in Sorted(Comparison!Fleet)
    <3>1. Comparison!With(all, extra) \in Listing(Comparison!Fleet)
      BY AllListed, NobodyAdded
    <3> QED  BY <3>1, RankingsSorted
  <2> DEFINE ancient == Comparison!OfEra(ranking, "ancient")
             modern == Comparison!OfEra(ranking, "modern")
             new == Comparison!EraAnswer(ranking, ancient, modern)
  <2>4. ancient \in Sorted(OfTheEra("ancient")) /\ modern \in Sorted(OfTheEra("modern"))
    BY <2>3, OfEraSorted
  <2>5. Answered(new)
    BY <2>3, <2>4 DEF Answered
  <2>6. new[1].ranking \in Seq(Comparison!Fleet) /\ new[1].gap.stanag \in Nat
    <3>1. new # Comparison!NoAnswer
      BY DEF Comparison!EraAnswer, Comparison!NoAnswer
    <3> HIDE DEF new
    <3> QED  BY <2>5, <3>1, AnswerTyped
  <2>7. full' = new /\ absorbed' = absorbed /\ compared' = compared /\ crossEra' = crossEra /\ timeline' = timeline
    BY <1>7, <2>2
  <2>8. comparisons' \in 0 .. MaxComparisons /\ eraComparisons' \in 0 .. comparisons'
    BY <1>1, <1>7, RunsCounted
  <2> HIDE DEF new
  <2>9. Comparison!TypeOK'
    BY <1>1, <2>6, <2>7, <2>8 DEF Comparison!TypeOK
  <2>10. Answered(crossEra)' /\ Answered(full)'
    <3>1. \A a : Answered(a) => Answered(a)'
      BY <2>7, AnsweredStays
    <3>2. PICK c : c = full'
      OBVIOUS
    <3>3. Answered(c)'
      BY <2>5, <2>7, <3>1, <3>2
    <3> QED  BY <1>1, <2>7, <3>1, <3>2, <3>3 DEF Answered
  <2> QED  BY <2>9, <2>10
<1>8. CASE Comparison!BuildTimeline
  <2> USE DEF Comparison!BuildTimeline
  <2>1. PICK all \in Comparison!ListAll : timeline' = [i \in DOMAIN all |-> Comparison!Entry(all[i])]
    BY <1>8
  <2>2. \A i \in DOMAIN all : all[i] \in Comparison!Fleet
    BY AllListed, FleetFits, ListingFacts
  <2>3. \A i \in DOMAIN timeline' : timeline'[i].vehicle \in Comparison!Fleet
    BY <2>1, <2>2 DEF Comparison!Entry
  <2>4. comparisons' \in 0 .. MaxComparisons /\ eraComparisons' \in 0 .. comparisons'
    <3>1. Comparison!Cardinality(Comparison!Fleet) \in Nat
      BY FleetFits, Copies, FS_CardinalityType
    <3> QED  BY <1>1, <1>8, <3>1, RunsCounted
  <2>5. absorbed' = absorbed /\ compared' = compared /\ crossEra' = crossEra /\ full' = full
    BY <1>8
  <2>6. Comparison!TypeOK'
    BY <1>1, <2>3, <2>4, <2>5 DEF Comparison!TypeOK
  <2>7. Answered(crossEra)' /\ Answered(full)'
    BY <1>1, <2>5, AnsweredStays DEF Answered
  <2> QED  BY <2>6, <2>7
<1> QED  BY <1>2, <1>3, <1>4, <1>5, <1>6, <1>7, <1>8 DEF Comparison!Next

(***************************************************************************)
(* Every answer about the eras ranks each vehicle of the configuration     *)
(* once, whatever was asked for besides, and its counters and lists are of *)
(* their types.                                                            *)
(***************************************************************************)
THEOREM AnswersRankTheFleet == Spec => []CInv
<1>1. CInv /\ [Next]_vars => CInv'
  BY CInvStep, StepsOfComponents
<1> QED  BY <1>1, CInvInit, PTL DEF Spec
\* The best score of some vehicles, zero if there are none.
IsTop(n, S) ==
  IF S = {} THEN n = 0
  ELSE (\E v \in S : Comparison!Overall[v] = n) /\ \A v \in S : Comparison!Overall[v] <= n

\* A ranking has it in front.
LEMMA RankingTop ==
  ASSUME absorbed \in [Comparison!Fleet -> Percentages],
         NEW S \in SUBSET Comparison!Fleet, NEW r \in Sorted(S)
  PROVE  IsTop(Comparison!BestScore(r), S) /\ IsTop(Comparison!BestScore(Comparison!Best(r)), S)
<1>1. IsFiniteSet(S) /\ r \in Listing(S) /\ Comparison!Descending(r)
  BY FleetFits, FS_Subset DEF Sorted
<1>2. /\ Cardinality(S) \in Nat /\ DOMAIN r = 1 .. Cardinality(S)
      /\ r \in Seq(S) /\ Len(r) = Cardinality(S)
      /\ \A v \in S : \E i \in DOMAIN r : r[i] = v
  BY <1>1, ListingFacts
<1>3. r = <<>> <=> S = {}
  BY <1>1, SameSums
<1>4. Comparison!BestScore(Comparison!Best(r)) = Comparison!BestScore(r)
  <2>1. CASE r = <<>>
    BY <2>1 DEF Comparison!BestScore, Comparison!Best
  <2>2. CASE r # <<>>
    <3>1. Head(r) = r[1]
      BY <1>2, <2>2
    <3>2. Comparison!Best(r) = <<r[1]>>
      BY <2>2, <3>1 DEF Comparison!Best
    <3>3. <<r[1]>> # <<>> /\ <<r[1]>>[1] = r[1]
      OBVIOUS
    <3> QED  BY <2>2, <3>2, <3>3 DEF Comparison!BestScore
  <2> QED  BY <2>1, <2>2
<1>5. IsTop(Comparison!BestScore(r), S)
  <2>1. CASE S = {}
    BY <1>3, <2>1 DEF IsTop, Comparison!BestScore
  <2>2. CASE S # {}
    <3>1. 1 \in DOMAIN r /\ r[1] \in S /\ r # <<>>
      BY <1>2, <1>3, <2>2
    <3>2. \A v \in S : Comparison!Overall[v] \in Nat
      BY ScoresCount
    <3>3. ASSUME NEW v \in S  PROVE Comparison!Overall[v] <= Comparison!Overall[r[1]]
      <4>1. PICK i \in DOMAIN r : r[i] = v
        BY <1>2
      <4>2. i = 1 \/ 1 < i
        BY <1>2
      <4>3. 1 < i => Comparison!Overall[r[1]] >= Comparison!Overall[r[i]]
        BY <1>1, <3>1 DEF Comparison!Descending
      <4>4. Comparison!Overall[v] \in Nat /\ Comparison!Overall[r[1]] \in Nat
        BY <3>1, <3>2
      <4> QED  BY <4>1, <4>2, <4>3, <4>4
    <3>4. Comparison!BestScore(r) = Comparison!Overall[r[1]]
      BY <3>1 DEF Comparison!BestScore
    <3> QED  BY <2>2, <3>1, <3>3, <3>4 DEF IsTop
  <2> QED  BY <2>1, <2>2
<1> QED  BY <1>4, <1>5

\* There is one only, and of two sets it is the greater one.
LEMMA TopOfTwo ==
  ASSUME absorbed \in [Comparison!Fleet -> Percentages],
         NEW A \in SUBSET Comparison!Fleet, NEW M \in SUBSET Comparison!Fleet,
         NEW a, IsTop(a, A), NEW m, IsTop(m, M), NEW n, IsTop(n, A \union M)
  PROVE  n = Comparison!Max({a, m})
<1>1. \A v \in A \union M : Comparison!Overall[v] \in Nat
  BY ScoresCount
<1>2. a \in Nat /\ m \in Nat /\ n \in Nat
  BY <1>1 DEF IsTop
<1>3. Comparison!Max({a, m}) = IF a <= m THEN m ELSE a
  BY <1>2, OfTwo
<1>4. CASE A = {} \/ M = {}
  BY <1>1, <1>2, <1>3, <1>4 DEF IsTop
<1>5. CASE A # {} /\ M # {}
  <2>1. PICK v \in A \union M : Comparison!Overall[v] = n
    BY <1>5 DEF IsTop
  <2>2. n <= a \/ n <= m
    BY <1>5, <2>1 DEF IsTop
  <2>3. a <= n /\ m <= n
    BY <1>5 DEF IsTop
  <2> QED  BY <1>2, <1>3, <2>2, <2>3
<1> QED  BY <1>4, <1>5

(***************************************************************************)
(* compare_cross_era ranks each era in a comparison of its own, and        *)
(* compare_full parts one ranking of what it was asked for besides: both   *)
(* tell the same gap, and a best vehicle of the same score, that of the    *)
(* better of the two eras' best, for any configuration and any rock.       *)
(***************************************************************************)
THEOREM BothSummariesAgree == Spec => []SummariesAgree
<1>1. ASSUME CInv  PROVE SummariesAgree
  <2> SUFFICES ASSUME subject = "comparison"  PROVE Comparison!SummariesAgree
    BY DEF SummariesAgree
  <2>1. absorbed \in [Comparison!Fleet -> Percentages] /\ Answered(crossEra) /\ Answered(full)
    BY <1>1 DEF CInv, Comparison!TypeOK
  <2> DEFINE A == OfTheEra("ancient")
             M == OfTheEra("modern")
  <2>2. A \in SUBSET Comparison!Fleet /\ M \in SUBSET Comparison!Fleet /\ IsFiniteSet(A) /\ IsFiniteSet(M)
    BY EraFinite
  <2>3. A \union M = Comparison!Fleet
    BY FleetFits DEF OfTheEra
  <2>4. ASSUME NEW x, Answered(x), x # Comparison!NoAnswer
        PROVE  /\ \E a \in Sorted(A), m \in Sorted(M) :
                    /\ x[1].gap = Comparison!EraGap(a, m)
                    /\ x[1].ancient = a /\ x[1].modern = m
               /\ IsTop(Comparison!BestScore(x[1].best), Comparison!Fleet)
               /\ IsTop(Comparison!BestScore(x[1].ancient), A)
               /\ IsTop(Comparison!BestScore(x[1].modern), M)
    <3>1. PICK r \in Sorted(Comparison!Fleet), a \in Sorted(A), m \in Sorted(M) :
            x = Comparison!EraAnswer(r, a, m)
      BY <2>4 DEF Answered
    <3>2. /\ x[1].gap = Comparison!EraGap(a, m) /\ x[1].ancient = a /\ x[1].modern = m
          /\ x[1].best = Comparison!Best(r)
      BY <3>1 DEF Comparison!EraAnswer
    <3> HIDE DEF A, M
    <3>3. IsTop(Comparison!BestScore(Comparison!Best(r)), Comparison!Fleet)
      BY <2>1, RankingTop
    <3>4. IsTop(Comparison!BestScore(a), A) /\ IsTop(Comparison!BestScore(m), M)
      BY <2>1, <2>2, RankingTop
    <3> QED  BY <3>2, <3>3, <3>4
  <2> HIDE DEF A, M
  <2>5. ASSUME NEW x, Answered(x), x # Comparison!NoAnswer
        PROVE  Comparison!BestScore(x[1].best) =
                 Comparison!Max({Comparison!BestScore(x[1].ancient), Comparison!BestScore(x[1].modern)})
    <3>1. /\ IsTop(Comparison!BestScore(x[1].best), A \union M)
          /\ IsTop(Comparison!BestScore(x[1].ancient), A)
          /\ IsTop(Comparison!BestScore(x[1].modern), M)
      BY <2>3, <2>4, <2>5
    <3> QED  BY <2>1, <2>2, <3>1, TopOfTwo
  <2>6. ASSUME crossEra # Comparison!NoAnswer, full # Comparison!NoAnswer
        PROVE  /\ crossEra[1].gap = full[1].gap
               /\ Comparison!BestScore(crossEra[1].best) = Comparison!BestScore(full[1].best)
    <3>1. PICK a \in Sorted(A), m \in Sorted(M) : crossEra[1].gap = Comparison!EraGap(a, m)
      BY <2>1, <2>4, <2>6
    <3>2. PICK b \in Sorted(A), n \in Sorted(M) : full[1].gap = Comparison!EraGap(b, n)
      BY <2>1, <2>4, <2>6
    <3>3. Comparison!EraGap(a, m) = Comparison!EraGap(b, n)
      <4>1. a \in Listing(A) /\ b \in Listing(A) /\ m \in Listing(M) /\ n \in Listing(M)
        BY DEF Sorted
      <4> QED  BY <2>2, <4>1, SameGap
    <3>4. /\ IsTop(Comparison!BestScore(crossEra[1].best), Comparison!Fleet)
          /\ IsTop(Comparison!BestScore(full[1].best), Comparison!Fleet)
      BY <2>1, <2>4, <2>6
    <3>5. \A v \in Comparison!Fleet : Comparison!Overall[v] \in Nat
      BY <2>1, ScoresCount
    <3>6. ASSUME NEW n1, NEW n2, IsTop(n1, Comparison!Fleet), IsTop(n2, Comparison!Fleet)  PROVE n1 = n2
      BY <3>5, <3>6 DEF IsTop
    <3> QED  BY <3>1, <3>2, <3>3, <3>4, <3>6
  <2> QED  BY <2>1, <2>5, <2>6 DEF Comparison!SummariesAgree
<1> QED  BY <1>1, AnswersRankTheFleet, PTL
-----------------------------------------------------------------------------
(* json::parse: three functions that call one another come to an end, and  *)
(* go on in the text                                                       *)

Jobs == {"value", "members", "elements"} \X Nat

\* What one of the functions reads at a place, if calls read what is in f.
ReadAt(f, text, job) ==
  CASE job[1] = "value"    -> Taking!ParseValue(f, text, job[2])
    [] job[1] = "members"  -> Taking!Members(f, text, job[2])
    [] job[1] = "elements" -> Taking!Elements(f, text, job[2])

\* From p on, no call goes back in the text.
Onward(f, p) == \A job \in Jobs : job[2] >= p => f[job].next \in Nat /\ f[job].next >= job[2]

\* From p on, two functions tell the same.
Alike(f, g, p) == \A job \in Jobs : job[2] >= p => f[job] = g[job]

LEMMA JobsThere ==
  ASSUME NEW i \in Nat
  PROVE  /\ <<"value", i>> \in Jobs /\ <<"members", i>> \in Jobs /\ <<"elements", i>> \in Jobs
         /\ <<"value", i>>[2] = i /\ <<"members", i>>[2] = i /\ <<"elements", i>>[2] = i
BY DEF Jobs

\* A call goes on if those it makes do.  An array calls for a value at its own
\* place, the others further on.
LEMMA GoesOn ==
  ASSUME NEW text, NEW f, NEW i \in Nat, Onward(f, i + 1)
  PROVE  /\ Taking!ParseValue(f, text, i).next \in Nat /\ Taking!ParseValue(f, text, i).next >= i
         /\ Taking!Members(f, text, i).next \in Nat /\ Taking!Members(f, text, i).next >= i
         /\ f[<<"value", i>>].next \in Nat /\ f[<<"value", i>>].next >= i
              => /\ Taking!Elements(f, text, i).next \in Nat
                 /\ Taking!Elements(f, text, i).next >= i
<1>1. ASSUME NEW j \in Nat, j > i
      PROVE  /\ f[<<"value", j>>].next \in Nat /\ f[<<"value", j>>].next >= j
             /\ f[<<"members", j>>].next \in Nat /\ f[<<"members", j>>].next >= j
             /\ f[<<"elements", j>>].next \in Nat /\ f[<<"elements", j>>].next >= j
  <2>1. j >= i + 1
    BY <1>1
  <2> QED  BY <2>1, JobsThere DEF Onward
<1>2. \A v, n : Taking!Read(v, n).next = n
  BY DEF Taking!Read
<1>3. Taking!ParseValue(f, text, i).next \in Nat /\ Taking!ParseValue(f, text, i).next >= i
  <2>1. Taking!ParseWord(text, i).next \in Nat /\ Taking!ParseWord(text, i).next >= i
    BY <1>2 DEF Taking!ParseWord
  <2>2. /\ f[<<"members", i + 1>>].next \in Nat /\ f[<<"members", i + 1>>].next >= i
        /\ f[<<"elements", i + 1>>].next \in Nat /\ f[<<"elements", i + 1>>].next >= i
    <3>1. i + 1 \in Nat /\ i + 1 > i
      OBVIOUS
    <3>2. /\ f[<<"members", i + 1>>].next \in Nat /\ f[<<"members", i + 1>>].next >= i + 1
          /\ f[<<"elements", i + 1>>].next \in Nat /\ f[<<"elements", i + 1>>].next >= i + 1
      BY <1>1, <3>1
    <3> QED  BY <3>2
  <2>3. PICK result : result = Taking!ParseValue(f, text, i)
    OBVIOUS
  <2>4. \/ result = f[<<"members", i + 1>>] \/ result = f[<<"elements", i + 1>>]
        \/ result = Taking!ParseWord(text, i)
        \/ \E v, n : result = Taking!Read(v, n) /\ n \in {i, i + 1, i + 2}
    BY <2>3 DEF Taking!ParseValue, Taking!Starts
  <2> QED  BY <1>2, <2>1, <2>2, <2>3, <2>4
<1>4. Taking!Members(f, text, i).next \in Nat /\ Taking!Members(f, text, i).next >= i
  <2>1. CASE ~Taking!Starts(text, i + 1, ":")
    BY <1>2, <2>1 DEF Taking!Members
  <2>2. CASE Taking!Starts(text, i + 1, ":")
    <3> DEFINE next == f[<<"value", i + 2>>].next
    <3>1. next \in Nat /\ next >= i + 2
      <4>1. i + 2 \in Nat /\ i + 2 > i
        OBVIOUS
      <4> QED  BY <1>1, <4>1
    <3>2. f[<<"members", next + 1>>].next \in Nat /\ f[<<"members", next + 1>>].next >= next + 1
      <4>1. next + 1 \in Nat /\ next + 1 > i
        BY <3>1
      <4> HIDE DEF next
      <4> QED  BY <1>1, <4>1
    <3>3. \/ Taking!Members(f, text, i).next = f[<<"members", next + 1>>].next
          \/ Taking!Members(f, text, i).next = next + 1
      BY <1>2, <2>2 DEF Taking!Members
    <3> HIDE DEF next
    <3> QED  BY <3>1, <3>2, <3>3
  <2> QED  BY <2>1, <2>2
<1>5. ASSUME f[<<"value", i>>].next \in Nat, f[<<"value", i>>].next >= i
      PROVE  Taking!Elements(f, text, i).next \in Nat /\ Taking!Elements(f, text, i).next >= i
  <2> DEFINE next == f[<<"value", i>>].next
  <2>1. f[<<"elements", next + 1>>].next \in Nat /\ f[<<"elements", next + 1>>].next >= next + 1
    <3>1. next + 1 \in Nat /\ next + 1 > i
      BY <1>5
    <3> HIDE DEF next
    <3> QED  BY <1>1, <3>1
  <2>2. \/ Taking!Elements(f, text, i).next = f[<<"elements", next + 1>>].next
        \/ Taking!Elements(f, text, i).next = next + 1
    BY <1>2 DEF Taking!Elements
  <2>3. next \in Nat /\ next >= i
    BY <1>5
  <2> HIDE DEF next
  <2> QED  BY <2>1, <2>2, <2>3
<1> QED  BY <1>3, <1>4, <1>5

\* What the calls at j read is the same, and goes on.
AlikeAt(f, g, j) ==
  /\ f[<<"value", j>>] = g[<<"value", j>>]
  /\ f[<<"value", j>>].next \in Nat /\ f[<<"value", j>>].next >= j
RestAlikeAt(f, g, j) ==
  /\ f[<<"members", j>>] = g[<<"members", j>>]
  /\ f[<<"elements", j>>] = g[<<"elements", j>>]

LEMMA AlikeFurther ==
  ASSUME NEW f, NEW g, NEW i \in Nat, Alike(f, g, i + 1), Onward(f, i + 1), NEW j \in Nat, j > i
  PROVE  AlikeAt(f, g, j) /\ RestAlikeAt(f, g, j)
<1>1. j >= i + 1
  OBVIOUS
<1>2. AlikeAt(f, g, j)
  BY <1>1, JobsThere DEF Onward, Alike, AlikeAt
<1>3. RestAlikeAt(f, g, j)
  BY <1>1, JobsThere DEF Alike, RestAlikeAt
<1> QED  BY <1>2, <1>3

\* What a call reads depends on what the calls further on read, no more.
LEMMA ReadsAlike ==
  ASSUME NEW text, NEW f, NEW g, NEW i \in Nat, Alike(f, g, i + 1), Onward(f, i + 1)
  PROVE  /\ Taking!ParseValue(f, text, i) = Taking!ParseValue(g, text, i)
         /\ Taking!Members(f, text, i) = Taking!Members(g, text, i)
<1>1. Taking!ParseValue(f, text, i) = Taking!ParseValue(g, text, i)
  <2>1. f[<<"members", i + 1>>] = g[<<"members", i + 1>>] /\ f[<<"elements", i + 1>>] = g[<<"elements", i + 1>>]
    <3>1. i + 1 \in Nat /\ i + 1 > i
      OBVIOUS
    <3> QED  BY <3>1, AlikeFurther DEF RestAlikeAt
  <2> QED  BY <2>1 DEF Taking!ParseValue
<1>2. Taking!Members(f, text, i) = Taking!Members(g, text, i)
  <2> DEFINE next == f[<<"value", i + 2>>].next
  <2>1. AlikeAt(f, g, i + 2)
    <3>1. i + 2 \in Nat /\ i + 2 > i
      OBVIOUS
    <3> QED  BY <3>1, AlikeFurther
  <2>2. next \in Nat /\ next >= i + 2
    BY <2>1 DEF AlikeAt
  <2>3. f[<<"members", next + 1>>] = g[<<"members", next + 1>>]
    <3>1. next + 1 \in Nat /\ next + 1 > i
      BY <2>2
    <3> HIDE DEF next
    <3> QED  BY <3>1, AlikeFurther DEF RestAlikeAt
  <2>4. f[<<"value", i + 2>>] = g[<<"value", i + 2>>]
    BY <2>1 DEF AlikeAt
  <2> QED  BY <2>3, <2>4 DEF Taking!Members
<1> QED  BY <1>1, <1>2

LEMMA ElementsAlike ==
  ASSUME NEW text, NEW f, NEW g, NEW i \in Nat, Alike(f, g, i + 1), Onward(f, i + 1), AlikeAt(f, g, i)
  PROVE  Taking!Elements(f, text, i) = Taking!Elements(g, text, i)
<1>1. PICK element : element = f[<<"value", i>>]
  OBVIOUS
<1>2. element = g[<<"value", i>>] /\ element.next \in Nat /\ element.next + 1 \in Nat /\ element.next + 1 > i
  BY <1>1 DEF AlikeAt
<1>3. f[<<"elements", element.next + 1>>] = g[<<"elements", element.next + 1>>]
  <2>1. PICK j \in Nat : j = element.next + 1
    BY <1>2
  <2>2. j > i
    BY <1>2, <2>1
  <2>3. RestAlikeAt(f, g, j)
    BY ONLY i \in Nat, Alike(f, g, i + 1), Onward(f, i + 1), <2>2, AlikeFurther
  <2> QED  BY <2>1, <2>3 DEF RestAlikeAt
<1> QED  BY <1>1, <1>2, <1>3 DEF Taking!Elements

\* What holds at some place, and at a place if it does one further on, holds
\* from the beginning on.
LEMMA FromTheEnd ==
  ASSUME NEW T, T \subseteq Nat, T # {}, \A p \in Nat : p + 1 \in T => p \in T
  PROVE  0 \in T
<1>1. PICK p \in T : \A q \in T : p <= q
  BY LeastOf
<1>2. p = 0
  <2>1. p \in Nat /\ (p = 0 \/ p - 1 \in Nat)
    OBVIOUS
  <2>2. ASSUME p - 1 \in Nat  PROVE FALSE
    <3>1. (p - 1) + 1 = p
      BY <2>1
    <3>2. p - 1 \in T
      BY <2>2, <3>1
    <3> QED  BY <1>1, <2>1, <3>2
  <2> QED  BY <2>1, <2>2
<1> QED  BY <1>1, <1>2

\* No token is past len.
EndsAt(text, len) == \A i \in DOMAIN text : i \in Nat /\ i <= len

ReadsNothing(f, i) == f[<<"value", i>>] = Taking!Read(Taking!Null, i)

\* Past the end of the text every call ends at once.
LEMMA PastTheEnd ==
  ASSUME NEW text, NEW len \in Nat, EndsAt(text, len), NEW i \in Nat, i > len, NEW f
  PROVE  /\ Taking!ParseValue(f, text, i) = Taking!Read(Taking!Null, i)
         /\ Taking!Members(f, text, i) = Taking!Read(Taking!Object(<<>>), i + 2)
<1>1. \A c : ~Taking!Starts(text, i, c) /\ ~Taking!Starts(text, i + 1, c)
  BY DEF EndsAt, Taking!Starts
<1>2. Taking!ParseValue(f, text, i) = Taking!Read(Taking!Null, i)
  BY <1>1 DEF Taking!ParseValue
<1>3. Taking!Members(f, text, i) = Taking!Read(Taking!Object(<<>>), i + 2)
  BY <1>1 DEF Taking!Members
<1> QED  BY <1>2, <1>3

LEMMA ElementsPastTheEnd ==
  ASSUME NEW text, NEW len \in Nat, EndsAt(text, len), NEW i \in Nat, i > len, NEW f, ReadsNothing(f, i)
  PROVE  Taking!Elements(f, text, i) =
           Taking!Read(Taking!AddElement(Taking!Null, Taking!Array(<<>>)), i + 1)
<1>1. \A c : ~Taking!Starts(text, i, c)
  BY DEF EndsAt, Taking!Starts
<1>2. \A v, n : Taking!Read(v, n).value = v /\ Taking!Read(v, n).next = n
  BY DEF Taking!Read
<1>3. f[<<"value", i>>].value = Taking!Null /\ f[<<"value", i>>].next = i
  BY <1>2 DEF ReadsNothing
<1> QED  BY <1>1, <1>2, <1>3 DEF Taking!Elements

\* The equation of parse_value, parse_object and parse_array, from p on.
ReadFrom(f, text, p) ==
  /\ f = [job \in Jobs |-> f[job]]
  /\ \A job \in Jobs : job[2] >= p => f[job] = ReadAt(f, text, job)

LEMMA JobIs ==
  ASSUME NEW job \in Jobs
  PROVE  /\ job[2] \in Nat
         /\ job = <<"value", job[2]>> \/ job = <<"members", job[2]>> \/ job = <<"elements", job[2]>>
BY DEF Jobs

LEMMA ReadAtIs ==
  ASSUME NEW text, NEW f, NEW i \in Nat
  PROVE  /\ ReadAt(f, text, <<"value", i>>) = Taking!ParseValue(f, text, i)
         /\ ReadAt(f, text, <<"members", i>>) = Taking!Members(f, text, i)
         /\ ReadAt(f, text, <<"elements", i>>) = Taking!Elements(f, text, i)
BY DEF ReadAt

LEMMA ReadAtAlike ==
  ASSUME NEW text, NEW f, NEW g, NEW job \in Jobs, Alike(f, g, job[2]), Onward(f, job[2])
  PROVE  ReadAt(f, text, job) = ReadAt(g, text, job)
<1>1. PICK i \in Nat : i = job[2]
  BY JobIs
<1>2. Alike(f, g, i + 1) /\ Onward(f, i + 1)
  <2>1. \A other \in Jobs : other[2] >= i + 1 => other[2] >= i
    BY JobIs
  <2> QED  BY <1>1, <2>1 DEF Alike, Onward
<1>3. AlikeAt(f, g, i)
  <2>1. <<"value", i>> \in Jobs /\ <<"value", i>>[2] = i /\ i >= i
    <3>1. i \in Nat
      OBVIOUS
    <3>2. i >= i
      BY ONLY <3>1
    <3>3. <<"value", i>> \in Jobs
      BY ONLY <3>1, JobsThere
    <3>4. <<"value", i>>[2] = i
      OBVIOUS
    <3> QED  BY <3>2, <3>3, <3>4
  <2>2. Alike(f, g, i) /\ Onward(f, i)
    BY <1>1
  <2> QED  BY ONLY <2>1, <2>2 DEF Alike, Onward, AlikeAt
<1>4. /\ Taking!ParseValue(f, text, i) = Taking!ParseValue(g, text, i)
      /\ Taking!Members(f, text, i) = Taking!Members(g, text, i)
      /\ Taking!Elements(f, text, i) = Taking!Elements(g, text, i)
  BY <1>2, <1>3, ReadsAlike, ElementsAlike
<1>5. job = <<"value", i>> \/ job = <<"members", i>> \/ job = <<"elements", i>>
  <2>1. job = <<"value", job[2]>> \/ job = <<"members", job[2]>> \/ job = <<"elements", job[2]>>
    BY ONLY job \in Jobs, JobIs
  <2> QED  BY ONLY <1>1, <2>1
<1>6. ReadAt(f, text, <<"value", i>>) = ReadAt(g, text, <<"value", i>>)
  BY ONLY i \in Nat, <1>4, ReadAtIs
<1>7. ReadAt(f, text, <<"members", i>>) = ReadAt(g, text, <<"members", i>>)
  BY ONLY i \in Nat, <1>4, ReadAtIs
<1>8. ReadAt(f, text, <<"elements", i>>) = ReadAt(g, text, <<"elements", i>>)
  BY ONLY i \in Nat, <1>4, ReadAtIs
<1> QED  BY ONLY <1>5, <1>6, <1>7, <1>8

\* One place nearer to the beginning.
LEMMA ReadNearer ==
  ASSUME NEW text, NEW p \in Nat, NEW f, ReadFrom(f, text, p + 1), Onward(f, p + 1)
  PROVE  \E g : ReadFrom(g, text, p) /\ Onward(g, p)
<1> DEFINE value == Taking!ParseValue(f, text, p)
           members == Taking!Members(f, text, p)
           h == [job \in Jobs |-> IF job = <<"value", p>> THEN value ELSE f[job]]
           elements == Taking!Elements(h, text, p)
           g == [job \in Jobs |-> IF job = <<"value", p>> THEN value
                                  ELSE IF job = <<"members", p>> THEN members
                                  ELSE IF job = <<"elements", p>> THEN elements
                                  ELSE f[job]]
<1>1. \A job \in Jobs : job[2] >= p + 1 => job \notin {<<"value", p>>, <<"members", p>>, <<"elements", p>>}
  BY JobIs, JobsThere
<1>2. Alike(f, h, p + 1) /\ Alike(f, g, p + 1) /\ Alike(h, g, p + 1)
  BY <1>1 DEF Alike
<1>3. value.next \in Nat /\ value.next >= p /\ members.next \in Nat /\ members.next >= p
  BY GoesOn
<1>4. Onward(h, p + 1)
  BY <1>2 DEF Onward, Alike
<1>5. h[<<"value", p>>] = value /\ g[<<"value", p>>] = value /\ g[<<"members", p>>] = members
      /\ g[<<"elements", p>>] = elements
  BY JobsThere
<1> HIDE DEF g, h
<1>6. elements.next \in Nat /\ elements.next >= p
  BY <1>3, <1>4, <1>5, GoesOn
<1>7. Taking!ParseValue(g, text, p) = value /\ Taking!Members(g, text, p) = members
  <2> HIDE DEF value, members, elements
  <2>1. Alike(f, g, p + 1) /\ Onward(f, p + 1)
    BY <1>2
  <2>2. /\ Taking!ParseValue(f, text, p) = Taking!ParseValue(g, text, p)
        /\ Taking!Members(f, text, p) = Taking!Members(g, text, p)
    BY ONLY <2>1, p \in Nat, ReadsAlike
  <2> QED  BY <2>2 DEF value, members
<1>8. Taking!Elements(g, text, p) = elements
  <2> HIDE DEF value, members, elements
  <2>1. Alike(h, g, p + 1) /\ Onward(h, p + 1)
    BY <1>2, <1>4
  <2>2. AlikeAt(h, g, p)
    BY <1>3, <1>5 DEF AlikeAt
  <2>3. Taking!Elements(h, text, p) = Taking!Elements(g, text, p)
    BY ONLY <2>1, <2>2, p \in Nat, ElementsAlike
  <2> QED  BY <2>3 DEF elements
<1> HIDE DEF value, members, elements
<1>9. ASSUME NEW job \in Jobs, job[2] >= p
      PROVE  g[job] = ReadAt(g, text, job) /\ g[job].next \in Nat /\ g[job].next >= job[2]
  <2>1. job[2] \in Nat
    BY JobIs
  <2>2. CASE job[2] = p
    <3>1. job = <<"value", p>> \/ job = <<"members", p>> \/ job = <<"elements", p>>
      BY <2>2, JobIs
    <3> QED  BY <1>3, <1>5, <1>6, <1>7, <1>8, <2>2, <3>1, ReadAtIs
  <2>3. CASE job[2] # p
    <3>1. job[2] >= p + 1
      BY <1>9, <2>1, <2>3
    <3>2. Alike(f, g, job[2]) /\ Onward(f, job[2])
      <4>1. \A other \in Jobs : other[2] >= job[2] => other[2] >= p + 1
        BY <2>1, <3>1, JobIs
      <4> QED  BY <1>2, <4>1 DEF Alike, Onward
    <3>3. ReadAt(f, text, job) = ReadAt(g, text, job)
      BY <3>2, ReadAtAlike
    <3>4. f[job] = g[job] /\ f[job] = ReadAt(f, text, job) /\ f[job].next \in Nat /\ f[job].next >= job[2]
      BY <1>2, <3>1 DEF Alike, Onward, ReadFrom
    <3> QED  BY <3>3, <3>4
  <2> QED  BY <2>2, <2>3
<1>10. g = [job \in Jobs |-> g[job]]
  BY DEF g
<1>11. ReadFrom(g, text, p) /\ Onward(g, p)
  BY <1>9, <1>10 DEF ReadFrom, Onward
<1> QED  BY <1>11
\* So there is what the parser reads.
LEMMA ReadThere ==
  ASSUME NEW text, NEW len \in Nat, EndsAt(text, len)
  PROVE  \E f : ReadFrom(f, text, 0)
<1> DEFINE T == {p \in Nat : \E f : ReadFrom(f, text, p) /\ Onward(f, p)}
           f == [job \in Jobs |->
                   IF job[1] = "value" THEN Taking!Read(Taking!Null, job[2])
                   ELSE IF job[1] = "members" THEN Taking!Read(Taking!Object(<<>>), job[2] + 2)
                   ELSE Taking!Read(Taking!AddElement(Taking!Null, Taking!Array(<<>>)), job[2] + 1)]
<1>1. ASSUME NEW job \in Jobs, job[2] >= len + 1
      PROVE  f[job] = ReadAt(f, text, job) /\ f[job].next \in Nat /\ f[job].next >= job[2]
  <2>1. PICK i \in Nat : i = job[2]
    BY JobIs
  <2>2. i > len
    BY <1>1, <2>1
  <2>3. /\ f[<<"value", i>>] = Taking!Read(Taking!Null, i)
        /\ f[<<"members", i>>] = Taking!Read(Taking!Object(<<>>), i + 2)
        /\ f[<<"elements", i>>] = Taking!Read(Taking!AddElement(Taking!Null, Taking!Array(<<>>)), i + 1)
    BY JobsThere
  <2> HIDE DEF f
  <2>4. /\ Taking!ParseValue(f, text, i) = f[<<"value", i>>]
        /\ Taking!Members(f, text, i) = f[<<"members", i>>]
        /\ Taking!Elements(f, text, i) = f[<<"elements", i>>]
    BY <2>2, <2>3, PastTheEnd, ElementsPastTheEnd DEF ReadsNothing
  <2>5. \A v, n : Taking!Read(v, n).next = n
    BY DEF Taking!Read
  <2>6. /\ f[<<"value", i>>].next = i /\ f[<<"members", i>>].next = i + 2
        /\ f[<<"elements", i>>].next = i + 1
    BY <2>3, <2>5
  <2>7. job = <<"value", i>> \/ job = <<"members", i>> \/ job = <<"elements", i>>
    BY <2>1, JobIs
  <2>8. f[job] = ReadAt(f, text, job)
    BY <2>4, <2>7, ReadAtIs
  <2>9. f[job].next \in {i, i + 1, i + 2}
    BY <2>6, <2>7
  <2> QED  BY <2>1, <2>8, <2>9
<1>2. f = [job \in Jobs |-> f[job]]
  OBVIOUS
<1>3. len + 1 \in T
  <2> HIDE DEF f
  <2>1. ReadFrom(f, text, len + 1) /\ Onward(f, len + 1)
    BY <1>1, <1>2 DEF ReadFrom, Onward
  <2> QED  BY <2>1
<1>4. \A p \in Nat : p + 1 \in T => p \in T
  BY ReadNearer
<1>5. 0 \in T
  <2>1. T \subseteq Nat /\ T # {}
    BY <1>3
  <2> HIDE DEF T
  <2> QED  BY <1>4, <2>1, FromTheEnd
<1> QED  BY <1>5

\* Whatever satisfies the equation goes on in the text.
LEMMA ReadGoesOn ==
  ASSUME NEW text, NEW len \in Nat, EndsAt(text, len), NEW f, ReadFrom(f, text, 0)
  PROVE  Onward(f, 0)
<1> DEFINE T == {p \in Nat : Onward(f, p)}
<1>1. ASSUME NEW i \in Nat
      PROVE  /\ f[<<"value", i>>] = Taking!ParseValue(f, text, i)
             /\ f[<<"members", i>>] = Taking!Members(f, text, i)
             /\ f[<<"elements", i>>] = Taking!Elements(f, text, i)
  <2>1. \A job \in Jobs : f[job] = ReadAt(f, text, job)
    BY JobIs DEF ReadFrom
  <2>2. <<"value", i>> \in Jobs /\ <<"members", i>> \in Jobs /\ <<"elements", i>> \in Jobs
    BY JobsThere
  <2> QED  BY <2>1, <2>2, ReadAtIs
<1>2. len + 1 \in T
  <2> SUFFICES ASSUME NEW job \in Jobs, job[2] >= len + 1
               PROVE  f[job].next \in Nat /\ f[job].next >= job[2]
    BY DEF Onward
  <2>1. PICK i \in Nat : i = job[2]
    BY JobIs
  <2>2. i > len
    BY <2>1
  <2>3. f[<<"value", i>>] = Taking!Read(Taking!Null, i)
    <3>1. Taking!ParseValue(f, text, i) = Taking!Read(Taking!Null, i)
      BY <2>2, PastTheEnd
    <3> QED  BY <1>1, <3>1
  <2>4. /\ f[<<"members", i>>] = Taking!Read(Taking!Object(<<>>), i + 2)
        /\ f[<<"elements", i>>] = Taking!Read(Taking!AddElement(Taking!Null, Taking!Array(<<>>)), i + 1)
    <3>1. Taking!Members(f, text, i) = Taking!Read(Taking!Object(<<>>), i + 2)
      BY <2>2, PastTheEnd
    <3>2. Taking!Elements(f, text, i) =
            Taking!Read(Taking!AddElement(Taking!Null, Taking!Array(<<>>)), i + 1)
      BY <2>2, <2>3, ElementsPastTheEnd DEF ReadsNothing
    <3> QED  BY <1>1, <3>1, <3>2
  <2>5. \A v, n : Taking!Read(v, n).next = n
    BY DEF Taking!Read
  <2>6. /\ f[<<"value", i>>].next = i /\ f[<<"members", i>>].next = i + 2
        /\ f[<<"elements", i>>].next = i + 1
    BY <2>3, <2>4, <2>5
  <2>7. job = <<"value", i>> \/ job = <<"members", i>> \/ job = <<"elements", i>>
    BY <2>1, JobIs
  <2>8. f[job].next \in {i, i + 1, i + 2}
    BY <2>6, <2>7
  <2> QED  BY <2>1, <2>8
<1>3. ASSUME NEW p \in Nat, p + 1 \in T  PROVE p \in T
  <2>1. Onward(f, p + 1)
    BY <1>3
  <2>2. /\ f[<<"value", p>>].next \in Nat /\ f[<<"value", p>>].next >= p
        /\ f[<<"members", p>>].next \in Nat /\ f[<<"members", p>>].next >= p
    BY <1>1, <2>1, GoesOn
  <2>3. f[<<"elements", p>>].next \in Nat /\ f[<<"elements", p>>].next >= p
    BY <1>1, <2>1, <2>2, GoesOn
  <2>4. ASSUME NEW job \in Jobs, job[2] >= p  PROVE f[job].next \in Nat /\ f[job].next >= job[2]
    <3>1. job[2] \in Nat
      BY JobIs
    <3>2. CASE job[2] = p
      BY <2>2, <2>3, <3>2, JobIs
    <3>3. CASE job[2] # p
      <4>1. job[2] >= p + 1
        BY <2>4, <3>1, <3>3
      <4> QED  BY <2>1, <4>1 DEF Onward
    <3> QED  BY <3>2, <3>3
  <2> QED  BY <2>4 DEF Onward
<1>4. 0 \in T
  <2>1. T \subseteq Nat /\ T # {}
    BY <1>2
  <2> HIDE DEF T
  <2> QED  BY <1>3, <2>1, FromTheEnd
<1> QED  BY <1>4

(***************************************************************************)
(* json::parse ends on any text, whatever it ends in: parse_value,         *)
(* parse_object and parse_array call one another no more often than there  *)
(* are tokens, and Parse is what their equation says.                      *)
(***************************************************************************)
THEOREM ParserEnds ==
  ASSUME NEW text, NEW len \in Nat, EndsAt(text, len)
  PROVE  /\ ReadFrom(Taking!Reads(text), text, 0) /\ Onward(Taking!Reads(text), 0)
         /\ Taking!Parse(text) = Taking!Reads(text)[<<"value", 1>>].value
<1> DEFINE f == CHOOSE g : g = [job \in Jobs |-> ReadAt(g, text, job)]
<1>1. Taking!Reads(text) = f
  BY DEF Taking!Reads, ReadAt, Jobs
<1>2. \E g : g = [job \in Jobs |-> ReadAt(g, text, job)]
  <2>1. PICK g : ReadFrom(g, text, 0)
    BY ReadThere
  <2>2. \A job \in Jobs : job[2] >= 0
    BY JobIs
  <2>3. g = [job \in Jobs |-> ReadAt(g, text, job)]
    BY <2>1, <2>2 DEF ReadFrom
  <2> QED  BY <2>3
<1>3. f = [job \in Jobs |-> ReadAt(f, text, job)]
  BY <1>2
<1> HIDE DEF f
<1>4. ReadFrom(f, text, 0)
  BY <1>3 DEF ReadFrom
<1>5. ReadFrom(f, text, 0) /\ Onward(f, 0)
  BY <1>4, ReadGoesOn
<1> QED  BY <1>1, <1>5 DEF Taking!Parse
-----------------------------------------------------------------------------
(* What is read, at any depth                                              *)

\* A value is what its type says, and its members or elements are values of V.
Whole(v, V) ==
  /\ v.type = "int" => v.of \in Int
  /\ v.type = "object" => \A key \in DOMAIN v.of : v.of[key] \in V
  /\ v.type = "array" => v.of \in Seq(V)

\* The parts and wholes the parser makes.
LEMMA MadeWhole ==
  ASSUME NEW V
  PROVE  /\ Whole(Taking!Null, V)
         /\ Whole(Taking!Object(<<>>), V) /\ Taking!Object(<<>>).type = "object"
         /\ Whole(Taking!Array(<<>>), V) /\ Taking!Array(<<>>).type = "array"
         /\ \A s : Whole([type |-> "string", of |-> s], V)
         /\ \A b : Whole([type |-> "bool", of |-> b], V)
         /\ \A n \in Int : Whole([type |-> "int", of |-> n], V)
<1>1. /\ Whole(Taking!Null, V)
      /\ \A s : Whole([type |-> "string", of |-> s], V)
      /\ \A b : Whole([type |-> "bool", of |-> b], V)
      /\ \A n \in Int : Whole([type |-> "int", of |-> n], V)
  BY DEF Whole, Taking!Null
<1>2. Whole(Taking!Object(<<>>), V) /\ Taking!Object(<<>>).type = "object"
  <2>1. DOMAIN <<>> = {}
    OBVIOUS
  <2> QED  BY <2>1 DEF Whole, Taking!Object
<1>3. Whole(Taking!Array(<<>>), V) /\ Taking!Array(<<>>).type = "array"
  <2>1. <<>> \in Seq(V)
    OBVIOUS
  <2> QED  BY <2>1 DEF Whole, Taking!Array
<1> QED  BY <1>1, <1>2, <1>3

\* A member before others, and an element.
LEMMA MemberWhole ==
  ASSUME NEW V, NEW key, NEW others, NEW v \in V, Whole(others, V), others.type = "object"
  PROVE  /\ Whole(Taking!AddMember(key, v, others), V)
         /\ Taking!AddMember(key, v, others).type = "object"
<1> DEFINE all == [k \in DOMAIN others.of \union {key} |-> IF k \in DOMAIN others.of THEN others.of[k] ELSE v]
<1>1. \A k \in DOMAIN all : all[k] \in V
  BY DEF Whole
<1>2. Taking!AddMember(key, v, others) = [type |-> "object", of |-> all]
  BY DEF Taking!AddMember, Taking!Object
<1> HIDE DEF all
<1> QED  BY <1>1, <1>2 DEF Whole

LEMMA ElementWhole ==
  ASSUME NEW V, NEW others, NEW v \in V, Whole(others, V), others.type = "array"
  PROVE  /\ Whole(Taking!AddElement(v, others), V)
         /\ Taking!AddElement(v, others).type = "array"
<1>1. others.of \in Seq(V)
  BY DEF Whole
<1>2. <<v>> \o others.of \in Seq(V)
  BY <1>1
<1>3. Taking!AddElement(v, others) = [type |-> "array", of |-> <<v>> \o others.of]
  BY DEF Taking!AddElement, Taking!Array
<1> QED  BY <1>2, <1>3 DEF Whole

LEMMA TextsEnd ==
  ASSUME NEW text, Taking!IsText(text)
  PROVE  /\ Len(text) \in Nat /\ EndsAt(text, Len(text))
         /\ \A i \in DOMAIN text : text[i].num \in Int
<1>1. text \in Seq({text[i] : i \in DOMAIN text}) /\ \A i \in DOMAIN text : text[i].num \in Int
  BY DEF Taking!IsText
<1>2. Len(text) \in Nat /\ DOMAIN text = 1 .. Len(text)
  BY <1>1
<1> QED  BY <1>1, <1>2 DEF EndsAt

\* Each of the three functions makes such values, if those it calls do.
LEMMA ValuesWhole ==
  ASSUME NEW text, Taking!IsText(text), NEW f, ReadFrom(f, text, 0), Onward(f, 0),
         NEW V, \A job \in Jobs : f[job].value \in V
  PROVE  \A job \in Jobs : Whole(f[job].value, V)
<1> DEFINE Fits(i) == /\ Whole(f[<<"value", i>>].value, V)
                      /\ Whole(f[<<"members", i>>].value, V) /\ f[<<"members", i>>].value.type = "object"
                      /\ Whole(f[<<"elements", i>>].value, V) /\ f[<<"elements", i>>].value.type = "array"
           T == {p \in Nat : \A i \in Nat : i >= p => Fits(i)}
<1>1. ASSUME NEW i \in Nat
      PROVE  /\ f[<<"value", i>>] = Taking!ParseValue(f, text, i)
             /\ f[<<"members", i>>] = Taking!Members(f, text, i)
             /\ f[<<"elements", i>>] = Taking!Elements(f, text, i)
             /\ f[<<"value", i>>].value \in V
             /\ f[<<"value", i>>].next \in Nat /\ f[<<"value", i>>].next >= i
  <2>1. \A job \in Jobs : f[job] = ReadAt(f, text, job) /\ f[job].next \in Nat /\ f[job].next >= job[2]
    BY JobIs DEF ReadFrom, Onward
  <2>2. <<"value", i>> \in Jobs /\ <<"members", i>> \in Jobs /\ <<"elements", i>> \in Jobs
    BY JobsThere
  <2>3. <<"value", i>>[2] = i
    OBVIOUS
  <2>4. f[<<"value", i>>].next \in Nat /\ f[<<"value", i>>].next >= i
    BY <2>1, <2>2, <2>3
  <2> QED  BY <2>1, <2>2, <2>4, ReadAtIs
<1>2. \A v, n : Taking!Read(v, n).value = v /\ Taking!Read(v, n).next = n
  BY DEF Taking!Read
<1>3. PICK len \in Nat : EndsAt(text, len)
  BY TextsEnd
<1>4. ASSUME NEW i \in Nat, i > len  PROVE Fits(i)
  <2>1. f[<<"value", i>>] = Taking!Read(Taking!Null, i)
    <3>1. Taking!ParseValue(f, text, i) = Taking!Read(Taking!Null, i)
      BY <1>3, <1>4, PastTheEnd
    <3> QED  BY <1>1, <3>1
  <2>2. /\ f[<<"members", i>>] = Taking!Read(Taking!Object(<<>>), i + 2)
        /\ f[<<"elements", i>>] = Taking!Read(Taking!AddElement(Taking!Null, Taking!Array(<<>>)), i + 1)
    <3>1. /\ Taking!Members(f, text, i) = Taking!Read(Taking!Object(<<>>), i + 2)
          /\ Taking!Elements(f, text, i) = Taking!Read(Taking!AddElement(Taking!Null, Taking!Array(<<>>)), i + 1)
      BY <1>3, <1>4, <2>1, PastTheEnd, ElementsPastTheEnd DEF ReadsNothing
    <3> QED  BY <1>1, <3>1
  <2>3. Taking!Null \in V
    <3>1. f[<<"value", i>>].value \in V
      BY <1>1
    <3>2. Taking!Read(Taking!Null, i).value = Taking!Null
      BY <1>2
    <3> QED  BY <2>1, <3>1, <3>2
  <2>4. /\ f[<<"value", i>>].value = Taking!Null /\ f[<<"members", i>>].value = Taking!Object(<<>>)
        /\ f[<<"elements", i>>].value = Taking!AddElement(Taking!Null, Taking!Array(<<>>))
    BY <1>2, <2>1, <2>2
  <2>5. /\ Whole(Taking!AddElement(Taking!Null, Taking!Array(<<>>)), V)
        /\ Taking!AddElement(Taking!Null, Taking!Array(<<>>)).type = "array"
    <3>1. Whole(Taking!Array(<<>>), V) /\ Taking!Array(<<>>).type = "array"
      BY MadeWhole
    <3> QED  BY <2>3, <3>1, ElementWhole
  <2>6. Whole(Taking!Null, V) /\ Whole(Taking!Object(<<>>), V) /\ Taking!Object(<<>>).type = "object"
    BY MadeWhole
  <2> QED  BY <2>4, <2>5, <2>6
<1>5. ASSUME NEW p \in Nat, \A i \in Nat : i > p => Fits(i)  PROVE Fits(p)
  <2>1. Fits(p + 1) /\ Fits(p + 2)
    BY <1>5
  <2>2. Whole(f[<<"value", p>>].value, V)
    <3>1. PICK result : result = f[<<"value", p>>] /\ result = Taking!ParseValue(f, text, p)
      BY <1>1
    <3>2. \/ result = f[<<"members", p + 1>>] \/ result = f[<<"elements", p + 1>>]
          \/ \E n : result \in {Taking!Read(Taking!Object(<<>>), n), Taking!Read(Taking!Array(<<>>), n),
                                Taking!Read(Taking!Null, n)}
          \/ \E s, n : result = Taking!Read([type |-> "string", of |-> s], n)
          \/ p \in DOMAIN text /\ \E n : result = Taking!Read([type |-> "int", of |-> text[p].num], n)
          \/ result = Taking!ParseWord(text, p)
      BY <3>1 DEF Taking!ParseValue, Taking!Starts
    <3>3. \E n, b : Taking!ParseWord(text, p) \in {Taking!Read([type |-> "bool", of |-> b], n), Taking!Read(Taking!Null, n)}
      BY DEF Taking!ParseWord
    <3>4. p \in DOMAIN text => text[p].num \in Int
      BY TextsEnd
    <3>5. CASE result = f[<<"members", p + 1>>] \/ result = f[<<"elements", p + 1>>]
      BY <2>1, <3>1, <3>5
    <3>6. CASE \E n : result \in {Taking!Read(Taking!Object(<<>>), n), Taking!Read(Taking!Array(<<>>), n),
                                 Taking!Read(Taking!Null, n)}
      <4>1. result.value \in {Taking!Object(<<>>), Taking!Array(<<>>), Taking!Null}
        BY <1>2, <3>6
      <4> QED  BY <3>1, <4>1, MadeWhole
    <3>7. CASE \E s, n : result = Taking!Read([type |-> "string", of |-> s], n)
      <4>1. PICK s, n : result = Taking!Read([type |-> "string", of |-> s], n)
        BY <3>7
      <4>2. result.value = [type |-> "string", of |-> s]
        BY <1>2, <4>1
      <4>3. Whole([type |-> "string", of |-> s], V)
        BY MadeWhole
      <4> QED  BY <3>1, <4>2, <4>3
    <3>8. CASE p \in DOMAIN text /\ \E n : result = Taking!Read([type |-> "int", of |-> text[p].num], n)
      <4>1. result.value = [type |-> "int", of |-> text[p].num] /\ text[p].num \in Int
        BY <1>2, <3>4, <3>8
      <4> QED  BY <3>1, <4>1, MadeWhole
    <3>9. CASE result = Taking!ParseWord(text, p)
      <4>1. PICK n, b : result \in {Taking!Read([type |-> "bool", of |-> b], n), Taking!Read(Taking!Null, n)}
        BY <3>3, <3>9
      <4>2. result.value \in {[type |-> "bool", of |-> b], Taking!Null}
        BY <1>2, <4>1
      <4> QED  BY <3>1, <4>2, MadeWhole
    <3> QED  BY <3>2, <3>5, <3>6, <3>7, <3>8, <3>9
  <2>3. Whole(f[<<"members", p>>].value, V) /\ f[<<"members", p>>].value.type = "object"
    <3>1. CASE ~Taking!Starts(text, p + 1, ":")
      <4>1. f[<<"members", p>>] = Taking!Read(Taking!Object(<<>>), p + 2)
        BY <1>1, <3>1 DEF Taking!Members
      <4> QED  BY <1>2, <4>1, MadeWhole
    <3>2. CASE Taking!Starts(text, p + 1, ":")
      <4>1. PICK member : member = f[<<"value", p + 2>>]
        OBVIOUS
      <4>2. member.value \in V /\ member.next \in Nat /\ member.next >= p + 2
        <5>1. p + 2 \in Nat
          OBVIOUS
        <5> QED  BY <1>1, <4>1, <5>1
      <4>3. PICK others : others = IF Taking!Starts(text, member.next, ",") THEN f[<<"members", member.next + 1>>]
                                   ELSE Taking!Read(Taking!Object(<<>>), member.next + 1)
        OBVIOUS
      <4>4. f[<<"members", p>>] =
              Taking!Read(Taking!AddMember(Taking!Key(text, p), member.value, others.value), others.next)
        BY <1>1, <3>2, <4>1, <4>3 DEF Taking!Members
      <4>5. Whole(others.value, V) /\ others.value.type = "object"
        <5>1. CASE Taking!Starts(text, member.next, ",")
          <6>1. member.next + 1 \in Nat /\ member.next + 1 > p
            BY <4>2
          <6>2. Fits(member.next + 1)
            BY <1>5, <6>1
          <6> QED  BY <4>3, <5>1, <6>2
        <5>2. CASE ~Taking!Starts(text, member.next, ",")
          <6>1. others.value = Taking!Object(<<>>)
            BY <1>2, <4>3, <5>2
          <6> QED  BY <6>1, MadeWhole
        <5> QED  BY <5>1, <5>2
      <4>6. f[<<"members", p>>].value = Taking!AddMember(Taking!Key(text, p), member.value, others.value)
        BY <1>2, <4>4
      <4> QED  BY <4>2, <4>5, <4>6, MemberWhole
    <3> QED  BY <3>1, <3>2
  <2>4. Whole(f[<<"elements", p>>].value, V) /\ f[<<"elements", p>>].value.type = "array"
    <3>1. PICK element : element = f[<<"value", p>>]
      OBVIOUS
    <3>2. element.value \in V /\ element.next \in Nat /\ element.next >= p
      BY <1>1, <3>1
    <3>3. PICK others : others = IF Taking!Starts(text, element.next, ",") THEN f[<<"elements", element.next + 1>>]
                                 ELSE Taking!Read(Taking!Array(<<>>), element.next + 1)
      OBVIOUS
    <3>4. f[<<"elements", p>>] =
            Taking!Read(Taking!AddElement(element.value, others.value), others.next)
      BY <1>1, <3>1, <3>3 DEF Taking!Elements
    <3>5. Whole(others.value, V) /\ others.value.type = "array"
      <4>1. CASE Taking!Starts(text, element.next, ",")
        <5>1. element.next + 1 \in Nat /\ element.next + 1 > p
          BY <3>2
        <5>2. Fits(element.next + 1)
          BY <1>5, <5>1
        <5> QED  BY <3>3, <4>1, <5>2
      <4>2. CASE ~Taking!Starts(text, element.next, ",")
        <5>1. others.value = Taking!Array(<<>>)
          BY <1>2, <3>3, <4>2
        <5> QED  BY <5>1, MadeWhole
      <4> QED  BY <4>1, <4>2
    <3>6. f[<<"elements", p>>].value = Taking!AddElement(element.value, others.value)
      BY <1>2, <3>4
    <3> QED  BY <3>2, <3>5, <3>6, ElementWhole
  <2> QED  BY <2>2, <2>3, <2>4
<1> HIDE DEF Fits
<1>6. 0 \in T
  <2>2. len + 1 \in T
    BY <1>4
  <2>3. ASSUME NEW p \in Nat, p + 1 \in T  PROVE p \in T
    <3>1. \A i \in Nat : i > p => Fits(i)
      BY <2>3
    <3>2. Fits(p)
      BY <1>5, <3>1
    <3>3. \A i \in Nat : i >= p => i > p \/ i = p
      OBVIOUS
    <3> QED  BY <3>1, <3>2, <3>3
  <2>4. T \subseteq Nat /\ T # {}
    BY <2>2
  <2> HIDE DEF T
  <2> QED  BY <2>3, <2>4, FromTheEnd
<1>7. \A i \in Nat : Fits(i)
  BY <1>6
<1> QED  BY <1>7, JobIs DEF Fits

(***************************************************************************)
(* What json::parse returns on a text of tokens is a value, and so are its *)
(* members and elements and theirs, at any depth: no number is anything    *)
(* else, and an array has as many elements as it says.                     *)
(***************************************************************************)
THEOREM ParsedIsWhole ==
  ASSUME NEW text, Taking!IsText(text)
  PROVE  \E V : Taking!Parse(text) \in V /\ \A v \in V : Whole(v, V)
<1>1. Len(text) \in Nat /\ EndsAt(text, Len(text))
  BY TextsEnd
<1>2. PICK f : ReadFrom(f, text, 0) /\ Onward(f, 0) /\ Taking!Parse(text) = f[<<"value", 1>>].value
  <2>1. PICK f : f = Taking!Reads(text)
    OBVIOUS
  <2>2. ReadFrom(f, text, 0) /\ Onward(f, 0) /\ Taking!Parse(text) = f[<<"value", 1>>].value
    BY <1>1, <2>1, ParserEnds
  <2> QED  BY <2>2
<1> DEFINE V == {f[job].value : job \in Jobs}
<1>3. \A job \in Jobs : f[job].value \in V
  OBVIOUS
<1>4. \A v \in V : \E job \in Jobs : v = f[job].value
  OBVIOUS
<1>5. Taking!Parse(text) \in V
  <2>1. <<"value", 1>> \in Jobs
    BY JobsThere
  <2> QED  BY <1>2, <1>3, <2>1
<1> HIDE DEF V
<1>6. \A job \in Jobs : Whole(f[job].value, V)
  BY <1>2, <1>3, ValuesWhole
<1>7. \A v \in V : Whole(v, V)
  BY <1>4, <1>6
<1> QED  BY <1>5, <1>7
-----------------------------------------------------------------------------
(* Intake: readings and their materials                                    *)

LEMMA IntakeFits ==
  /\ \A text \in Bodies : Taking!IsText(text)
  /\ UIntSize \in Nat /\ UIntSize > 1000
BY ConstantsFit DEF Taking!IntakeAssumption

LEMMA TextOf ==
  ASSUME NEW S, NEW text \in Seq(S), \A i \in DOMAIN text : text[i].num \in Int
  PROVE  Taking!IsText(text)
<1>1. Len(text) \in Nat /\ DOMAIN text = 1 .. Len(text) /\ text = [i \in 1 .. Len(text) |-> text[i]]
  OBVIOUS
<1> DEFINE R == {text[i] : i \in DOMAIN text}
<1>2. text \in [1 .. Len(text) -> R]
  BY <1>1
<1>3. text \in Seq(R)
  <2> HIDE DEF R
  <2> QED  BY <1>1, <1>2
<1> QED  BY <1>3 DEF Taking!IsText

\* What is left of a number is a number, or its sign.
LEMMA NumberLeft ==
  ASSUME NEW token, token.is = "number", token.num \in Int, NEW part \in Taking!Broken(token)
  PROVE  part = Taking!Mark("-") \/ \E n \in Int : part = Taking!Num(n)
<1>1. CASE token.num < 0
  <2>1. part = Taking!Mark("-") \/ \E m \in Taking!Shorter[-token.num] \intersect Nat : part = Taking!Num(-m)
    BY <1>1 DEF Taking!Broken
  <2>2. ASSUME NEW m \in Nat, part = Taking!Num(-m)  PROVE \E n \in Int : part = Taking!Num(n)
    <3>1. -m \in Int
      OBVIOUS
    <3> QED  BY <2>2, <3>1
  <2> QED  BY <2>1, <2>2
<1>2. CASE ~(token.num < 0)
  BY <1>2 DEF Taking!Broken
<1> QED  BY <1>1, <1>2

\* What is left of a text that ends in the middle is one, too.
LEMMA BeginningsAreTexts ==
  ASSUME NEW text, Taking!IsText(text), NEW s \in Taking!Beginnings(text)
  PROVE  Taking!IsText(s)
<1> DEFINE R == {text[i] : i \in DOMAIN text}
<1>1. /\ Len(text) \in Nat /\ DOMAIN text = 1 .. Len(text) /\ text \in Seq(R)
      /\ \A i \in DOMAIN text : text[i].num \in Int
  BY TextsEnd DEF Taking!IsText
<1> HIDE DEF R
<1>2. ASSUME NEW k \in 0 .. Len(text)
      PROVE  /\ SubSeq(text, 1, k) \in Seq(R) /\ Len(SubSeq(text, 1, k)) = k
             /\ \A i \in 1 .. k : SubSeq(text, 1, k)[i] = text[i]
  BY <1>1
<1>3. ASSUME NEW token, token.num \in Int, NEW left \in Taking!Broken(token)  PROVE left.num \in Int
  <2>1. CASE token.is = "string"
    BY <1>3, <2>1 DEF Taking!Broken, Taking!Str
  <2>2. CASE token.is = "number"
    <3>1. left = Taking!Mark("-") \/ \E n \in Int : left = Taking!Num(n)
      BY <1>3, <2>2, NumberLeft
    <3>2. \A n : Taking!Num(n).num = n
      BY DEF Taking!Num
    <3>3. Taking!Mark("-").num = 0
      BY DEF Taking!Mark
    <3> QED  BY <3>1, <3>2, <3>3
  <2>3. CASE token.is = "word"
    BY <2>3 DEF Taking!Broken, Taking!Word
  <2>4. CASE token.is \notin {"string", "number", "word"}
    BY <2>4 DEF Taking!Broken
  <2> QED  BY <2>1, <2>2, <2>3, <2>4
<1>4. CASE \E k \in 0 .. Len(text) : s = SubSeq(text, 1, k)
  <2>1. PICK k \in 0 .. Len(text) : s = SubSeq(text, 1, k)
    BY <1>4
  <2>2. s \in Seq(R) /\ DOMAIN s = 1 .. k /\ \A i \in 1 .. k : s[i] = text[i] /\ i \in DOMAIN text
    BY <1>1, <1>2, <2>1
  <2> QED  BY <1>1, <2>2, TextOf
<1>5. CASE \E k \in DOMAIN text : \E token \in Taking!Broken(text[k]) : s = Append(SubSeq(text, 1, k - 1), token)
  <2>1. PICK k \in 1 .. Len(text) : \E token \in Taking!Broken(text[k]) : s = Append(SubSeq(text, 1, k - 1), token)
    BY <1>1, <1>5
  <2>2. PICK token \in Taking!Broken(text[k]) : s = Append(SubSeq(text, 1, k - 1), token)
    BY <2>1
  <2>3. token.num \in Int
    BY <1>1, <1>3
  <2>4. PICK u : u = SubSeq(text, 1, k - 1)
    OBVIOUS
  <2>5. u \in Seq(R) /\ Len(u) = k - 1 /\ \A i \in 1 .. k - 1 : u[i] = text[i] /\ i \in DOMAIN text
    <3>1. k - 1 \in 0 .. Len(text)
      BY <1>1
    <3> QED  BY <1>1, <1>2, <2>4, <3>1
  <2>6. s = Append(u, token) /\ u \in Seq(R \union {token})
    BY <2>2, <2>4, <2>5
  <2>7. s \in Seq(R \union {token}) /\ DOMAIN s = 1 .. k
    BY <2>5, <2>6
  <2>8. \A i \in 1 .. k : s[i] = IF i = k THEN token ELSE u[i]
    BY <2>5, <2>6
  <2>9. \A i \in 1 .. k : s[i].num \in Int
    BY <1>1, <2>3, <2>5, <2>8
  <2> QED  BY <2>7, <2>9, TextOf
<1> QED  BY <1>4, <1>5 DEF Taking!Beginnings

\* The maps of strengths and of parameters are filled side by side, and no
\* configuration is loaded that has no material.
LEMMA LoadedHasMaterials ==
  ASSUME NEW system, NEW materials, NEW ahp, NEW vehicles, NEW c, c = Taking!Load(system, materials, ahp, vehicles)
  PROVE  /\ c.loaded \in BOOLEAN
         /\ DOMAIN c.flows = DOMAIN c.strengths
         /\ c.loaded => DOMAIN c.strengths # {}
<1>1. \A root : DOMAIN Taking!Flows(root) = DOMAIN Taking!Strengths(root)
  BY DEF Taking!Flows, Taking!Strengths
<1>2. /\ Taking!Empty.loaded = FALSE
      /\ Taking!Empty.strengths = <<>> /\ Taking!Empty.flows = <<>>
  BY DEF Taking!Empty
<1>3. \/ c = Taking!Empty
      \/ /\ c.strengths = Taking!Strengths(Taking!Parse(materials))
         /\ c.flows = Taking!Flows(Taking!Parse(materials))
         /\ c.loaded \in BOOLEAN
         /\ c.loaded => DOMAIN c.strengths # {}
  BY DEF Taking!Load, Taking!Empty
<1> QED  BY <1>1, <1>2, <1>3

\* A vehicle_id of 32 bits, whatever was sent for one.
LEMMA SensorFits ==
  ASSUME NEW c, NEW V, \A v \in V : Whole(v, V), NEW root \in V, NEW r,
         r = Taking!Stamped(Taking!ParseSensor(c, root))
  PROVE  DOMAIN r = Taking!Field /\ r.vehicle_id \in 0 .. UIntSize - 1
<1> DEFINE s == Taking!ParseSensor(c, root)
<1>1. DOMAIN s = Taking!Field
  BY DEF Taking!ParseSensor
<1>2. "vehicle_id" \in Taking!Field
  BY DEF Taking!Field, Taking!Defaults
<1>3. s["vehicle_id"] \in 0 .. UIntSize - 1
  <2>1. CASE ~Taking!Has(root, "vehicle_id")
    <3>1. s["vehicle_id"] = 1
      BY <1>2, <2>1 DEF Taking!ParseSensor, Taking!Defaults
    <3> QED  BY <3>1, IntakeFits
  <2>2. CASE Taking!Has(root, "vehicle_id")
    <3> DEFINE v == Taking!Member(root, "vehicle_id")
    <3>1. v \in V
      BY <2>2 DEF Taking!Member, Taking!Has, Taking!IsObject, Whole
    <3>2. Taking!AsInt64(v) \in Int
      BY <3>1 DEF Whole, Taking!AsInt64
    <3>3. s["vehicle_id"] = Taking!AsInt64(v) % UIntSize
      BY <1>2, <2>2 DEF Taking!ParseSensor, Taking!Conversion
    <3> HIDE DEF v
    <3> QED  BY <3>2, <3>3, IntakeFits
  <2> QED  BY <2>1, <2>2
<1>4. r = Taking!Stamped(s)
  OBVIOUS
<1> HIDE DEF s
<1>5. DOMAIN r = DOMAIN s /\ r["vehicle_id"] = s["vehicle_id"]
  BY <1>1, <1>2, <1>4 DEF Taking!Stamped
<1> QED  BY <1>1, <1>3, <1>5
\* What a loop keeps is of what it went through.
LEMMA KeptAreThere ==
  ASSUME NEW s, DOMAIN s \subseteq Nat, IsFiniteSet(DOMAIN s), NEW K \in SUBSET DOMAIN s
  PROVE  \E n \in Nat : /\ DOMAIN Taking!Selected(s, K) = 1 .. n
                        /\ \A k \in 1 .. n : \E i \in K : Taking!Selected(s, K)[k] = s[i]
<1>1. K \subseteq Nat /\ IsFiniteSet(K)
  BY FS_Subset
<1>2. Cardinality(K) \in Nat
  BY <1>1, FS_CardinalityType
<1>3. DOMAIN Taking!Selected(s, K) = 1 .. Cardinality(K)
  <2>1. Taking!Selected(s, K) = [n \in 1 .. Cardinality(K) |-> Taking!Selected(s, K)[n]]
    BY <1>1, SelectedFits
  <2> QED  BY <2>1
<1>4. PICK e \in Numbering(K) : \A n \in 1 .. Cardinality(K) : Taking!Selected(s, K)[n] = s[e[n]]
  BY <1>1, SelectedFits
<1>5. \A n \in 1 .. Cardinality(K) : e[n] \in K
  BY DEF Numbering
<1> QED  BY <1>2, <1>3, <1>4, <1>5

\* Readings come of objects that were read, each with all its fields.
LEMMA ReadingsFit ==
  ASSUME NEW text, Taking!IsText(text), NEW c, NEW route, NEW r,
         r = Taking!Readings(c, route, Taking!Parse(text))
  PROVE  \E n \in Nat : /\ DOMAIN r = 1 .. n
                        /\ \A i \in 1 .. n : /\ DOMAIN r[i] = Taking!Field
                                             /\ r[i].vehicle_id \in 0 .. UIntSize - 1
<1>1. PICK V : Taking!Parse(text) \in V /\ \A v \in V : Whole(v, V)
  BY ParsedIsWhole
<1>2. PICK root \in V : root = Taking!Parse(text)
  BY <1>1
<1> DEFINE items == IF route = "single" THEN <<root>> ELSE IF Taking!IsArray(root) THEN root.of ELSE <<>>
           K == {i \in DOMAIN items : Taking!IsObject(items[i])}
           objects == Taking!Selected(items, K)
<1>3. items \in Seq(V)
  <2>1. Taking!IsArray(root) => root.of \in Seq(V)
    BY <1>1 DEF Taking!IsArray, Whole
  <2> QED  BY <2>1
<1>4. r = [i \in DOMAIN objects |-> Taking!Stamped(Taking!ParseSensor(c, objects[i]))]
  BY <1>2 DEF Taking!Readings
<1>5. K \in SUBSET DOMAIN items
  OBVIOUS
<1> HIDE DEF items, K
<1>6. DOMAIN items \subseteq Nat /\ IsFiniteSet(DOMAIN items) /\ \A i \in DOMAIN items : items[i] \in V
  <2>1. Len(items) \in Nat /\ DOMAIN items = 1 .. Len(items) /\ \A i \in 1 .. Len(items) : i \in Nat /\ items[i] \in V
    BY <1>3
  <2>2. IsFiniteSet(1 .. Len(items))
    BY <2>1, FS_Interval
  <2> QED  BY <2>1, <2>2
<1>7. PICK n \in Nat : DOMAIN objects = 1 .. n /\ \A k \in 1 .. n : \E i \in K : objects[k] = items[i]
  BY <1>5, <1>6, KeptAreThere
<1>8. \A k \in 1 .. n : objects[k] \in V
  BY <1>5, <1>6, <1>7
<1> HIDE DEF objects
<1>9. DOMAIN r = 1 .. n
  BY <1>4, <1>7
<1>10. ASSUME NEW k \in 1 .. n  PROVE DOMAIN r[k] = Taking!Field /\ r[k].vehicle_id \in 0 .. UIntSize - 1
  <2>1. r[k] = Taking!Stamped(Taking!ParseSensor(c, objects[k]))
    BY <1>4, <1>7
  <2> QED  BY <1>1, <1>8, <2>1, SensorFits
<1> QED  BY <1>9, <1>10

\* What passes validate is of a material the configuration has, if it has any:
\* the four names that are known without one are not asked then.
LEMMA PassedIsKnown ==
  ASSUME NEW c, DOMAIN c.strengths # {}, NEW r, Taking!Validate(c, r) = "OK"
  PROVE  r.protection_material \in DOMAIN c.strengths
<1> DEFINE broken == {i \in 1 .. 10 : Taking!Rules(c, r)[i][2]}
           first == CHOOSE i \in broken : \A j \in broken : i <= j
<1>1. Taking!Validate(c, r) = IF broken = {} THEN "OK" ELSE Taking!Rules(c, r)[first][1]
  BY DEF Taking!Validate
<1>2. \A i \in 1 .. 10 : Taking!Rules(c, r)[i][1] # "OK"
  <2>1. /\ Taking!Rules(c, r)[1][1] # "OK" /\ Taking!Rules(c, r)[2][1] # "OK"
        /\ Taking!Rules(c, r)[3][1] # "OK" /\ Taking!Rules(c, r)[4][1] # "OK"
        /\ Taking!Rules(c, r)[5][1] # "OK" /\ Taking!Rules(c, r)[6][1] # "OK"
        /\ Taking!Rules(c, r)[7][1] # "OK" /\ Taking!Rules(c, r)[8][1] # "OK"
        /\ Taking!Rules(c, r)[9][1] # "OK" /\ Taking!Rules(c, r)[10][1] # "OK"
    BY DEF Taking!Rules
  <2>2. ASSUME NEW i \in 1 .. 10
        PROVE  i = 1 \/ i = 2 \/ i = 3 \/ i = 4 \/ i = 5 \/ i = 6 \/ i = 7 \/ i = 8 \/ i = 9 \/ i = 10
    OBVIOUS
  <2> QED  BY <2>1, <2>2
<1>3. broken = {}
  <2>1. SUFFICES ASSUME broken # {}  PROVE FALSE
    OBVIOUS
  <2>2. broken \subseteq Nat /\ broken \subseteq 1 .. 10
    OBVIOUS
  <2>3. first \in broken
    <3> HIDE DEF broken
    <3> QED  BY <2>1, <2>2, LeastOf
  <2>4. first \in 1 .. 10
    BY <2>2, <2>3
  <2> HIDE DEF broken, first
  <2> QED  BY <1>1, <1>2, <2>1, <2>4
<1>4. ~Taking!Rules(c, r)[8][2]
  BY <1>3
<1>5. Taking!Supported(c, r.protection_material) \/ Taking!HasMaterial(c, r.protection_material)
  BY <1>4 DEF Taking!Rules
<1> QED  BY <1>5 DEF Taking!Supported, Taking!HasMaterial
-----------------------------------------------------------------------------
(* Intake: what is queued                                                  *)

\* Nothing is queued before main is up, which it never is without a material,
\* and what is queued is of one that the configuration has.
IInv ==
  /\ Taking!TypeOK
  /\ main = "up" => DOMAIN config.strengths # {}
  /\ main # "up" => queued = <<>>
  /\ \A i \in DOMAIN queued : queued[i].protection_material \in DOMAIN config.strengths

LEMMA IInvInit == Init => IInv
<1>1. DOMAIN <<>> = {}
  OBVIOUS
<1> QED  BY <1>1 DEF Init, Taking!Init, IInv, Taking!TypeOK, Taking!Empty

\* What a request queues.
LEMMA QueuedFits ==
  ASSUME NEW text, Taking!IsText(text), NEW c, DOMAIN c.strengths # {}, NEW route, NEW r,
         r = Taking!Readings(c, route, Taking!Parse(text)),
         NEW K, \A i : i \in K <=> i \in DOMAIN r /\ Taking!Validate(c, r[i]) = "OK",
         NEW q, q = Taking!Selected(r, K)
  PROVE  /\ \A i \in DOMAIN r : DOMAIN r[i] = Taking!Field /\ r[i].vehicle_id \in 0 .. UIntSize - 1
         /\ \A k \in DOMAIN q : /\ \E i \in DOMAIN r : q[k] = r[i]
                                /\ q[k].protection_material \in DOMAIN c.strengths
<1>1. PICK n \in Nat : /\ DOMAIN r = 1 .. n
                       /\ \A i \in 1 .. n : /\ DOMAIN r[i] = Taking!Field
                                            /\ r[i].vehicle_id \in 0 .. UIntSize - 1
  BY ReadingsFit
<1>2. DOMAIN r \subseteq Nat /\ IsFiniteSet(DOMAIN r)
  BY <1>1, FS_Interval
<1>3. K \in SUBSET DOMAIN r /\ \A i \in K : Taking!Validate(c, r[i]) = "OK"
  OBVIOUS
<1>4. PICK m \in Nat : /\ DOMAIN Taking!Selected(r, K) = 1 .. m
                       /\ \A k \in 1 .. m : \E i \in K : Taking!Selected(r, K)[k] = r[i]
  BY <1>2, <1>3, KeptAreThere
<1>5. ASSUME NEW k \in DOMAIN q
      PROVE  (\E i \in DOMAIN r : q[k] = r[i]) /\ q[k].protection_material \in DOMAIN c.strengths
  <2>1. PICK i \in K : q[k] = r[i]
    BY <1>4
  <2>2. Taking!Validate(c, q[k]) = "OK"
    BY <1>3, <2>1
  <2> QED  BY <1>3, <2>1, <2>2, PassedIsKnown
<1> QED  BY <1>1, <1>5

LEMMA PostFits ==
  ASSUME IInv, NEW route, Taking!Post(route)
  PROVE  IInv'
<1>1. /\ main = "up" /\ main' = main /\ config' = config
      /\ \E meant \in Bodies : \E text \in Taking!Beginnings(meant) :
           /\ read' = Taking!Readings(config, route, Taking!Parse(text))
           /\ queued' = Taking!Selected(read', {i \in DOMAIN read' : Taking!Validate(config, read'[i]) = "OK"})
  BY DEF Taking!Post
<1>2. PICK meant \in Bodies : \E text \in Taking!Beginnings(meant) :
        /\ read' = Taking!Readings(config, route, Taking!Parse(text))
        /\ queued' = Taking!Selected(read', {i \in DOMAIN read' : Taking!Validate(config, read'[i]) = "OK"})
  BY <1>1
<1>3. PICK text \in Taking!Beginnings(meant) :
        /\ read' = Taking!Readings(config, route, Taking!Parse(text))
        /\ queued' = Taking!Selected(read', {i \in DOMAIN read' : Taking!Validate(config, read'[i]) = "OK"})
  BY <1>2
<1>4. Taking!IsText(text)
  BY IntakeFits, BeginningsAreTexts
<1>5. PICK c : c = config
  OBVIOUS
<1>6. PICK r : r = read'
  OBVIOUS
<1>7. PICK q : q = queued'
  OBVIOUS
<1>8. PICK K : K = {i \in DOMAIN r : Taking!Validate(c, r[i]) = "OK"}
  OBVIOUS
<1>9. q = Taking!Selected(r, K)
  BY <1>3, <1>5, <1>6, <1>7, <1>8
<1>10. /\ DOMAIN c.strengths # {} /\ r = Taking!Readings(c, route, Taking!Parse(text))
       /\ \A i : i \in K <=> i \in DOMAIN r /\ Taking!Validate(c, r[i]) = "OK"
  BY <1>1, <1>3, <1>5, <1>6, <1>8 DEF IInv
<1>11. /\ \A i \in DOMAIN r : DOMAIN r[i] = Taking!Field /\ r[i].vehicle_id \in 0 .. UIntSize - 1
       /\ \A k \in DOMAIN q : /\ \E i \in DOMAIN r : q[k] = r[i]
                              /\ q[k].protection_material \in DOMAIN c.strengths
  BY <1>4, <1>9, <1>10, QueuedFits
<1>12. /\ main \in {"new", "up", "exited"} /\ c.loaded \in BOOLEAN /\ DOMAIN c.flows = DOMAIN c.strengths
  BY <1>5 DEF IInv, Taking!TypeOK
<1> QED  BY <1>1, <1>5, <1>6, <1>7, <1>11, <1>12 DEF IInv, Taking!TypeOK

LEMMA IInvStep == IInv /\ [Taking!Next]_intakeVars => IInv'
<1> SUFFICES ASSUME IInv, [Taking!Next]_intakeVars  PROVE IInv'
  OBVIOUS
<1>1. DOMAIN <<>> = {}
  OBVIOUS
<1>2. CASE Taking!Start
  <2>1. /\ main = "new" /\ read' = read /\ queued' = queued
        /\ main' = IF config'.loaded THEN "up" ELSE "exited"
    BY <1>2 DEF Taking!Start
  <2>2. PICK c : c = config'
    OBVIOUS
  <2>3. \E system, materials, ahp, vehicles : c = Taking!Load(system, materials, ahp, vehicles)
    BY <1>2, <2>2 DEF Taking!Start
  <2>4. /\ c.loaded \in BOOLEAN /\ DOMAIN c.flows = DOMAIN c.strengths
        /\ c.loaded => DOMAIN c.strengths # {}
    BY <2>3, LoadedHasMaterials
  <2>5. queued = <<>> /\ queued' = <<>>
    BY <2>1 DEF IInv
  <2> QED  BY <1>1, <2>1, <2>2, <2>4, <2>5 DEF IInv, Taking!TypeOK
<1>3. CASE Taking!Post("single") \/ Taking!Post("batch")
  BY <1>3, PostFits
<1>4. CASE Taking!Return
  <2>1. read' = <<>> /\ queued' = <<>> /\ main' = main /\ config' = config
    BY <1>4 DEF Taking!Return
  <2> QED  BY <1>1, <2>1 DEF IInv, Taking!TypeOK
<1>5. CASE UNCHANGED intakeVars
  BY <1>5 DEF intakeVars, IInv, Taking!TypeOK
<1> QED  BY <1>2, <1>3, <1>4, <1>5 DEF Taking!Next

(***************************************************************************)
(* Both routes of ingest queue readings that were read from the request,   *)
(* with all their fields, of materials the configuration has, and none     *)
(* before main is up: for any configuration files and bodies, wherever     *)
(* they are cut off.                                                       *)
(***************************************************************************)
THEOREM QueuedAreReadings == Spec => []IInv
<1>1. IInv /\ [Next]_vars => IInv'
  BY IInvStep, StepsOfComponents
<1> QED  BY <1>1, IInvInit, PTL DEF Spec

(***************************************************************************)
(* get_material and get_jc_params are never asked, for what was queued,    *)
(* for a name they do not have, which they would answer with another's     *)
(* entry.                                                                  *)
(***************************************************************************)
THEOREM MaterialsAreTheirOwn == Spec => []Taking!MaterialIsItsOwn
<1>1. IInv => Taking!MaterialIsItsOwn
  BY DEF IInv, Taking!TypeOK, Taking!MaterialIsItsOwn, Taking!MaterialOf, Taking!FlowOf, Taking!Entry
<1> QED  BY <1>1, QueuedAreReadings, PTL

-----------------------------------------------------------------------------
(* json::parse on a text that was cut off                                  *)

ValueAt(f, i) == f[<<"value", i>>]
MembersAt(f, i) == f[<<"members", i>>]
ElementsAt(f, i) == f[<<"elements", i>>]

\* What is neither an object nor an array is read from its first token.
Scalar(text, i) ==
  CASE Taking!Starts(text, i, "string") -> Taking!Read([type |-> "string", of |-> text[i].text], i + 1)
    [] Taking!Starts(text, i, "number") -> Taking!Read([type |-> "int", of |-> text[i].num], i + 1)
    [] Taking!Starts(text, i, "-")      -> Taking!Read(Taking!Null, i + 1)
    [] Taking!Starts(text, i, "word")   -> Taking!ParseWord(text, i)
    [] OTHER                            -> Taking!Read(Taking!Null, i)

\* The equations of the three functions at a place.
ValueFits(f, text, i) ==
  /\ ValueAt(f, i).next \in Nat /\ ValueAt(f, i).next >= i
  /\ Taking!Starts(text, i, "{") /\ Taking!Starts(text, i + 1, "}") =>
       ValueAt(f, i) = Taking!Read(Taking!Object(<<>>), i + 2)
  /\ Taking!Starts(text, i, "{") /\ ~Taking!Starts(text, i + 1, "}") => ValueAt(f, i) = MembersAt(f, i + 1)
  /\ Taking!Starts(text, i, "[") /\ Taking!Starts(text, i + 1, "]") =>
       ValueAt(f, i) = Taking!Read(Taking!Array(<<>>), i + 2)
  /\ Taking!Starts(text, i, "[") /\ ~Taking!Starts(text, i + 1, "]") => ValueAt(f, i) = ElementsAt(f, i + 1)
  /\ ~Taking!Starts(text, i, "{") /\ ~Taking!Starts(text, i, "[") => ValueAt(f, i) = Scalar(text, i)

MembersFrom(text, i, result, member, others) ==
  /\ member.next \in Nat /\ member.next >= i + 2
  /\ result.next \in Nat /\ result.next >= i + 2
  /\ result.value.type = "object"
  /\ ~Taking!Starts(text, i + 1, ":") => result = Taking!Read(Taking!Object(<<>>), i + 2)
  /\ Taking!Starts(text, i + 1, ":") /\ Taking!Starts(text, member.next, ",") =>
       result = Taking!Read(Taking!AddMember(Taking!Key(text, i), member.value, others.value), others.next)
  /\ Taking!Starts(text, i + 1, ":") /\ ~Taking!Starts(text, member.next, ",") =>
       result =
         Taking!Read(Taking!AddMember(Taking!Key(text, i), member.value, Taking!Object(<<>>)), member.next + 1)
MembersFit(f, text, i) ==
  MembersFrom(text, i, MembersAt(f, i), ValueAt(f, i + 2), MembersAt(f, ValueAt(f, i + 2).next + 1))

ElementsFrom(text, i, result, element, others) ==
  /\ element.next \in Nat /\ element.next >= i
  /\ result.next \in Nat /\ result.next >= i + 1
  /\ result.value.type = "array"
  /\ Taking!Starts(text, element.next, ",") =>
       result = Taking!Read(Taking!AddElement(element.value, others.value), others.next)
  /\ ~Taking!Starts(text, element.next, ",") =>
       result = Taking!Read(Taking!AddElement(element.value, Taking!Array(<<>>)), element.next + 1)
ElementsFit(f, text, i) ==
  ElementsFrom(text, i, ElementsAt(f, i), ValueAt(f, i), ElementsAt(f, ValueAt(f, i).next + 1))

Fits(f, text) ==
  \A i \in Nat : ValueFits(f, text, i) /\ MembersFit(f, text, i) /\ ElementsFit(f, text, i)

\* What was read, and where it goes on.
LEMMA ReadIs ==
  \A v, n : Taking!Read(v, n).value = v /\ Taking!Read(v, n).next = n
BY DEF Taking!Read

LEMMA MadeTypes ==
  /\ \A o : Taking!Object(o).type = "object" /\ Taking!Object(o).of = o
  /\ \A s : Taking!Array(s).type = "array" /\ Taking!Array(s).of = s
  /\ \A key, v, others : Taking!AddMember(key, v, others).type = "object"
  /\ \A v, others : Taking!AddElement(v, others).type = "array"
BY DEF Taking!Object, Taking!Array, Taking!AddMember, Taking!AddElement

\* What json::parse reads of a text fits the equations of its functions.
LEMMA ReadingFits ==
  ASSUME NEW text, NEW f, ReadFrom(f, text, 0), Onward(f, 0)
  PROVE  Fits(f, text)
<1>1. ASSUME NEW i \in Nat
      PROVE  /\ ValueAt(f, i) = Taking!ParseValue(f, text, i)
             /\ MembersAt(f, i) = Taking!Members(f, text, i)
             /\ ElementsAt(f, i) = Taking!Elements(f, text, i)
  <2>1. \A job \in Jobs : f[job] = ReadAt(f, text, job)
    BY JobIs DEF ReadFrom
  <2>2. <<"value", i>> \in Jobs /\ <<"members", i>> \in Jobs /\ <<"elements", i>> \in Jobs
    BY JobsThere
  <2> QED  BY <2>1, <2>2, ReadAtIs DEF ValueAt, MembersAt, ElementsAt
<1>2. ASSUME NEW i \in Nat
      PROVE  /\ ValueAt(f, i).next \in Nat /\ ValueAt(f, i).next >= i
             /\ MembersAt(f, i).next \in Nat /\ MembersAt(f, i).next >= i
             /\ ElementsAt(f, i).next \in Nat /\ ElementsAt(f, i).next >= i
  <2>1. i >= 0
    OBVIOUS
  <2>2. <<"value", i>> \in Jobs /\ <<"members", i>> \in Jobs /\ <<"elements", i>> \in Jobs
    BY JobsThere
  <2>3. <<"value", i>>[2] = i /\ <<"members", i>>[2] = i /\ <<"elements", i>>[2] = i
    OBVIOUS
  <2>4. \A job \in Jobs : job[2] >= 0 => f[job].next \in Nat /\ f[job].next >= job[2]
    BY DEF Onward
  <2>5. f[<<"value", i>>].next \in Nat /\ f[<<"value", i>>].next >= i
    BY ONLY <2>1, <2>2, <2>3, <2>4
  <2>6. f[<<"members", i>>].next \in Nat /\ f[<<"members", i>>].next >= i
    BY ONLY <2>1, <2>2, <2>3, <2>4
  <2>7. f[<<"elements", i>>].next \in Nat /\ f[<<"elements", i>>].next >= i
    BY ONLY <2>1, <2>2, <2>3, <2>4
  <2> QED  BY ONLY <2>5, <2>6, <2>7 DEF ValueAt, MembersAt, ElementsAt
<1> SUFFICES ASSUME NEW i \in Nat
             PROVE  ValueFits(f, text, i) /\ MembersFit(f, text, i) /\ ElementsFit(f, text, i)
  BY DEF Fits
<1>3. ValueFits(f, text, i)
  <2>1. PICK result : result = ValueAt(f, i)
    OBVIOUS
  <2>2. result = Taking!ParseValue(f, text, i)
    BY <1>1, <2>1
  <2>3. result.next \in Nat /\ result.next >= i
    BY <1>2, <2>1
  <2>4. Taking!Starts(text, i, "{") =>
          result = IF Taking!Starts(text, i + 1, "}") THEN Taking!Read(Taking!Object(<<>>), i + 2)
                                                    ELSE MembersAt(f, i + 1)
    BY <2>2 DEF Taking!ParseValue, MembersAt, Taking!Starts
  <2>5. Taking!Starts(text, i, "[") =>
          result = IF Taking!Starts(text, i + 1, "]") THEN Taking!Read(Taking!Array(<<>>), i + 2)
                                                    ELSE ElementsAt(f, i + 1)
    BY <2>2 DEF Taking!ParseValue, ElementsAt, Taking!Starts
  <2>6. ~Taking!Starts(text, i, "{") /\ ~Taking!Starts(text, i, "[") => result = Scalar(text, i)
    BY <2>2 DEF Taking!ParseValue, Scalar, Taking!Starts
  <2> QED  BY <2>1, <2>3, <2>4, <2>5, <2>6 DEF ValueFits
<1>4. MembersFit(f, text, i)
  <2>1. PICK member : member = ValueAt(f, i + 2)
    OBVIOUS
  <2>2. PICK others : others = MembersAt(f, member.next + 1)
    OBVIOUS
  <2>3. PICK result : result = MembersAt(f, i)
    OBVIOUS
  <2>4. member.next \in Nat /\ member.next >= i + 2
    BY <1>2, <2>1
  <2>5. others.next \in Nat /\ others.next >= member.next + 1
    BY <1>2, <2>2, <2>4
  <2>6. result =
          IF ~Taking!Starts(text, i + 1, ":") THEN Taking!Read(Taking!Object(<<>>), i + 2)
          ELSE LET more == IF Taking!Starts(text, member.next, ",") THEN others
                                             ELSE Taking!Read(Taking!Object(<<>>), member.next + 1)
               IN  Taking!Read(Taking!AddMember(Taking!Key(text, i), member.value, more.value), more.next)
    <3>1. result = Taking!Members(f, text, i)
      BY <1>1, <2>3
    <3> QED  BY <2>1, <2>2, <3>1 DEF Taking!Members, ValueAt, MembersAt
  <2>7. ~Taking!Starts(text, i + 1, ":") => result = Taking!Read(Taking!Object(<<>>), i + 2)
    BY <2>6
  <2>8. Taking!Starts(text, i + 1, ":") /\ Taking!Starts(text, member.next, ",") =>
          result = Taking!Read(Taking!AddMember(Taking!Key(text, i), member.value, others.value), others.next)
    BY <2>6
  <2>9. Taking!Starts(text, i + 1, ":") /\ ~Taking!Starts(text, member.next, ",") =>
           result = Taking!Read(Taking!AddMember(Taking!Key(text, i), member.value, Taking!Object(<<>>)), member.next + 1)
    BY <2>6, ReadIs
  <2>10. result.next \in Nat /\ result.next >= i + 2 /\ result.value.type = "object"
    <3>1. PICK after \in Nat : after = member.next + 1
      BY <2>4
    <3>2. PICK none \in Nat : none = i + 2
      OBVIOUS
    <3>3. \/ result = Taking!Read(Taking!Object(<<>>), none)
          \/ result = Taking!Read(Taking!AddMember(Taking!Key(text, i), member.value, others.value), others.next)
          \/ result = Taking!Read(Taking!AddMember(Taking!Key(text, i), member.value, Taking!Object(<<>>)), after)
      BY <2>7, <2>8, <2>9, <3>1, <3>2
    <3>4. result.next \in {none, others.next, after} /\ result.value.type = "object"
      BY ONLY <3>3, ReadIs, MadeTypes
    <3> QED  BY <2>4, <2>5, <3>1, <3>2, <3>4
  <2>11. MembersFrom(text, i, result, member, others)
    BY <2>4, <2>7, <2>8, <2>9, <2>10 DEF MembersFrom
  <2> QED  BY ONLY <2>1, <2>2, <2>3, <2>11 DEF MembersFit
<1>5. ElementsFit(f, text, i)
  <2>1. PICK element : element = ValueAt(f, i)
    OBVIOUS
  <2>2. PICK others : others = ElementsAt(f, element.next + 1)
    OBVIOUS
  <2>3. PICK result : result = ElementsAt(f, i)
    OBVIOUS
  <2>4. element.next \in Nat /\ element.next >= i
    BY <1>2, <2>1
  <2>5. others.next \in Nat /\ others.next >= element.next + 1
    BY <1>2, <2>2, <2>4
  <2>6. result =
          LET more == IF Taking!Starts(text, element.next, ",") THEN others
                                             ELSE Taking!Read(Taking!Array(<<>>), element.next + 1)
          IN  Taking!Read(Taking!AddElement(element.value, more.value), more.next)
    <3>1. result = Taking!Elements(f, text, i)
      BY <1>1, <2>3
    <3> QED  BY <2>1, <2>2, <3>1 DEF Taking!Elements, ValueAt, ElementsAt
  <2>7. Taking!Starts(text, element.next, ",") =>
          result = Taking!Read(Taking!AddElement(element.value, others.value), others.next)
    BY <2>6
  <2>8. ~Taking!Starts(text, element.next, ",") =>
           result = Taking!Read(Taking!AddElement(element.value, Taking!Array(<<>>)), element.next + 1)
    BY <2>6, ReadIs
  <2>9. result.next \in Nat /\ result.next >= i + 1 /\ result.value.type = "array"
    <3>1. PICK after \in Nat : after = element.next + 1
      BY <2>4
    <3>2. \/ result = Taking!Read(Taking!AddElement(element.value, others.value), others.next)
          \/ result = Taking!Read(Taking!AddElement(element.value, Taking!Array(<<>>)), after)
      BY <2>7, <2>8, <3>1
    <3>3. result.next \in {others.next, after} /\ result.value.type = "array"
      BY ONLY <3>2, ReadIs, MadeTypes
    <3> QED  BY <2>4, <2>5, <3>1, <3>3
  <2>10. ElementsFrom(text, i, result, element, others)
    BY <2>4, <2>7, <2>8, <2>9 DEF ElementsFrom
  <2> QED  BY ONLY <2>1, <2>2, <2>3, <2>10 DEF ElementsFit
<1> QED  BY <1>3, <1>4, <1>5

\* Each function goes on behind the place it began at, parse_value perhaps at it.
LEMMA NextPlaces ==
  ASSUME NEW text, NEW f, Fits(f, text), NEW i \in Nat
  PROVE  /\ ValueAt(f, i).next \in Nat /\ ValueAt(f, i).next >= i
         /\ MembersAt(f, i).next \in Nat /\ MembersAt(f, i).next >= i + 2
         /\ ElementsAt(f, i).next \in Nat /\ ElementsAt(f, i).next >= i + 1
<1>1. ValueFits(f, text, i) /\ MembersFit(f, text, i) /\ ElementsFit(f, text, i)
  BY DEF Fits
<1>2. ValueAt(f, i).next \in Nat /\ ValueAt(f, i).next >= i
  BY <1>1 DEF ValueFits
<1>3. MembersAt(f, i).next \in Nat /\ MembersAt(f, i).next >= i + 2
  BY <1>1 DEF MembersFit, MembersFrom
<1>4. ElementsAt(f, i).next \in Nat /\ ElementsAt(f, i).next >= i + 1
  BY <1>1 DEF ElementsFit, ElementsFrom
<1> QED  BY <1>2, <1>3, <1>4
-----------------------------------------------------------------------------
(* Texts that are the same up to a place                                   *)

\* Two texts have the same token at a place, or none.
SameToken(s, t, i) ==
  /\ \A c : Taking!Starts(s, i, c) <=> Taking!Starts(t, i, c)
  /\ Taking!Key(s, i) = Taking!Key(t, i) /\ Scalar(s, i) = Scalar(t, i)

\* What f read at a place without going past b, g read there too.
SameUpTo(f, g, b, i) ==
  /\ ValueAt(f, i).next <= b => ValueAt(g, i) = ValueAt(f, i)
  /\ MembersAt(f, i).next <= b => MembersAt(g, i) = MembersAt(f, i)
  /\ ElementsAt(f, i).next <= b => ElementsAt(g, i) = ElementsAt(f, i)

\* The two texts are the same before b, and at b if the parser stays there.
SameBefore(f, t, g, s, b) ==
  /\ Fits(f, t) /\ Fits(g, s)
  /\ \A i \in Nat : i < b => SameToken(s, t, i)
  /\ ValueAt(f, b).next = b => ValueAt(g, b) = ValueAt(f, b)

\* What parse_value reads before b is the same in both texts, if what is read
\* further on is.
LEMMA SameValue ==
  ASSUME NEW f, NEW t, NEW g, NEW s, NEW b \in Nat, SameBefore(f, t, g, s, b),
         NEW i \in Nat, \A j \in Nat : j > i => SameUpTo(f, g, b, j), ValueAt(f, i).next <= b
  PROVE  ValueAt(g, i) = ValueAt(f, i)
<1>1. ValueFits(f, t, i) /\ ValueFits(g, s, i) /\ MembersFit(f, t, i + 1) /\ ElementsFit(f, t, i + 1)
  BY DEF SameBefore, Fits
<1>2. ValueAt(f, i).next \in Nat /\ ValueAt(f, i).next >= i
  BY <1>1 DEF ValueFits
<1>3. CASE i = b
  <2>1. ValueAt(f, b).next = b
    BY <1>2, <1>3
  <2> QED  BY <1>3, <2>1 DEF SameBefore
<1>4. CASE i < b
  <2>1. SameToken(s, t, i)
    BY <1>4 DEF SameBefore
  <2>2. i + 1 \in Nat /\ i + 1 > i
    OBVIOUS
  <2>3. SameUpTo(f, g, b, i + 1)
    BY <2>2
  <2>4. i + 1 < b => SameToken(s, t, i + 1)
    BY <2>2 DEF SameBefore
  <2>5. /\ MembersAt(f, i + 1).next \in Nat /\ MembersAt(f, i + 1).next >= i + 3
        /\ ElementsAt(f, i + 1).next \in Nat /\ ElementsAt(f, i + 1).next >= i + 2
    <3>1. PICK j \in Nat : j = i + 1
      OBVIOUS
    <3>2. Fits(f, t)
      BY DEF SameBefore
    <3>3. /\ MembersAt(f, j).next \in Nat /\ MembersAt(f, j).next >= j + 2
          /\ ElementsAt(f, j).next \in Nat /\ ElementsAt(f, j).next >= j + 1
      BY <3>2, NextPlaces
    <3> QED  BY <3>1, <3>3
  <2>7. CASE Taking!Starts(t, i, "{")
    <3>1. Taking!Starts(s, i, "{")
      BY <2>1, <2>7 DEF SameToken
    <3>2. CASE Taking!Starts(t, i + 1, "}")
      <4>1. ValueAt(f, i) = Taking!Read(Taking!Object(<<>>), i + 2)
        BY <1>1, <2>7, <3>2 DEF ValueFits
      <4>2. ValueAt(f, i).next = i + 2
        BY ONLY <4>1, ReadIs
      <4>3. i + 1 < b
        BY <4>2
      <4>4. Taking!Starts(s, i + 1, "}")
        BY <2>4, <3>2, <4>3 DEF SameToken
      <4> QED  BY <1>1, <3>1, <4>1, <4>4 DEF ValueFits
    <3>3. CASE ~Taking!Starts(t, i + 1, "}")
      <4>1. ValueAt(f, i) = MembersAt(f, i + 1)
        BY <1>1, <2>7, <3>3 DEF ValueFits
      <4>2. i + 1 < b
        BY <2>5, <4>1
      <4>3. ~Taking!Starts(s, i + 1, "}")
        BY <2>4, <3>3, <4>2 DEF SameToken
      <4>4. ValueAt(g, i) = MembersAt(g, i + 1)
        BY <1>1, <3>1, <4>3 DEF ValueFits
      <4> QED  BY <2>3, <4>1, <4>4 DEF SameUpTo
    <3> QED  BY <3>2, <3>3
  <2>8. CASE Taking!Starts(t, i, "[")
    <3>1. Taking!Starts(s, i, "[")
      BY <2>1, <2>8 DEF SameToken
    <3>2. CASE Taking!Starts(t, i + 1, "]")
      <4>1. ValueAt(f, i) = Taking!Read(Taking!Array(<<>>), i + 2)
        BY <1>1, <2>8, <3>2 DEF ValueFits
      <4>2. ValueAt(f, i).next = i + 2
        BY ONLY <4>1, ReadIs
      <4>3. i + 1 < b
        BY <4>2
      <4>4. Taking!Starts(s, i + 1, "]")
        BY <2>4, <3>2, <4>3 DEF SameToken
      <4> QED  BY <1>1, <3>1, <4>1, <4>4 DEF ValueFits
    <3>3. CASE ~Taking!Starts(t, i + 1, "]")
      <4>1. ValueAt(f, i) = ElementsAt(f, i + 1)
        BY <1>1, <2>8, <3>3 DEF ValueFits
      <4>2. i + 1 < b
        BY <2>5, <4>1
      <4>3. ~Taking!Starts(s, i + 1, "]")
        BY <2>4, <3>3, <4>2 DEF SameToken
      <4>4. ValueAt(g, i) = ElementsAt(g, i + 1)
        BY <1>1, <3>1, <4>3 DEF ValueFits
      <4> QED  BY <2>3, <4>1, <4>4 DEF SameUpTo
    <3> QED  BY <3>2, <3>3
  <2>9. CASE ~Taking!Starts(t, i, "{") /\ ~Taking!Starts(t, i, "[")
    <3>1. ~Taking!Starts(s, i, "{") /\ ~Taking!Starts(s, i, "[")
      BY <2>1, <2>9 DEF SameToken
    <3>2. ValueAt(f, i) = Scalar(t, i)
      BY ONLY <1>1, <2>9 DEF ValueFits
    <3>3. ValueAt(g, i) = Scalar(s, i)
      BY ONLY <1>1, <3>1 DEF ValueFits
    <3> QED  BY <2>1, <3>2, <3>3 DEF SameToken
  <2> QED  BY <2>7, <2>8, <2>9
<1> QED  BY <1>2, <1>3, <1>4

\* The same for parse_object, from a member on.
LEMMA SameMembers ==
  ASSUME NEW f, NEW t, NEW g, NEW s, NEW b \in Nat, SameBefore(f, t, g, s, b),
         NEW i \in Nat, \A j \in Nat : j > i => SameUpTo(f, g, b, j), MembersAt(f, i).next <= b
  PROVE  MembersAt(g, i) = MembersAt(f, i)
<1>1. i + 2 \in Nat /\ i + 2 > i
  OBVIOUS
<1>2. PICK member : member = ValueAt(f, i + 2)
  OBVIOUS
<1>3. PICK others : others = MembersAt(f, member.next + 1)
  OBVIOUS
<1>4. MembersFrom(t, i, MembersAt(f, i), member, others)
  BY <1>2, <1>3 DEF SameBefore, Fits, MembersFit
<1>5. /\ member.next \in Nat /\ member.next >= i + 2
      /\ MembersAt(f, i).next \in Nat /\ MembersAt(f, i).next >= i + 2
  BY <1>4 DEF MembersFrom
<1>6. SameToken(s, t, i) /\ SameToken(s, t, i + 1)
  <2>1. i < b /\ i + 1 < b /\ i + 1 \in Nat
    BY <1>5
  <2> QED  BY <2>1 DEF SameBefore
<1>7. CASE ~Taking!Starts(t, i + 1, ":")
  <2>1. ~Taking!Starts(s, i + 1, ":")
    BY <1>6, <1>7 DEF SameToken
  <2>2. MembersAt(f, i) = Taking!Read(Taking!Object(<<>>), i + 2)
    BY <1>4, <1>7 DEF MembersFrom
  <2>3. MembersAt(g, i) = Taking!Read(Taking!Object(<<>>), i + 2)
    <3>1. MembersFit(g, s, i)
      BY DEF SameBefore, Fits
    <3> QED  BY ONLY <2>1, <3>1 DEF MembersFit, MembersFrom
  <2> QED  BY <2>2, <2>3
<1>8. CASE Taking!Starts(t, i + 1, ":")
  <2>1. Taking!Starts(s, i + 1, ":") /\ Taking!Key(s, i) = Taking!Key(t, i)
    BY <1>6, <1>8 DEF SameToken
  <2>2. PICK after \in Nat : after = member.next + 1
    BY <1>5
  <2>3. SameUpTo(f, g, b, after) /\ SameUpTo(f, g, b, i + 2)
    <3>1. after > i
      BY <1>5, <2>2
    <3> QED  BY <1>1, <3>1
  <2>4. MembersFit(f, t, after)
    BY DEF SameBefore, Fits
  <2>5. others = MembersAt(f, after) /\ others.next \in Nat /\ others.next >= after + 2
    BY <1>3, <2>2, <2>4 DEF MembersFit, MembersFrom
  <2>6. CASE Taking!Starts(t, member.next, ",")
    <3>1. MembersAt(f, i) =
            Taking!Read(Taking!AddMember(Taking!Key(t, i), member.value, others.value), others.next)
      BY <1>4, <1>8, <2>6 DEF MembersFrom
    <3>2. others.next <= b
      <4>1. MembersAt(f, i).next = others.next
        BY ONLY <3>1, ReadIs
      <4> QED  BY <4>1
    <3>3. member.next < b
      BY <1>5, <2>2, <2>5, <3>2
    <3>4. ValueAt(g, i + 2) = member /\ MembersAt(g, after) = others
      BY <1>2, <1>5, <2>3, <2>5, <3>2, <3>3 DEF SameUpTo
    <3>5. Taking!Starts(s, member.next, ",")
      BY <1>5, <2>6, <3>3 DEF SameBefore, SameToken
    <3>6. MembersFrom(s, i, MembersAt(g, i), member, others)
      BY <2>2, <3>4 DEF SameBefore, Fits, MembersFit
    <3>7. MembersAt(g, i) =
            Taking!Read(Taking!AddMember(Taking!Key(s, i), member.value, others.value), others.next)
      BY <2>1, <3>5, <3>6 DEF MembersFrom
    <3> QED  BY <2>1, <3>1, <3>7
  <2>7. CASE ~Taking!Starts(t, member.next, ",")
    <3>1. MembersAt(f, i) =
            Taking!Read(Taking!AddMember(Taking!Key(t, i), member.value, Taking!Object(<<>>)), after)
      BY <1>4, <1>8, <2>2, <2>7 DEF MembersFrom
    <3>2. member.next < b
      <4>1. MembersAt(f, i).next = after
        BY ONLY <3>1, ReadIs
      <4> QED  BY <1>5, <2>2, <4>1
    <3>3. ValueAt(g, i + 2) = member
      BY <1>2, <1>5, <2>3, <3>2 DEF SameUpTo
    <3>4. ~Taking!Starts(s, member.next, ",")
      BY <1>5, <2>7, <3>2 DEF SameBefore, SameToken
    <3>5. MembersFrom(s, i, MembersAt(g, i), member, MembersAt(g, after))
      BY <2>2, <3>3 DEF SameBefore, Fits, MembersFit
    <3>6. MembersAt(g, i) =
            Taking!Read(Taking!AddMember(Taking!Key(s, i), member.value, Taking!Object(<<>>)), after)
      BY <2>1, <2>2, <3>4, <3>5 DEF MembersFrom
    <3> QED  BY <2>1, <3>1, <3>6
  <2> QED  BY <2>6, <2>7
<1> QED  BY <1>7, <1>8

\* The same for parse_array, from an element on.
LEMMA SameElements ==
  ASSUME NEW f, NEW t, NEW g, NEW s, NEW b \in Nat, SameBefore(f, t, g, s, b),
         NEW i \in Nat, \A j \in Nat : j > i => SameUpTo(f, g, b, j), ElementsAt(f, i).next <= b
  PROVE  ElementsAt(g, i) = ElementsAt(f, i)
<1>1. PICK element : element = ValueAt(f, i)
  OBVIOUS
<1>2. PICK others : others = ElementsAt(f, element.next + 1)
  OBVIOUS
<1>3. ElementsFrom(t, i, ElementsAt(f, i), element, others)
  BY <1>1, <1>2 DEF SameBefore, Fits, ElementsFit
<1>4. /\ element.next \in Nat /\ element.next >= i
      /\ ElementsAt(f, i).next \in Nat /\ ElementsAt(f, i).next >= i + 1
  BY <1>3 DEF ElementsFrom
<1>5. PICK after \in Nat : after = element.next + 1
  BY <1>4
<1>6. SameUpTo(f, g, b, after)
  BY <1>4, <1>5
<1>7. ElementsFit(f, t, after)
  BY DEF SameBefore, Fits
<1>8. others = ElementsAt(f, after) /\ others.next \in Nat /\ others.next >= after + 1
  BY <1>2, <1>5, <1>7 DEF ElementsFit, ElementsFrom
<1>9. CASE Taking!Starts(t, element.next, ",")
  <2>1. ElementsAt(f, i) = Taking!Read(Taking!AddElement(element.value, others.value), others.next)
    BY <1>3, <1>9 DEF ElementsFrom
  <2>2. others.next <= b
    <3>1. ElementsAt(f, i).next = others.next
      BY ONLY <2>1, ReadIs
    <3> QED  BY <3>1
  <2>3. element.next < b
    BY <1>4, <1>5, <1>8, <2>2
  <2>4. ValueAt(g, i) = element
    BY <1>1, <1>4, <2>3, SameValue
  <2>5. ElementsAt(g, after) = others
    BY <1>6, <1>8, <2>2 DEF SameUpTo
  <2>6. Taking!Starts(s, element.next, ",")
    BY <1>4, <1>9, <2>3 DEF SameBefore, SameToken
  <2>7. ElementsFrom(s, i, ElementsAt(g, i), element, others)
    BY <1>5, <2>4, <2>5 DEF SameBefore, Fits, ElementsFit
  <2>8. ElementsAt(g, i) = Taking!Read(Taking!AddElement(element.value, others.value), others.next)
    BY <2>6, <2>7 DEF ElementsFrom
  <2> QED  BY <2>1, <2>8
<1>10. CASE ~Taking!Starts(t, element.next, ",")
  <2>1. ElementsAt(f, i) = Taking!Read(Taking!AddElement(element.value, Taking!Array(<<>>)), after)
    BY <1>3, <1>5, <1>10 DEF ElementsFrom
  <2>2. element.next < b
    <3>1. ElementsAt(f, i).next = after
      BY ONLY <2>1, ReadIs
    <3> QED  BY <1>4, <1>5, <3>1
  <2>3. ValueAt(g, i) = element
    BY <1>1, <1>4, <2>2, SameValue
  <2>4. ~Taking!Starts(s, element.next, ",")
    BY <1>4, <1>10, <2>2 DEF SameBefore, SameToken
  <2>5. ElementsFrom(s, i, ElementsAt(g, i), element, ElementsAt(g, after))
    BY <1>5, <2>3 DEF SameBefore, Fits, ElementsFit
  <2>6. ElementsAt(g, i) = Taking!Read(Taking!AddElement(element.value, Taking!Array(<<>>)), after)
    BY <1>5, <2>4, <2>5 DEF ElementsFrom
  <2> QED  BY <2>1, <2>6
<1> QED  BY <1>9, <1>10

\* So whatever ends before b is read alike.
LEMMA SameReading ==
  ASSUME NEW f, NEW t, NEW g, NEW s, NEW b \in Nat, SameBefore(f, t, g, s, b)
  PROVE  \A i \in Nat : SameUpTo(f, g, b, i)
<1> DEFINE T == {p \in Nat : \A i \in Nat : i >= p => SameUpTo(f, g, b, i)}
<1>1. b + 1 \in T
  <2>1. ASSUME NEW i \in Nat, i >= b + 1  PROVE SameUpTo(f, g, b, i)
    <3>1. Fits(f, t)
      BY DEF SameBefore
    <3>2. /\ ValueAt(f, i).next \in Nat /\ ValueAt(f, i).next >= i
          /\ MembersAt(f, i).next \in Nat /\ MembersAt(f, i).next >= i + 2
          /\ ElementsAt(f, i).next \in Nat /\ ElementsAt(f, i).next >= i + 1
      BY <3>1, NextPlaces
    <3> QED  BY <2>1, <3>2 DEF SameUpTo
  <2> QED  BY <2>1
<1>2. ASSUME NEW p \in Nat, p + 1 \in T  PROVE p \in T
  <2>1. ASSUME NEW j \in Nat, j > p  PROVE SameUpTo(f, g, b, j)
    BY <1>2, <2>1
  <2>2. SameUpTo(f, g, b, p)
    <3>1. \A j \in Nat : j > p => SameUpTo(f, g, b, j)
      BY <2>1
    <3>2. ValueAt(f, p).next <= b => ValueAt(g, p) = ValueAt(f, p)
      BY <3>1, SameValue
    <3>3. MembersAt(f, p).next <= b => MembersAt(g, p) = MembersAt(f, p)
      BY <3>1, SameMembers
    <3>4. ElementsAt(f, p).next <= b => ElementsAt(g, p) = ElementsAt(f, p)
      BY <3>1, SameElements
    <3> QED  BY <3>2, <3>3, <3>4 DEF SameUpTo
  <2>3. \A i \in Nat : i >= p => i = p \/ i > p
    OBVIOUS
  <2> QED  BY <2>1, <2>2, <2>3
<1>3. 0 \in T
  <2>1. T \subseteq Nat /\ T # {}
    BY <1>1
  <2> HIDE DEF T
  <2> QED  BY <1>2, <2>1, FromTheEnd
<1> QED  BY <1>3
-----------------------------------------------------------------------------
(* Texts that were cut, and where the cut is                               *)

\* s is t up to c, where it ends or has what is left of a token.
Cut(s, t, c) ==
  /\ c \in Nat /\ c >= 1
  /\ \A i \in Nat : i < c => SameToken(s, t, i)
  /\ \A i \in Nat : i > c => i \notin DOMAIN s
  /\ c \in DOMAIN s => c \in DOMAIN t /\ s[c] \in Taking!Broken(t[c])

LEMMA TokensSame ==
  ASSUME NEW s, NEW t, NEW i, i \in DOMAIN s <=> i \in DOMAIN t, i \in DOMAIN t => s[i] = t[i]
  PROVE  SameToken(s, t, i)
<1>1. \A c : Taking!Starts(s, i, c) <=> Taking!Starts(t, i, c)
  BY DEF Taking!Starts
<1>2. Taking!Key(s, i) = Taking!Key(t, i)
  <2>1. CASE Taking!Starts(t, i, "string")
    <3>1. Taking!Starts(s, i, "string") /\ s[i] = t[i]
      BY <1>1, <2>1 DEF Taking!Starts
    <3> QED  BY ONLY <2>1, <3>1 DEF Taking!Key
  <2>2. CASE ~Taking!Starts(t, i, "string")
    <3>1. ~Taking!Starts(s, i, "string")
      BY <1>1, <2>2
    <3> QED  BY ONLY <2>2, <3>1 DEF Taking!Key
  <2> QED  BY <2>1, <2>2
<1>3. Scalar(s, i) = Scalar(t, i)
  <2>1. CASE i \in DOMAIN t
    <3>1. i \in DOMAIN s /\ s[i] = t[i]
      BY <2>1
    <3> QED  BY ONLY <2>1, <3>1 DEF Scalar, Taking!ParseWord, Taking!Starts
  <2>2. CASE i \notin DOMAIN t
    <3>1. i \notin DOMAIN s
      BY <2>2
    <3> QED  BY ONLY <2>2, <3>1 DEF Scalar, Taking!Starts
  <2> QED  BY <2>1, <2>2
<1> QED  BY <1>1, <1>2, <1>3 DEF SameToken

\* A beginning of a text is cut somewhere.
LEMMA BeginningsAreCut ==
  ASSUME NEW t, Taking!IsText(t), NEW s \in Taking!Beginnings(t)
  PROVE  \E c : Cut(s, t, c)
<1> DEFINE R == {t[i] : i \in DOMAIN t}
<1>1. Len(t) \in Nat /\ DOMAIN t = 1 .. Len(t) /\ t \in Seq(R)
  BY TextsEnd DEF Taking!IsText
<1> HIDE DEF R
<1>2. ASSUME NEW k \in 0 .. Len(t)
      PROVE  /\ SubSeq(t, 1, k) \in Seq(R) /\ Len(SubSeq(t, 1, k)) = k
             /\ DOMAIN SubSeq(t, 1, k) = 1 .. k
             /\ \A i \in 1 .. k : SubSeq(t, 1, k)[i] = t[i]
  BY <1>1
<1>3. CASE \E k \in 0 .. Len(t) : s = SubSeq(t, 1, k)
  <2>1. PICK k \in 0 .. Len(t) : s = SubSeq(t, 1, k)
    BY <1>3
  <2>2. DOMAIN s = 1 .. k /\ \A i \in 1 .. k : s[i] = t[i]
    BY <1>2, <2>1
  <2>3. k \in Nat /\ k + 1 \in Nat /\ k <= Len(t)
    BY <1>1
  <2>4. ASSUME NEW i \in Nat, i < k + 1  PROVE SameToken(s, t, i)
    <3>1. (i \in DOMAIN s <=> i \in DOMAIN t) /\ (i \in DOMAIN t => s[i] = t[i])
      BY <1>1, <2>2, <2>3, <2>4
    <3> QED  BY <3>1, TokensSame
  <2>5. \A i \in Nat : i >= k + 1 => i \notin DOMAIN s
    BY <2>2, <2>3
  <2>6. Cut(s, t, k + 1)
    BY <2>3, <2>4, <2>5 DEF Cut
  <2> QED  BY <2>6
<1>4. CASE \E k \in DOMAIN t : \E token \in Taking!Broken(t[k]) : s = Append(SubSeq(t, 1, k - 1), token)
  <2>1. PICK k \in 1 .. Len(t) : \E token \in Taking!Broken(t[k]) : s = Append(SubSeq(t, 1, k - 1), token)
    BY <1>1, <1>4
  <2>2. PICK token \in Taking!Broken(t[k]) : s = Append(SubSeq(t, 1, k - 1), token)
    BY <2>1
  <2>3. PICK u : u = SubSeq(t, 1, k - 1)
    OBVIOUS
  <2>4. u \in Seq(R) /\ Len(u) = k - 1 /\ \A i \in 1 .. k - 1 : u[i] = t[i]
    <3>1. k - 1 \in 0 .. Len(t)
      BY <1>1
    <3> QED  BY <1>2, <2>3, <3>1
  <2>5. s = Append(u, token) /\ u \in Seq(R \union {token})
    BY <2>2, <2>3, <2>4
  <2>6. DOMAIN s = 1 .. k
    BY <2>4, <2>5
  <2>7. \A i \in 1 .. k : s[i] = IF i = k THEN token ELSE u[i]
    BY <2>4, <2>5
  <2>8. k \in Nat /\ k >= 1 /\ k <= Len(t)
    BY <1>1
  <2>9. ASSUME NEW i \in Nat, i < k  PROVE SameToken(s, t, i)
    <3>1. i \in DOMAIN s <=> i \in DOMAIN t
      BY <1>1, <2>6, <2>8, <2>9
    <3>2. i \in DOMAIN t => s[i] = t[i]
      BY <1>1, <2>4, <2>7, <2>8, <2>9
    <3> QED  BY <3>1, <3>2, TokensSame
  <2>10. k \in DOMAIN t /\ s[k] = token /\ \A i \in Nat : i > k => i \notin DOMAIN s
    BY <1>1, <2>6, <2>7, <2>8
  <2>11. Cut(s, t, k)
    BY <2>2, <2>8, <2>9, <2>10 DEF Cut
  <2> QED  BY <2>11
<1> QED  BY <1>3, <1>4 DEF Taking!Beginnings

\* What is left of a token.
LEMMA LeftOver ==
  ASSUME NEW token, NEW part \in Taking!Broken(token)
  PROVE  /\ part.is \in {"string", "number", "-", "word"}
         /\ part.is \in {"string", "number", "word"} => token.is = part.is
         /\ part.is = "-" => token.is = "number"
         /\ part.is = "word" => part.text = Taking!Part
<1>1. CASE token.is = "string"
  BY <1>1 DEF Taking!Broken, Taking!Str
<1>2. CASE token.is = "number"
  <2>1. part = Taking!Mark("-") \/ \E n : part = Taking!Num(n)
    BY <1>2 DEF Taking!Broken
  <2>2. part.is = "-" \/ part.is = "number"
    <3>1. Taking!Mark("-").is = "-" /\ \A n : Taking!Num(n).is = "number"
      BY DEF Taking!Mark, Taking!Num
    <3> QED  BY <2>1, <3>1
  <2> QED  BY ONLY <1>2, <2>2
<1>3. CASE token.is = "word"
  BY <1>3 DEF Taking!Broken, Taking!Word
<1>4. CASE token.is \notin {"string", "number", "word"}
  BY <1>4 DEF Taking!Broken
<1> QED  BY <1>1, <1>2, <1>3, <1>4

Signs == {"{", "}", "[", "]", ":", ","}

\* From the cut on there is no sign.
LEMMA NoSignsAfter ==
  ASSUME NEW s, NEW t, NEW c, Cut(s, t, c), NEW i \in Nat, i >= c, NEW sign \in Signs
  PROVE  ~Taking!Starts(s, i, sign)
<1> SUFFICES ASSUME i \in DOMAIN s, s[i].is = sign  PROVE FALSE
  BY DEF Taking!Starts
<1>1. i = c
  BY DEF Cut
<1>2. s[i] \in Taking!Broken(t[i])
  BY <1>1 DEF Cut
<1>3. s[i].is \in {"string", "number", "-", "word"}
  BY <1>2, LeftOver
<1> QED  BY <1>3 DEF Signs

\* What a scalar may be and where it ends.
LEMMA ScalarIs ==
  ASSUME NEW text, NEW i \in Nat
  PROVE  /\ Scalar(text, i).next = i \/ Scalar(text, i).next = i + 1
         /\ Scalar(text, i).value.type \in {"string", "int", "bool", "null"}
         /\ Scalar(text, i).next = i =>
              /\ Scalar(text, i) = Taking!Read(Taking!Null, i)
              /\ i \in DOMAIN text => text[i].is \notin {"string", "number", "-"}
         /\ i \notin DOMAIN text => Scalar(text, i) = Taking!Read(Taking!Null, i)
<1>1. PICK next \in Nat : next = i + 1
  OBVIOUS
<1>2. PICK result : result = Scalar(text, i)
  OBVIOUS
<1>3. next # i
  BY <1>1
<1>4. i \notin DOMAIN text => result = Taking!Read(Taking!Null, i)
  BY <1>2 DEF Scalar, Taking!Starts
<1>5. ASSUME i \in DOMAIN text, text[i].is = "word"
      PROVE  \/ \E b : result = Taking!Read([type |-> "bool", of |-> b], next)
             \/ result = Taking!Read(Taking!Null, next) \/ result = Taking!Read(Taking!Null, i)
  <2>1. result = Taking!ParseWord(text, i)
    BY ONLY <1>2, <1>5 DEF Scalar, Taking!Starts
  <2> QED  BY ONLY <1>1, <2>1 DEF Taking!ParseWord
<1>6. ASSUME i \in DOMAIN text, text[i].is = "string"
      PROVE  result = Taking!Read([type |-> "string", of |-> text[i].text], next)
  BY ONLY <1>1, <1>2, <1>6 DEF Scalar, Taking!Starts
<1>7. ASSUME i \in DOMAIN text, text[i].is = "number"
      PROVE  result = Taking!Read([type |-> "int", of |-> text[i].num], next)
  BY ONLY <1>1, <1>2, <1>7 DEF Scalar, Taking!Starts
<1>8. ASSUME i \in DOMAIN text, text[i].is = "-"
      PROVE  result = Taking!Read(Taking!Null, next)
  BY ONLY <1>1, <1>2, <1>8 DEF Scalar, Taking!Starts
<1>9. ASSUME i \in DOMAIN text, text[i].is \notin {"string", "number", "-", "word"}
      PROVE  result = Taking!Read(Taking!Null, i)
  BY ONLY <1>2, <1>9 DEF Scalar, Taking!Starts
<1>10. Taking!Null.type = "null"
  BY DEF Taking!Null
<1>11. /\ result.next = i \/ result.next = next
       /\ result.value.type \in {"string", "int", "bool", "null"}
       /\ result.next = i =>
            /\ result = Taking!Read(Taking!Null, i)
            /\ i \in DOMAIN text => text[i].is \notin {"string", "number", "-"}
  <2>1. CASE i \notin DOMAIN text
    BY <1>4, <1>10, <2>1, ReadIs
  <2>2. CASE i \in DOMAIN text /\ text[i].is = "word"
    <3>1. CASE \E b : result = Taking!Read([type |-> "bool", of |-> b], next)
      <4>1. PICK b : result = Taking!Read([type |-> "bool", of |-> b], next)
        BY <3>1
      <4>2. result.next = next /\ result.value.type = "bool"
        BY ONLY <4>1, ReadIs
      <4> QED  BY ONLY <1>3, <4>2
    <3>2. CASE result = Taking!Read(Taking!Null, next)
      BY <1>3, <1>10, <3>2, ReadIs
    <3>3. CASE result = Taking!Read(Taking!Null, i)
      <4>1. result.next = i /\ result.value.type = "null"
        BY ONLY <1>10, <3>3, ReadIs
      <4> QED  BY ONLY <2>2, <3>3, <4>1
    <3> QED  BY <1>5, <2>2, <3>1, <3>2, <3>3
  <2>3. CASE i \in DOMAIN text /\ text[i].is = "string"
    BY <1>3, <1>6, <2>3, ReadIs
  <2>4. CASE i \in DOMAIN text /\ text[i].is = "number"
    BY <1>3, <1>7, <2>4, ReadIs
  <2>5. CASE i \in DOMAIN text /\ text[i].is = "-"
    BY <1>3, <1>8, <1>10, <2>5, ReadIs
  <2>6. CASE i \in DOMAIN text /\ text[i].is \notin {"string", "number", "-", "word"}
    BY <1>9, <1>10, <2>6, ReadIs
  <2> QED  BY <2>1, <2>2, <2>3, <2>4, <2>5, <2>6
<1> QED  BY <1>1, <1>2, <1>4, <1>11

\* Where the parser stays, there is neither an object nor an array.
LEMMA Stays ==
  ASSUME NEW text, NEW f, Fits(f, text), NEW i \in Nat, ValueAt(f, i).next = i
  PROVE  /\ ~Taking!Starts(text, i, "{") /\ ~Taking!Starts(text, i, "[")
         /\ ValueAt(f, i) = Scalar(text, i)
<1>1. ValueFits(f, text, i)
  BY DEF Fits
<1>2. PICK j \in Nat : j = i + 1
  OBVIOUS
<1>3. /\ MembersAt(f, j).next \in Nat /\ MembersAt(f, j).next >= j + 2
      /\ ElementsAt(f, j).next \in Nat /\ ElementsAt(f, j).next >= j + 1
  BY NextPlaces
<1>4. PICK past \in Nat : past = i + 2
  OBVIOUS
<1>5. past # i /\ MembersAt(f, j).next # i /\ ElementsAt(f, j).next # i
  BY <1>2, <1>3, <1>4
<1>6. ~Taking!Starts(text, i, "{")
  <2> SUFFICES ASSUME Taking!Starts(text, i, "{")  PROVE FALSE
    OBVIOUS
  <2>1. ValueAt(f, i) = Taking!Read(Taking!Object(<<>>), past) \/ ValueAt(f, i) = MembersAt(f, j)
    BY <1>1, <1>2, <1>4 DEF ValueFits
  <2>2. ValueAt(f, i).next = past \/ ValueAt(f, i).next = MembersAt(f, j).next
    BY ONLY <2>1, ReadIs
  <2> QED  BY ONLY <1>5, <2>2, ValueAt(f, i).next = i
<1>7. ~Taking!Starts(text, i, "[")
  <2> SUFFICES ASSUME Taking!Starts(text, i, "[")  PROVE FALSE
    OBVIOUS
  <2>1. ValueAt(f, i) = Taking!Read(Taking!Array(<<>>), past) \/ ValueAt(f, i) = ElementsAt(f, j)
    BY <1>1, <1>2, <1>4 DEF ValueFits
  <2>2. ValueAt(f, i).next = past \/ ValueAt(f, i).next = ElementsAt(f, j).next
    BY ONLY <2>1, ReadIs
  <2> QED  BY ONLY <1>5, <2>2, ValueAt(f, i).next = i
<1> QED  BY <1>1, <1>6, <1>7 DEF ValueFits

\* What is read of the text that is cut, and of the whole one.
CutReading(f, t, g, s, c) == Cut(s, t, c) /\ Fits(f, t) /\ Fits(g, s)

\* At the cut there is a value of one token at most.
LEMMA AtTheCut ==
  ASSUME NEW f, NEW t, NEW g, NEW s, NEW c, CutReading(f, t, g, s, c)
  PROVE  ValueAt(g, c) = Scalar(s, c)
<1>1. Cut(s, t, c) /\ c \in Nat /\ c >= c /\ ValueFits(g, s, c)
  BY DEF CutReading, Cut, Fits
<1>2. "{" \in Signs /\ "[" \in Signs
  BY DEF Signs
<1>3. ~Taking!Starts(s, c, "{") /\ ~Taking!Starts(s, c, "[")
  BY <1>1, <1>2, NoSignsAfter
<1> QED  BY <1>1, <1>3 DEF ValueFits

\* What ends by the cut is read alike in both, and what is read of one past
\* the cut is read of the other up to it at least.
LEMMA CutSame ==
  ASSUME NEW f, NEW t, NEW g, NEW s, NEW c, CutReading(f, t, g, s, c), NEW i \in Nat
  PROVE  /\ SameUpTo(f, g, c, i)
         /\ ValueAt(f, i).next >= c => ValueAt(g, i).next >= c
<1>1. Cut(s, t, c) /\ Fits(f, t) /\ Fits(g, s) /\ c \in Nat /\ c >= 1
  BY DEF CutReading, Cut
<1>2. \A j \in Nat : j < c => SameToken(s, t, j)
  BY <1>1 DEF Cut
<1>3. SameBefore(f, t, g, s, c)
  <2>1. ASSUME ValueAt(f, c).next = c  PROVE ValueAt(g, c) = ValueAt(f, c)
    <3>1. ValueAt(f, c) = Scalar(t, c)
      BY <1>1, <2>1, Stays
    <3>2. Scalar(t, c).next = c
      BY <2>1, <3>1
    <3>3. Scalar(t, c) = Taking!Read(Taking!Null, c) /\ (c \in DOMAIN t => t[c].is \notin {"string", "number", "-"})
      BY <1>1, <3>2, ScalarIs
    <3>4. Scalar(s, c) = Taking!Read(Taking!Null, c)
      <4>1. CASE c \notin DOMAIN s
        BY <1>1, <4>1, ScalarIs
      <4>2. CASE c \in DOMAIN s
        <5>1. c \in DOMAIN t /\ s[c] \in Taking!Broken(t[c])
          BY <1>1, <4>2 DEF Cut
        <5>2. s[c].is = "word" /\ s[c].text = Taking!Part
          BY <3>3, <5>1, LeftOver
        <5> QED  BY ONLY <4>2, <5>2 DEF Scalar, Taking!Starts, Taking!ParseWord, Taking!Part
      <4> QED  BY <4>1, <4>2
    <3>5. ValueAt(g, c) = Scalar(s, c)
      BY AtTheCut
    <3> QED  BY <3>1, <3>3, <3>4, <3>5
  <2> QED  BY <1>1, <1>2, <2>1 DEF SameBefore
<1>4. SameUpTo(f, g, c, i)
  BY <1>1, <1>3, SameReading
<1>5. PICK b \in Nat : b = c - 1
  BY <1>1
<1>6. SameBefore(g, s, f, t, b)
  <2>1. SameToken(s, t, b) /\ \A j \in Nat : j < b => SameToken(s, t, j)
    BY <1>1, <1>2, <1>5
  <2>2. \A j \in Nat : j < b => SameToken(t, s, j)
    BY <2>1 DEF SameToken
  <2>3. ASSUME ValueAt(g, b).next = b  PROVE ValueAt(f, b) = ValueAt(g, b)
    <3>1. ~Taking!Starts(s, b, "{") /\ ~Taking!Starts(s, b, "[") /\ ValueAt(g, b) = Scalar(s, b)
      BY <1>1, <2>3, Stays
    <3>2. ~Taking!Starts(t, b, "{") /\ ~Taking!Starts(t, b, "[") /\ Scalar(t, b) = Scalar(s, b)
      BY <2>1, <3>1 DEF SameToken
    <3>3. ValueAt(f, b) = Scalar(t, b)
      BY <1>1, <3>2 DEF Fits, ValueFits
    <3> QED  BY <3>1, <3>2, <3>3
  <2> QED  BY <1>1, <2>2, <2>3 DEF SameBefore
<1>7. SameUpTo(g, f, b, i)
  BY <1>6, SameReading
<1>8. ValueAt(f, i).next \in Nat /\ ValueAt(g, i).next \in Nat
  BY <1>1, NextPlaces
<1>9. ASSUME ValueAt(f, i).next >= c  PROVE ValueAt(g, i).next >= c
  <2>1. ~(ValueAt(g, i).next <= b)
    BY <1>1, <1>5, <1>7, <1>8, <1>9 DEF SameUpTo
  <2> QED  BY <1>1, <1>5, <1>8, <2>1
<1> QED  BY <1>4, <1>9
-----------------------------------------------------------------------------
(* Scalars where the cut is                                                *)

\* What is read where the text is cut: nothing, or from what is left of the
\* token that gives what was meant.
Blurred(v, meant) ==
  \/ v.type \in {"null", "object", "array"}
  \/ \E part \in Taking!Broken(Taking!Token(meant)) : v = Taking!Parse(<<part>>)

\* What is read of a single token.
LEMMA OneToken ==
  ASSUME NEW part, part.num \in Int, part.is \notin {"{", "["}
  PROVE  Taking!Parse(<<part>>) = Scalar(<<part>>, 1).value
<1>1. PICK text : text = <<part>>
  OBVIOUS
<1>2. DOMAIN text = 1 .. 1 /\ text[1] = part
  <2>1. text \in Seq({part}) /\ Len(text) = 1
    BY ONLY <1>1
  <2>2. text[1] = part
    BY ONLY <1>1
  <2> QED  BY ONLY <2>1, <2>2
<1>3. EndsAt(text, 1)
  <2>1. ASSUME NEW i \in DOMAIN text  PROVE i \in Nat /\ i <= 1
    <3>1. i \in 1 .. 1
      BY <1>2
    <3> QED  BY ONLY <3>1
  <2> QED  BY ONLY <2>1 DEF EndsAt
<1>4. PICK f : f = Taking!Reads(text)
  OBVIOUS
<1>5. ReadFrom(f, text, 0) /\ Onward(f, 0) /\ Taking!Parse(text) = f[<<"value", 1>>].value
  <2>1. 1 \in Nat
    OBVIOUS
  <2> QED  BY <1>3, <1>4, <2>1, ParserEnds
<1>6. Fits(f, text)
  BY <1>5, ReadingFits
<1>7. ValueFits(f, text, 1)
  BY <1>6 DEF Fits
<1>8. ~Taking!Starts(text, 1, "{") /\ ~Taking!Starts(text, 1, "[")
  <2>1. part.is # "{" /\ part.is # "["
    OBVIOUS
  <2> QED  BY ONLY <1>2, <2>1 DEF Taking!Starts
<1>9. ValueAt(f, 1) = Scalar(text, 1)
  BY ONLY <1>7, <1>8 DEF ValueFits
<1> QED  BY <1>1, <1>5, <1>9 DEF ValueAt

LEMMA StringAlone ==
  ASSUME NEW x
  PROVE  Taking!Parse(<<Taking!Str(x)>>) = [type |-> "string", of |-> x]
<1>1. PICK part : part = Taking!Str(x)
  OBVIOUS
<1>2. part.is = "string" /\ part.text = x /\ part.num = 0
  BY <1>1 DEF Taking!Str
<1>3. Taking!Parse(<<part>>) = Scalar(<<part>>, 1).value
  <2>1. part.num \in Int /\ part.is \notin {"{", "["}
    BY <1>2
  <2> QED  BY ONLY <2>1, OneToken
<1>4. PICK text : text = <<part>>
  OBVIOUS
<1>5. 1 \in DOMAIN text /\ text[1] = part
  BY <1>4
<1>6. Scalar(text, 1) = Taking!Read([type |-> "string", of |-> x], 2)
  BY <1>2, <1>5 DEF Scalar, Taking!Starts
<1> QED  BY <1>1, <1>3, <1>4, <1>6, ReadIs

LEMMA NumberAlone ==
  ASSUME NEW part, part.is = "number", part.num \in Int
  PROVE  Taking!Parse(<<part>>) = [type |-> "int", of |-> part.num]
<1>1. Taking!Parse(<<part>>) = Scalar(<<part>>, 1).value
  BY OneToken
<1>2. PICK text : text = <<part>>
  OBVIOUS
<1>3. 1 \in DOMAIN text /\ text[1] = part
  BY <1>2
<1>4. Scalar(text, 1) = Taking!Read([type |-> "int", of |-> part.num], 2)
  BY <1>3 DEF Scalar, Taking!Starts
<1> QED  BY <1>1, <1>2, <1>4, ReadIs

\* The scalar that the cut is in.
LEMMA ScalarBlurred ==
  ASSUME NEW s, NEW t, NEW c, Cut(s, t, c), Taking!IsText(t)
  PROVE  Blurred(Scalar(s, c).value, Scalar(t, c).value)
<1>1. c \in Nat
  BY DEF Cut
<1>2. ASSUME Scalar(s, c).value = Taking!Null  PROVE Blurred(Scalar(s, c).value, Scalar(t, c).value)
  BY <1>2 DEF Blurred, Taking!Null
<1>3. CASE c \notin DOMAIN s
  BY <1>1, <1>2, <1>3, ScalarIs, ReadIs
<1>4. CASE c \in DOMAIN s
  <2>1. PICK part : part = s[c]
    OBVIOUS
  <2>2. PICK token : token = t[c]
    OBVIOUS
  <2>3. c \in DOMAIN t /\ part \in Taking!Broken(token) /\ token.num \in Int
    BY <1>4, <2>1, <2>2, TextsEnd DEF Cut
  <2>4. /\ part.is \in {"string", "number", "-", "word"}
        /\ part.is \in {"string", "number", "word"} => token.is = part.is
        /\ part.is = "word" => part.text = Taking!Part
    BY <2>3, LeftOver
  <2>5. CASE part.is = "-"
    <3>1. Scalar(s, c) = Taking!Read(Taking!Null, c + 1)
      BY <1>4, <2>1, <2>5 DEF Scalar, Taking!Starts
    <3> QED  BY <1>2, <3>1, ReadIs
  <2>6. CASE part.is = "word"
    <3>1. Scalar(s, c) = Taking!Read(Taking!Null, c)
      BY <1>4, <2>1, <2>4, <2>6 DEF Scalar, Taking!Starts, Taking!ParseWord, Taking!Part
    <3> QED  BY <1>2, <3>1, ReadIs
  <2>7. CASE part.is = "string"
    <3>1. Scalar(s, c) = Taking!Read([type |-> "string", of |-> part.text], c + 1)
      BY <1>4, <2>1, <2>7 DEF Scalar, Taking!Starts
    <3>2. Scalar(t, c) = Taking!Read([type |-> "string", of |-> token.text], c + 1)
      BY <2>2, <2>3, <2>4, <2>7 DEF Scalar, Taking!Starts
    <3>3. /\ Scalar(s, c).value = [type |-> "string", of |-> part.text]
          /\ Scalar(t, c).value = [type |-> "string", of |-> token.text]
      BY <3>1, <3>2, ReadIs
    <3>4. Taking!Token([type |-> "string", of |-> token.text]) = Taking!Str(token.text)
      BY DEF Taking!Token
    <3>5. part.text = token.text \/ part.text = Taking!Part
      BY <2>3, <2>4, <2>7 DEF Taking!Broken, Taking!Str
    <3>6. Taking!Str(part.text) \in Taking!Broken(Taking!Str(token.text))
      <4>1. Taking!Str(token.text).is = "string"
        BY DEF Taking!Str
      <4>2. Taking!Broken(Taking!Str(token.text)) = {Taking!Str(token.text), Taking!Str(Taking!Part)}
        BY <4>1 DEF Taking!Broken
      <4> QED  BY <3>5, <4>2
    <3>7. Taking!Parse(<<Taking!Str(part.text)>>) = [type |-> "string", of |-> part.text]
      BY StringAlone
    <3> QED  BY <3>3, <3>4, <3>6, <3>7 DEF Blurred
  <2>8. CASE part.is = "number"
    <3>1. Scalar(s, c) = Taking!Read([type |-> "int", of |-> part.num], c + 1)
      BY <1>4, <2>1, <2>8 DEF Scalar, Taking!Starts
    <3>2. Scalar(t, c) = Taking!Read([type |-> "int", of |-> token.num], c + 1)
      BY <2>2, <2>3, <2>4, <2>8 DEF Scalar, Taking!Starts
    <3>3. /\ Scalar(s, c).value = [type |-> "int", of |-> part.num]
          /\ Scalar(t, c).value = [type |-> "int", of |-> token.num]
      BY <3>1, <3>2, ReadIs
    <3>4. Taking!Token([type |-> "int", of |-> token.num]) = Taking!Num(token.num)
      BY DEF Taking!Token
    <3>5. part \in Taking!Broken(Taking!Num(token.num))
      <4>1. PICK other : other = Taking!Num(token.num)
        OBVIOUS
      <4>2. other.is = "number" /\ other.num = token.num
        BY <4>1 DEF Taking!Num
      <4>3. Taking!Broken(other) = Taking!Broken(token)
        BY <2>4, <2>8, <4>2 DEF Taking!Broken
      <4> QED  BY <2>3, <4>1, <4>3
    <3>6. part.num \in Int
      <4>1. part = Taking!Mark("-") \/ \E n \in Int : part = Taking!Num(n)
        BY <2>3, <2>4, <2>8, NumberLeft
      <4>2. Taking!Mark("-").num = 0 /\ \A n : Taking!Num(n).num = n
        BY DEF Taking!Mark, Taking!Num
      <4> QED  BY <4>1, <4>2
    <3>7. Taking!Parse(<<part>>) = [type |-> "int", of |-> part.num]
      BY <2>8, <3>6, NumberAlone
    <3> QED  BY <3>3, <3>4, <3>5, <3>7 DEF Blurred
  <2> QED  BY <2>4, <2>5, <2>6, <2>7, <2>8
<1> QED  BY <1>3, <1>4

\* A brace begins an object, a bracket an array.
LEMMA Compounds ==
  ASSUME NEW text, NEW f, Fits(f, text), NEW i \in Nat
  PROVE  /\ Taking!Starts(text, i, "{") => ValueAt(f, i).value.type = "object"
         /\ Taking!Starts(text, i, "[") => ValueAt(f, i).value.type = "array"
<1>1. ValueFits(f, text, i)
  BY DEF Fits
<1>2. PICK j \in Nat : j = i + 1
  OBVIOUS
<1>3. MembersAt(f, j).value.type = "object" /\ ElementsAt(f, j).value.type = "array"
  BY DEF Fits, MembersFit, MembersFrom, ElementsFit, ElementsFrom
<1>4. PICK past : past = i + 2
  OBVIOUS
<1>5. Taking!Read(Taking!Object(<<>>), past).value.type = "object"
      /\ Taking!Read(Taking!Array(<<>>), past).value.type = "array"
  BY ReadIs, MadeTypes
<1>6. ASSUME Taking!Starts(text, i, "{")  PROVE ValueAt(f, i).value.type = "object"
  <2>1. ValueAt(f, i) = Taking!Read(Taking!Object(<<>>), past) \/ ValueAt(f, i) = MembersAt(f, j)
    BY <1>1, <1>2, <1>4, <1>6 DEF ValueFits
  <2> QED  BY ONLY <1>3, <1>5, <2>1
<1>7. ASSUME Taking!Starts(text, i, "[")  PROVE ValueAt(f, i).value.type = "array"
  <2>1. ValueAt(f, i) = Taking!Read(Taking!Array(<<>>), past) \/ ValueAt(f, i) = ElementsAt(f, j)
    BY <1>1, <1>2, <1>4, <1>7 DEF ValueFits
  <2> QED  BY ONLY <1>3, <1>5, <2>1
<1> QED  BY <1>6, <1>7

\* Where the whole text has a brace or a bracket and the other one is cut,
\* nothing is read.
LEMMA NothingOfSigns ==
  ASSUME NEW f, NEW t, NEW g, NEW s, NEW c, CutReading(f, t, g, s, c),
         NEW sign \in Signs, Taking!Starts(t, c, sign)
  PROVE  ValueAt(g, c) = Taking!Read(Taking!Null, c)
<1>1. c \in Nat /\ Cut(s, t, c)
  BY DEF CutReading, Cut
<1>2. c \notin DOMAIN s
  <2> SUFFICES ASSUME c \in DOMAIN s  PROVE FALSE
    OBVIOUS
  <2>1. s[c] \in Taking!Broken(t[c])
    BY <1>1 DEF Cut
  <2>2. t[c].is \in {"string", "number", "word"}
    BY <2>1, LeftOver
  <2> QED  BY <2>2 DEF Taking!Starts, Signs
<1> QED  BY <1>1, <1>2, AtTheCut, ScalarIs

\* A value that the cut is in is blurred.
LEMMA ValueBlurred ==
  ASSUME NEW f, NEW t, NEW g, NEW s, NEW c, CutReading(f, t, g, s, c), Taking!IsText(t),
         NEW i \in Nat, i <= c, ValueAt(f, i).next > c
  PROVE  Blurred(ValueAt(g, i).value, ValueAt(f, i).value)
<1>1. Cut(s, t, c) /\ Fits(f, t) /\ Fits(g, s) /\ c \in Nat /\ c >= 1
  BY DEF CutReading, Cut
<1>2. CASE i = c
  <2>1. CASE Taking!Starts(t, c, "{") \/ Taking!Starts(t, c, "[")
    <3>1. "{" \in Signs /\ "[" \in Signs
      BY DEF Signs
    <3>2. ValueAt(g, c) = Taking!Read(Taking!Null, c)
      BY <2>1, <3>1, NothingOfSigns
    <3>3. ValueAt(g, c).value.type = "null"
      BY <3>2, ReadIs DEF Taking!Null
    <3> QED  BY <1>2, <3>3 DEF Blurred
  <2>2. CASE ~Taking!Starts(t, c, "{") /\ ~Taking!Starts(t, c, "[")
    <3>1. ValueAt(f, c) = Scalar(t, c)
      <4>1. ValueFits(f, t, c)
        BY <1>1 DEF Fits
      <4> QED  BY ONLY <2>2, <4>1 DEF ValueFits
    <3>2. ValueAt(g, c) = Scalar(s, c)
      BY AtTheCut
    <3>3. Blurred(Scalar(s, c).value, Scalar(t, c).value)
      BY <1>1, ScalarBlurred
    <3> QED  BY <1>2, <3>1, <3>2, <3>3
  <2> QED  BY <2>1, <2>2
<1>3. CASE i < c
  <2>1. SameToken(s, t, i)
    BY <1>1, <1>3 DEF Cut
  <2>2. CASE Taking!Starts(t, i, "{") \/ Taking!Starts(t, i, "[")
    <3>1. Taking!Starts(s, i, "{") \/ Taking!Starts(s, i, "[")
      BY <2>1, <2>2 DEF SameToken
    <3>2. ValueAt(g, i).value.type \in {"object", "array"}
      BY <1>1, <3>1, Compounds
    <3> QED  BY <3>2 DEF Blurred
  <2>3. CASE ~Taking!Starts(t, i, "{") /\ ~Taking!Starts(t, i, "[")
    <3>1. ValueAt(f, i) = Scalar(t, i)
      <4>1. ValueFits(f, t, i)
        BY <1>1 DEF Fits
      <4> QED  BY ONLY <2>3, <4>1 DEF ValueFits
    <3>2. ValueAt(f, i).next = i \/ ValueAt(f, i).next = i + 1
      BY <3>1, ScalarIs
    <3> QED  BY <1>1, <1>3, <3>2
  <2> QED  BY <2>2, <2>3
<1> QED  BY <1>1, <1>2, <1>3
-----------------------------------------------------------------------------
(* Objects that the cut is in                                              *)

\* The keys of an object's members are told apart.
KeysApart(f, t) ==
  \A i \in Nat :
    LET next == ValueAt(f, i + 2).next IN
      i \in DOMAIN t /\ Taking!Starts(t, i + 1, ":") /\ Taking!Starts(t, next, ",") =>
        Taking!Key(t, i) \notin DOMAIN MembersAt(f, next + 1).value.of

\* An object that was cut has members of the one that was meant, and one of
\* them at most is blurred.
CutObject(v, meant) ==
  /\ v.type = "object" /\ meant.type = "object"
  /\ DOMAIN v.of \subseteq DOMAIN meant.of
  /\ \E key : \A k \in DOMAIN v.of :
       v.of[k] = meant.of[k] \/ (k = key /\ Blurred(v.of[k], meant.of[k]))

\* An object that was not cut, and one of which nothing came.
LEMMA WholeObject ==
  ASSUME NEW v, v.type = "object"  PROVE CutObject(v, v)
<1>1. \A k \in DOMAIN v.of : v.of[k] = v.of[k] \/ (k = "" /\ Blurred(v.of[k], v.of[k]))
  OBVIOUS
<1>2. \E key : \A k \in DOMAIN v.of : v.of[k] = v.of[k] \/ (k = key /\ Blurred(v.of[k], v.of[k]))
  BY ONLY <1>1
<1> QED  BY <1>2 DEF CutObject

LEMMA EmptyObject ==
  ASSUME NEW meant, meant.type = "object"  PROVE CutObject(Taking!Object(<<>>), meant)
<1>1. Taking!Object(<<>>).type = "object" /\ Taking!Object(<<>>).of = <<>>
  BY MadeTypes
<1>2. DOMAIN <<>> = {}
  OBVIOUS
<1> QED  BY <1>1, <1>2 DEF CutObject

\* What a member before others makes of an object.
LEMMA Added ==
  ASSUME NEW key, NEW v, NEW others
  PROVE  /\ \A k : k \in DOMAIN Taking!AddMember(key, v, others).of <=> k = key \/ k \in DOMAIN others.of
         /\ \A k \in DOMAIN others.of : Taking!AddMember(key, v, others).of[k] = others.of[k]
         /\ key \notin DOMAIN others.of => Taking!AddMember(key, v, others).of[key] = v
<1> DEFINE all == [k \in DOMAIN others.of \union {key} |-> IF k \in DOMAIN others.of THEN others.of[k] ELSE v]
<1>1. Taking!AddMember(key, v, others).of = all
  BY MadeTypes DEF Taking!AddMember
<1>2. /\ \A k : k \in DOMAIN all <=> k = key \/ k \in DOMAIN others.of
      /\ \A k \in DOMAIN others.of : all[k] = others.of[k]
      /\ key \notin DOMAIN others.of => all[key] = v
  OBVIOUS
<1> HIDE DEF all
<1> QED  BY <1>1, <1>2

LEMMA AddedAlone ==
  ASSUME NEW key, NEW v
  PROVE  /\ \A k : k \in DOMAIN Taking!AddMember(key, v, Taking!Object(<<>>)).of <=> k = key
         /\ Taking!AddMember(key, v, Taking!Object(<<>>)).of[key] = v
<1>1. PICK none : none = Taking!Object(<<>>)
  OBVIOUS
<1>2. \A k : k \notin DOMAIN none.of
  <2>1. none.of = <<>> /\ DOMAIN <<>> = {}
    BY <1>1, MadeTypes
  <2> QED  BY ONLY <2>1
<1>3. /\ \A k : k \in DOMAIN Taking!AddMember(key, v, none).of <=> k = key \/ k \in DOMAIN none.of
      /\ key \notin DOMAIN none.of => Taking!AddMember(key, v, none).of[key] = v
  BY Added
<1> QED  BY ONLY <1>1, <1>2, <1>3

\* A member that is read of both, and others that are cut.
LEMMA MemberAndCut ==
  ASSUME NEW key, NEW v, NEW others, NEW meant, CutObject(others, meant), key \notin DOMAIN meant.of
  PROVE  CutObject(Taking!AddMember(key, v, others), Taking!AddMember(key, v, meant))
<1>1. PICK o : o = Taking!AddMember(key, v, others)
  OBVIOUS
<1>2. PICK m : m = Taking!AddMember(key, v, meant)
  OBVIOUS
<1>3. o.type = "object" /\ m.type = "object"
  BY <1>1, <1>2, MadeTypes
<1>4. PICK x : \A k \in DOMAIN others.of :
                 others.of[k] = meant.of[k] \/ (k = x /\ Blurred(others.of[k], meant.of[k]))
  BY DEF CutObject
<1>5. DOMAIN others.of \subseteq DOMAIN meant.of /\ key \notin DOMAIN others.of
  BY DEF CutObject
<1>6. /\ \A k : k \in DOMAIN o.of <=> k = key \/ k \in DOMAIN others.of
      /\ \A k \in DOMAIN others.of : o.of[k] = others.of[k]
      /\ o.of[key] = v
  BY <1>1, <1>5, Added
<1>7. /\ \A k : k \in DOMAIN m.of <=> k = key \/ k \in DOMAIN meant.of
      /\ \A k \in DOMAIN meant.of : m.of[k] = meant.of[k]
      /\ m.of[key] = v
  BY <1>2, Added
<1>8. \A k \in DOMAIN o.of : o.of[k] = m.of[k] \/ (k = x /\ Blurred(o.of[k], m.of[k]))
  <2> SUFFICES ASSUME NEW k \in DOMAIN o.of
               PROVE  o.of[k] = m.of[k] \/ (k = x /\ Blurred(o.of[k], m.of[k]))
    OBVIOUS
  <2>1. CASE k = key
    <3>1. o.of[key] = v
      BY <1>6
    <3>2. m.of[key] = v
      BY <1>7
    <3> QED  BY ONLY <2>1, <3>1, <3>2
  <2>2. CASE k \in DOMAIN others.of
    <3>1. o.of[k] = others.of[k] /\ m.of[k] = meant.of[k]
      BY <1>5, <1>6, <1>7, <2>2
    <3> QED  BY <1>4, <2>2, <3>1
  <2> QED  BY <1>6, <2>1, <2>2
<1>9. DOMAIN o.of \subseteq DOMAIN m.of
  BY <1>5, <1>6, <1>7
<1>10. CutObject(o, m)
  BY ONLY <1>3, <1>8, <1>9 DEF CutObject
<1> QED  BY <1>1, <1>2, <1>10

\* A member that is the last one of the text that was cut.
LEMMA LastMemberCut ==
  ASSUME NEW key, NEW v, NEW w, v = w \/ Blurred(v, w), NEW meant, key \notin DOMAIN meant.of
  PROVE  CutObject(Taking!AddMember(key, v, Taking!Object(<<>>)), Taking!AddMember(key, w, meant))
<1>1. PICK o : o = Taking!AddMember(key, v, Taking!Object(<<>>))
  OBVIOUS
<1>2. PICK m : m = Taking!AddMember(key, w, meant)
  OBVIOUS
<1>3. o.type = "object" /\ m.type = "object"
  BY <1>1, <1>2, MadeTypes
<1>4. (\A k : k \in DOMAIN o.of <=> k = key) /\ o.of[key] = v
  BY <1>1, AddedAlone
<1>5. key \in DOMAIN m.of /\ m.of[key] = w
  BY <1>2, Added
<1>6. \A k \in DOMAIN o.of : o.of[k] = m.of[k] \/ (k = key /\ Blurred(o.of[k], m.of[k]))
  <2>1. ASSUME NEW k \in DOMAIN o.of  PROVE o.of[k] = m.of[k] \/ (k = key /\ Blurred(o.of[k], m.of[k]))
    <3>1. k = key /\ o.of[k] = v /\ m.of[k] = w
      BY <1>4, <1>5, <2>1
    <3> QED  BY <3>1
  <2> QED  BY <2>1
<1>7. DOMAIN o.of \subseteq DOMAIN m.of
  BY <1>4, <1>5
<1>8. CutObject(o, m)
  BY ONLY <1>3, <1>6, <1>7 DEF CutObject
<1> QED  BY <1>1, <1>2, <1>8

CutMembers(f, g, c, i) ==
  i >= 1 /\ i <= c /\ MembersAt(f, i).next > c => CutObject(MembersAt(g, i).value, MembersAt(f, i).value)

\* An object that the cut is in, from a member on, if what follows is so.
LEMMA MembersCut ==
  ASSUME NEW f, NEW t, NEW g, NEW s, NEW c, CutReading(f, t, g, s, c), Taking!IsText(t), KeysApart(f, t),
         NEW i \in Nat, \A j \in Nat : j > i => CutMembers(f, g, c, j)
  PROVE  CutMembers(f, g, c, i)
<1> SUFFICES ASSUME i >= 1, i <= c, MembersAt(f, i).next > c
             PROVE  CutObject(MembersAt(g, i).value, MembersAt(f, i).value)
  BY DEF CutMembers
<1>1. Cut(s, t, c) /\ Fits(f, t) /\ Fits(g, s) /\ c \in Nat /\ c >= 1
  BY DEF CutReading, Cut
<1>2. ":" \in Signs /\ "," \in Signs
  BY DEF Signs
<1>3. PICK j \in Nat : j = i + 1
  OBVIOUS
<1>4. PICK k \in Nat : k = i + 2
  OBVIOUS
<1>5. PICK member : member = ValueAt(f, k)
  OBVIOUS
<1>6. PICK given : given = ValueAt(g, k)
  OBVIOUS
<1>7. member.next \in Nat /\ member.next >= k /\ given.next \in Nat /\ given.next >= k
  BY <1>1, <1>5, <1>6, NextPlaces
<1>8. PICK after \in Nat : after = member.next + 1
  BY <1>7
<1>9. PICK others : others = MembersAt(f, after)
  OBVIOUS
<1>10. MembersFrom(t, i, MembersAt(f, i), member, others)
  BY <1>1, <1>4, <1>5, <1>8, <1>9 DEF Fits, MembersFit
<1>11. MembersFrom(s, i, MembersAt(g, i), given, MembersAt(g, given.next + 1))
  BY <1>1, <1>4, <1>6 DEF Fits, MembersFit
<1>12. MembersAt(f, i).value.type = "object"
  BY <1>10 DEF MembersFrom
<1>13. CASE j >= c
  <2>1. ~Taking!Starts(s, j, ":")
    BY <1>1, <1>2, <1>13, NoSignsAfter
  <2>2. MembersAt(g, i) = Taking!Read(Taking!Object(<<>>), i + 2)
    BY <1>3, <1>11, <2>1 DEF MembersFrom
  <2> QED  BY <1>12, <2>2, ReadIs, EmptyObject
<1>14. CASE j < c
  <2>1. SameToken(s, t, i) /\ SameToken(s, t, j)
    <3>1. i < c
      BY <1>1, <1>3, <1>14
    <3> QED  BY <1>1, <1>14, <3>1 DEF Cut
  <2>2. Taking!Starts(t, j, ":")
    <3> SUFFICES ASSUME ~Taking!Starts(t, j, ":")  PROVE FALSE
      OBVIOUS
    <3>1. MembersAt(f, i) = Taking!Read(Taking!Object(<<>>), k)
      BY <1>3, <1>4, <1>10 DEF MembersFrom
    <3>2. MembersAt(f, i).next = k
      BY <3>1, ReadIs
    <3> QED  BY <1>1, <1>3, <1>4, <1>14, <3>2
  <2>3. Taking!Starts(s, j, ":") /\ Taking!Key(s, i) = Taking!Key(t, i)
    BY <2>1, <2>2 DEF SameToken
  <2>4. PICK key : key = Taking!Key(t, i)
    OBVIOUS
  <2>5. i \in DOMAIN t
    <3>1. j \in DOMAIN t
      BY <2>2 DEF Taking!Starts
    <3>2. DOMAIN t = 1 .. Len(t) /\ Len(t) \in Nat
      BY DEF Taking!IsText
    <3> QED  BY <1>3, <3>1, <3>2
  <2>6. Taking!Starts(t, member.next, ",") => key \notin DOMAIN others.value.of
    BY <1>3, <1>4, <1>5, <1>8, <1>9, <2>2, <2>4, <2>5 DEF KeysApart
  <2>7. SameUpTo(f, g, c, k) /\ (member.next >= c => given.next >= c)
    BY <1>5, <1>6, CutSame
  <2>8. member.next <= c => given = member
    BY <1>5, <1>6, <2>7 DEF SameUpTo
  <2>9. ASSUME Taking!Starts(t, member.next, ",")
        PROVE  /\ MembersAt(f, i).next = others.next
               /\ MembersAt(f, i).value = Taking!AddMember(key, member.value, others.value)
    <3>1. MembersAt(f, i) = Taking!Read(Taking!AddMember(key, member.value, others.value), others.next)
      BY <1>3, <1>10, <2>2, <2>4, <2>9 DEF MembersFrom
    <3> QED  BY ONLY <3>1, ReadIs
  <2>10. ASSUME ~Taking!Starts(t, member.next, ",")
         PROVE  /\ MembersAt(f, i).next = after
                /\ MembersAt(f, i).value = Taking!AddMember(key, member.value, Taking!Object(<<>>))
    <3>1. MembersAt(f, i) = Taking!Read(Taking!AddMember(key, member.value, Taking!Object(<<>>)), after)
      BY <1>3, <1>8, <1>10, <2>2, <2>4, <2>10 DEF MembersFrom
    <3> QED  BY ONLY <3>1, ReadIs
  <2>11. \E rest : /\ key \notin DOMAIN rest.of
                   /\ MembersAt(f, i).value = Taking!AddMember(key, member.value, rest)
    <3>1. key \notin DOMAIN Taking!Object(<<>>).of
      <4>1. Taking!Object(<<>>).of = <<>> /\ DOMAIN <<>> = {}
        BY MadeTypes
      <4> QED  BY ONLY <4>1
    <3>2. CASE Taking!Starts(t, member.next, ",")
      BY ONLY <2>6, <2>9, <3>2
    <3>3. CASE ~Taking!Starts(t, member.next, ",")
      BY ONLY <2>10, <3>1, <3>3
    <3> QED  BY <3>2, <3>3
  <2>12. CASE member.next < c
    <3>1. given = member
      BY <1>1, <1>7, <2>8, <2>12
    <3>2. Taking!Starts(t, member.next, ",")
      <4> SUFFICES ASSUME ~Taking!Starts(t, member.next, ",")  PROVE FALSE
        OBVIOUS
      <4>1. MembersAt(f, i).next = after
        BY <2>10
      <4>2. after \in Nat /\ c \in Nat /\ member.next \in Nat
        BY <1>1, <1>7
      <4>3. ~(after > c)
        BY ONLY <1>8, <2>12, <4>2
      <4> QED  BY ONLY <4>1, <4>3, MembersAt(f, i).next > c
    <3>3. MembersAt(f, i).next = others.next
          /\ MembersAt(f, i).value = Taking!AddMember(key, member.value, others.value)
      BY <2>9, <3>2
    <3>4. Taking!Starts(s, member.next, ",")
      BY <1>1, <1>7, <2>12, <3>2 DEF Cut, SameToken
    <3>5. MembersAt(g, i) =
            Taking!Read(Taking!AddMember(key, member.value, MembersAt(g, after).value), MembersAt(g, after).next)
      BY <1>3, <1>8, <1>11, <2>3, <2>4, <3>1, <3>4 DEF MembersFrom
    <3>6. MembersAt(g, i).value = Taking!AddMember(key, member.value, MembersAt(g, after).value)
      BY <3>5, ReadIs
    <3>7. CutMembers(f, g, c, after) /\ after >= 1 /\ after <= c
      BY <1>1, <1>4, <1>7, <1>8, <2>12
    <3>8. CutObject(MembersAt(g, after).value, others.value)
      BY <1>9, <3>3, <3>7 DEF CutMembers
    <3>9. key \notin DOMAIN others.value.of
      BY <2>6, <3>2
    <3>10. CutObject(Taking!AddMember(key, member.value, MembersAt(g, after).value),
                     Taking!AddMember(key, member.value, others.value))
      BY ONLY <3>8, <3>9, MemberAndCut
    <3> QED  BY <3>3, <3>6, <3>10
  <2>13. CASE member.next >= c
    <3>1. ~Taking!Starts(s, given.next, ",")
      BY <1>1, <1>2, <1>7, <2>7, <2>13, NoSignsAfter
    <3>2. MembersAt(g, i) =
            Taking!Read(Taking!AddMember(key, given.value, Taking!Object(<<>>)), given.next + 1)
      BY <1>3, <1>11, <2>3, <2>4, <3>1 DEF MembersFrom
    <3>3. MembersAt(g, i).value = Taking!AddMember(key, given.value, Taking!Object(<<>>))
      BY <3>2, ReadIs
    <3>4. given.value = member.value \/ Blurred(given.value, member.value)
      <4>1. CASE member.next = c
        <5>1. given = member
          BY <1>1, <2>8, <4>1
        <5> QED  BY <5>1
      <4>2. CASE member.next > c
        <5>1. k <= c
          BY <1>3, <1>4, <1>14, <1>1
        <5> QED  BY <1>5, <1>6, <4>2, <5>1, ValueBlurred
      <4> QED  BY <1>1, <1>7, <2>13, <4>1, <4>2
    <3>5. PICK rest : /\ key \notin DOMAIN rest.of
                      /\ MembersAt(f, i).value = Taking!AddMember(key, member.value, rest)
      BY <2>11
    <3>6. CutObject(Taking!AddMember(key, given.value, Taking!Object(<<>>)),
                    Taking!AddMember(key, member.value, rest))
      BY ONLY <3>4, <3>5, LastMemberCut
    <3> QED  BY <3>3, <3>5, <3>6
  <2> QED  BY <1>1, <1>7, <2>12, <2>13
<1> QED  BY <1>1, <1>13, <1>14

\* An object that the cut is in, from any member on.
LEMMA AllMembersCut ==
  ASSUME NEW f, NEW t, NEW g, NEW s, NEW c, CutReading(f, t, g, s, c), Taking!IsText(t), KeysApart(f, t)
  PROVE  \A i \in Nat : CutMembers(f, g, c, i)
<1> DEFINE T == {p \in Nat : \A i \in Nat : i >= p => CutMembers(f, g, c, i)}
<1>1. c \in Nat
  BY DEF CutReading, Cut
<1>2. c + 1 \in T
  <2>1. ASSUME NEW i \in Nat, i >= c + 1  PROVE CutMembers(f, g, c, i)
    <3>1. ~(i <= c)
      BY <1>1, <2>1
    <3> QED  BY <3>1 DEF CutMembers
  <2> QED  BY <1>1, <2>1
<1>3. ASSUME NEW p \in Nat, p + 1 \in T  PROVE p \in T
  <2>1. \A j \in Nat : j > p => CutMembers(f, g, c, j)
    BY <1>3
  <2>2. CutMembers(f, g, c, p)
    BY <2>1, MembersCut
  <2>3. \A i \in Nat : i >= p => i = p \/ i > p
    OBVIOUS
  <2> QED  BY <2>1, <2>2, <2>3
<1>4. 0 \in T
  <2>1. T \subseteq Nat /\ T # {}
    BY <1>2
  <2> HIDE DEF T
  <2> QED  BY <1>3, <2>1, FromTheEnd
<1> QED  BY <1>4

CutValue(v, meant) == v.type = "object" => CutObject(v, meant)

\* A value in the text that was cut is the one that was meant, or cut, if it
\* is an object.
LEMMA ValueCut ==
  ASSUME NEW f, NEW t, NEW g, NEW s, NEW c, CutReading(f, t, g, s, c), Taking!IsText(t), KeysApart(f, t),
         NEW i \in Nat, i >= 1, i <= c
  PROVE  CutValue(ValueAt(g, i).value, ValueAt(f, i).value)
<1> SUFFICES ASSUME ValueAt(g, i).value.type = "object"
             PROVE  CutObject(ValueAt(g, i).value, ValueAt(f, i).value)
  BY DEF CutValue
<1>1. Cut(s, t, c) /\ Fits(f, t) /\ Fits(g, s) /\ c \in Nat /\ c >= 1
  BY DEF CutReading, Cut
<1>2. ValueFits(f, t, i) /\ ValueFits(g, s, i)
  BY <1>1 DEF Fits
<1>3. ValueAt(f, i).next \in Nat
  BY <1>1, NextPlaces
<1>4. CASE ValueAt(f, i).next <= c
  <2>1. SameUpTo(f, g, c, i)
    BY CutSame
  <2>2. ValueAt(g, i) = ValueAt(f, i)
    BY <1>4, <2>1 DEF SameUpTo
  <2> QED  BY <2>2, WholeObject
<1>5. CASE i = c
  <2>1. ValueAt(g, i) = Scalar(s, i)
    BY <1>5, AtTheCut
  <2>2. Scalar(s, i).value.type # "object"
    <3>1. Scalar(s, i).value.type \in {"string", "int", "bool", "null"}
      BY ScalarIs
    <3> QED  BY <3>1
  <2> QED  BY <2>1, <2>2
<1>6. CASE i < c /\ ValueAt(f, i).next > c
  <2>1. SameToken(s, t, i)
    BY <1>1, <1>6 DEF Cut
  <2>2. PICK j \in Nat : j = i + 1
    OBVIOUS
  <2>3. j >= 1 /\ j <= c
    BY <1>1, <1>6, <2>2
  <2>4. CASE Taking!Starts(t, i, "{")
    <3>1. Taking!Starts(s, i, "{")
      BY <2>1, <2>4 DEF SameToken
    <3>2. "}" \in Signs /\ ":" \in Signs
      BY DEF Signs
    <3>3. CASE Taking!Starts(t, j, "}")
      <4>1. PICK past \in Nat : past = i + 2
        OBVIOUS
      <4>2. ValueAt(f, i) = Taking!Read(Taking!Object(<<>>), past)
        BY <1>2, <2>2, <2>4, <3>3, <4>1 DEF ValueFits
      <4>3. ValueAt(f, i).next = past /\ ValueAt(f, i).value = Taking!Object(<<>>)
        BY ONLY <4>2, ReadIs
      <4>4. past > c
        BY <1>6, <4>3
      <4>5. j = c
        BY ONLY <1>1, <2>2, <2>3, <4>1, <4>4, i \in Nat
      <4>6. ~Taking!Starts(s, j, "}")
        BY <1>1, <2>3, <3>2, <4>5, NoSignsAfter
      <4>7. ValueAt(g, i) = MembersAt(g, j)
        BY <1>2, <2>2, <3>1, <4>6 DEF ValueFits
      <4>8. PICK k \in Nat : k = j + 1
        OBVIOUS
      <4>9. ~Taking!Starts(s, k, ":")
        <5>1. k >= c
          BY <4>5, <4>8
        <5> QED  BY <1>1, <3>2, <5>1, NoSignsAfter
      <4>10. MembersAt(g, j) = Taking!Read(Taking!Object(<<>>), j + 2)
        <5>1. MembersFit(g, s, j)
          BY <1>1 DEF Fits
        <5> QED  BY <4>8, <4>9, <5>1 DEF MembersFit, MembersFrom
      <4>11. ValueAt(g, i).value = Taking!Object(<<>>)
        BY <4>7, <4>10, ReadIs
      <4>12. Taking!Object(<<>>).type = "object"
        BY MadeTypes
      <4> QED  BY <4>3, <4>11, <4>12, WholeObject
    <3>4. CASE ~Taking!Starts(t, j, "}")
      <4>1. ValueAt(f, i) = MembersAt(f, j)
        BY <1>2, <2>2, <2>4, <3>4 DEF ValueFits
      <4>2. ~Taking!Starts(s, j, "}")
        <5>1. CASE j = c
          BY <1>1, <2>3, <3>2, <5>1, NoSignsAfter
        <5>2. CASE j < c
          <6>1. SameToken(s, t, j)
            BY <1>1, <5>2 DEF Cut
          <6> QED  BY <3>4, <6>1 DEF SameToken
        <5>3. j = c \/ j < c
          BY ONLY <1>1, <2>3, j \in Nat
        <5> QED  BY ONLY <5>1, <5>2, <5>3
      <4>3. ValueAt(g, i) = MembersAt(g, j)
        BY <1>2, <2>2, <3>1, <4>2 DEF ValueFits
      <4>4. CutMembers(f, g, c, j)
        BY AllMembersCut
      <4>5. MembersAt(f, j).next > c
        BY <1>6, <4>1
      <4>6. CutObject(MembersAt(g, j).value, MembersAt(f, j).value)
        BY <2>3, <4>4, <4>5 DEF CutMembers
      <4> QED  BY <4>1, <4>3, <4>6
    <3> QED  BY <3>3, <3>4
  <2>5. CASE Taking!Starts(t, i, "[")
    <3>1. Taking!Starts(s, i, "[")
      BY <2>1, <2>5 DEF SameToken
    <3>2. ValueAt(g, i).value.type = "array"
      BY <1>1, <3>1, Compounds
    <3> QED  BY <3>2
  <2>6. CASE ~Taking!Starts(t, i, "{") /\ ~Taking!Starts(t, i, "[")
    <3>1. ~Taking!Starts(s, i, "{") /\ ~Taking!Starts(s, i, "[")
      BY <2>1, <2>6 DEF SameToken
    <3>2. ValueAt(g, i) = Scalar(s, i)
      BY <1>2, <3>1 DEF ValueFits
    <3>3. Scalar(s, i).value.type \in {"string", "int", "bool", "null"}
      BY ScalarIs
    <3> QED  BY <3>2, <3>3
  <2> QED  BY <2>4, <2>5, <2>6
<1> QED  BY <1>1, <1>3, <1>4, <1>5, <1>6
-----------------------------------------------------------------------------
(* Arrays that the cut is in                                               *)

\* The elements of an array that was cut are those that were meant, but for
\* the last one, which is no object or a cut one.
CutItems(v, meant) ==
  \A n \in DOMAIN v :
    /\ n < Len(v) => n \in DOMAIN meant /\ v[n] = meant[n]
    /\ v[n].type = "object" => n \in DOMAIN meant /\ CutObject(v[n], meant[n])

\* An element before others.
LEMMA Longer ==
  ASSUME NEW W, NEW v \in W, NEW rest \in Seq(W)
  PROVE  /\ <<v>> \o rest \in Seq(W) /\ DOMAIN (<<v>> \o rest) = 1 .. Len(<<v>> \o rest)
         /\ Len(rest) \in Nat /\ DOMAIN rest = 1 .. Len(rest) /\ Len(<<v>> \o rest) = Len(rest) + 1
         /\ (<<v>> \o rest)[1] = v
         /\ \A n \in 1 .. Len(rest) + 1 : n # 1 => (<<v>> \o rest)[n] = rest[n - 1]
OBVIOUS

LEMMA WholeItems ==
  ASSUME NEW W, NEW v \in Seq(W)  PROVE CutItems(v, v)
<1>1. \A n \in DOMAIN v : v[n].type = "object" => CutObject(v[n], v[n])
  BY WholeObject
<1> QED  BY <1>1 DEF CutItems

\* An element that is read of both, and others that are cut.
LEMMA ElementAndCut ==
  ASSUME NEW W, NEW v \in W, NEW rest \in Seq(W), NEW meant \in Seq(W), CutItems(rest, meant)
  PROVE  CutItems(<<v>> \o rest, <<v>> \o meant)
<1>1. PICK a : a = <<v>> \o rest
  OBVIOUS
<1>2. PICK b : b = <<v>> \o meant
  OBVIOUS
<1>3. PICK l \in Nat : l = Len(rest)
  BY Longer
<1>4. PICK m \in Nat : m = Len(meant)
  BY Longer
<1>5. /\ DOMAIN a = 1 .. l + 1 /\ Len(a) = l + 1 /\ DOMAIN rest = 1 .. l
      /\ a[1] = v /\ \A n \in 1 .. l + 1 : n # 1 => a[n] = rest[n - 1]
  BY ONLY <1>1, <1>3, v \in W, rest \in Seq(W), Longer
<1>6. /\ DOMAIN b = 1 .. m + 1 /\ DOMAIN meant = 1 .. m
      /\ b[1] = v /\ \A n \in 1 .. m + 1 : n # 1 => b[n] = meant[n - 1]
  BY ONLY <1>2, <1>4, v \in W, meant \in Seq(W), Longer
<1> SUFFICES ASSUME NEW n \in 1 .. l + 1
             PROVE  /\ n < l + 1 => n \in DOMAIN b /\ a[n] = b[n]
                    /\ a[n].type = "object" => n \in DOMAIN b /\ CutObject(a[n], b[n])
  BY <1>1, <1>2, <1>5 DEF CutItems
<1>7. CASE n = 1
  <2>1. n \in DOMAIN b /\ a[n] = b[n]
    BY <1>5, <1>6, <1>7
  <2> QED  BY <2>1, WholeObject
<1>8. CASE n # 1
  <2>1. PICK k \in 1 .. l : k = n - 1
    BY <1>8
  <2>2. /\ k < l => k \in DOMAIN meant /\ rest[k] = meant[k]
        /\ rest[k].type = "object" => k \in DOMAIN meant /\ CutObject(rest[k], meant[k])
    BY <1>3, <1>5, <2>1 DEF CutItems
  <2>3. a[n] = rest[k]
    BY <1>5, <1>8, <2>1
  <2>4. k \in DOMAIN meant => n \in DOMAIN b /\ b[n] = meant[k]
    BY <1>6, <1>8, <2>1
  <2>5. n < l + 1 => k < l
    BY <2>1
  <2> QED  BY <2>2, <2>3, <2>4, <2>5
<1> QED  BY <1>7, <1>8

\* An element that is the last one of the text that was cut.
LEMMA LastElementCut ==
  ASSUME NEW W, NEW v \in W, NEW w \in W, CutValue(v, w), NEW none, none = <<>>, NEW meant \in Seq(W)
  PROVE  CutItems(<<v>> \o none, <<w>> \o meant)
<1>1. PICK a : a = <<v>> \o none
  OBVIOUS
<1>2. PICK b : b = <<w>> \o meant
  OBVIOUS
<1>3. none \in Seq(W) /\ Len(none) = 0
  OBVIOUS
<1>4. DOMAIN a = 1 .. 1 /\ Len(a) = 1 /\ a[1] = v
  <2>1. DOMAIN a = 1 .. Len(a) /\ Len(a) = Len(none) + 1 /\ a[1] = v
    BY ONLY <1>1, <1>3, v \in W, Longer
  <2> QED  BY ONLY <1>3, <2>1
<1>5. 1 \in DOMAIN b /\ b[1] = w
  <2>1. DOMAIN b = 1 .. Len(b) /\ Len(b) = Len(meant) + 1 /\ Len(meant) \in Nat /\ b[1] = w
    BY ONLY <1>2, w \in W, meant \in Seq(W), Longer
  <2> QED  BY ONLY <2>1
<1>6. v.type = "object" => CutObject(v, w)
  BY DEF CutValue
<1>7. ASSUME NEW n \in DOMAIN a
      PROVE  /\ n < Len(a) => n \in DOMAIN b /\ a[n] = b[n]
             /\ a[n].type = "object" => n \in DOMAIN b /\ CutObject(a[n], b[n])
  <2>1. n = 1
    BY <1>4
  <2>2. ~(n < Len(a))
    BY <1>4, <2>1
  <2> QED  BY <1>4, <1>5, <1>6, <2>1, <2>2
<1> QED  BY <1>1, <1>2, <1>7 DEF CutItems

\* All that is read is of W, and the elements of arrays are.
ReadIn(f, W) ==
  \A i \in Nat :
    /\ ValueAt(f, i).value \in W
    /\ ElementsAt(f, i).value.of \in Seq(W)

CutElements(f, g, c, i) ==
  i >= 1 /\ i <= c /\ ElementsAt(f, i).next > c =>
    CutItems(ElementsAt(g, i).value.of, ElementsAt(f, i).value.of)

\* An array that the cut is in, from an element on, if what follows is so.
LEMMA ElementsCut ==
  ASSUME NEW f, NEW t, NEW g, NEW s, NEW c, CutReading(f, t, g, s, c), Taking!IsText(t), KeysApart(f, t),
         NEW W, ReadIn(f, W), ReadIn(g, W),
         NEW i \in Nat, \A j \in Nat : j > i => CutElements(f, g, c, j)
  PROVE  CutElements(f, g, c, i)
<1> SUFFICES ASSUME i >= 1, i <= c, ElementsAt(f, i).next > c
             PROVE  CutItems(ElementsAt(g, i).value.of, ElementsAt(f, i).value.of)
  BY DEF CutElements
<1>1. Cut(s, t, c) /\ Fits(f, t) /\ Fits(g, s) /\ c \in Nat /\ c >= 1
  BY DEF CutReading, Cut
<1>2. PICK element : element = ValueAt(f, i)
  OBVIOUS
<1>3. PICK given : given = ValueAt(g, i)
  OBVIOUS
<1>4. element.next \in Nat /\ element.next >= i /\ given.next \in Nat /\ given.next >= i
  BY <1>1, <1>2, <1>3, NextPlaces
<1>5. PICK after \in Nat : after = element.next + 1
  BY <1>4
<1>6. PICK others : others = ElementsAt(f, after)
  OBVIOUS
<1>7. ElementsFrom(t, i, ElementsAt(f, i), element, others)
  BY <1>1, <1>2, <1>5, <1>6 DEF Fits, ElementsFit
<1>8. ElementsFrom(s, i, ElementsAt(g, i), given, ElementsAt(g, given.next + 1))
  BY <1>1, <1>3 DEF Fits, ElementsFit
<1>9. SameUpTo(f, g, c, i) /\ (element.next >= c => given.next >= c)
  BY <1>2, <1>3, CutSame
<1>10. element.next <= c => given = element
  BY <1>2, <1>3, <1>9 DEF SameUpTo
<1>11. element.value \in W /\ given.value \in W /\ others.value.of \in Seq(W)
       /\ ElementsAt(g, after).value.of \in Seq(W)
  BY <1>2, <1>3, <1>6 DEF ReadIn
<1>12. \A v, o : Taking!AddElement(v, o).of = <<v>> \o o.of
  BY DEF Taking!AddElement, Taking!Array
<1>13. PICK none : none = <<>>
  OBVIOUS
<1>14. Taking!Array(<<>>).of = none
  BY <1>13, MadeTypes
<1>15. ASSUME Taking!Starts(t, element.next, ",")
       PROVE  /\ ElementsAt(f, i).next = others.next
              /\ ElementsAt(f, i).value.of = <<element.value>> \o others.value.of
  <2>1. ElementsAt(f, i) = Taking!Read(Taking!AddElement(element.value, others.value), others.next)
    BY <1>7, <1>15 DEF ElementsFrom
  <2>2. ElementsAt(f, i).next = others.next
        /\ ElementsAt(f, i).value = Taking!AddElement(element.value, others.value)
    BY ONLY <2>1, ReadIs
  <2> QED  BY ONLY <1>12, <2>2
<1>16. ASSUME ~Taking!Starts(t, element.next, ",")
       PROVE  /\ ElementsAt(f, i).next = after
              /\ ElementsAt(f, i).value.of = <<element.value>> \o none
  <2>1. ElementsAt(f, i) = Taking!Read(Taking!AddElement(element.value, Taking!Array(<<>>)), after)
    BY <1>5, <1>7, <1>16 DEF ElementsFrom
  <2>2. ElementsAt(f, i).next = after
        /\ ElementsAt(f, i).value = Taking!AddElement(element.value, Taking!Array(<<>>))
    BY ONLY <2>1, ReadIs
  <2> QED  BY ONLY <1>12, <1>14, <2>2
<1>17. \E rest \in Seq(W) : ElementsAt(f, i).value.of = <<element.value>> \o rest
  <2>1. none \in Seq(W)
    BY <1>13
  <2> QED  BY ONLY <1>11, <1>15, <1>16, <2>1
<1>18. CASE element.next < c
  <2>1. given = element
    BY <1>1, <1>4, <1>10, <1>18
  <2>2. Taking!Starts(t, element.next, ",")
    <3> SUFFICES ASSUME ~Taking!Starts(t, element.next, ",")  PROVE FALSE
      OBVIOUS
    <3>1. ElementsAt(f, i).next = after
      BY <1>16
    <3>2. after \in Nat /\ c \in Nat /\ element.next \in Nat
      BY <1>1, <1>4
    <3>3. ~(after > c)
      BY ONLY <1>5, <1>18, <3>2
    <3> QED  BY ONLY <3>1, <3>3, ElementsAt(f, i).next > c
  <2>3. Taking!Starts(s, element.next, ",")
    BY <1>1, <1>4, <1>18, <2>2 DEF Cut, SameToken
  <2>4. ElementsAt(g, i) =
          Taking!Read(Taking!AddElement(element.value, ElementsAt(g, after).value), ElementsAt(g, after).next)
    BY <1>5, <1>8, <2>1, <2>3 DEF ElementsFrom
  <2>5. ElementsAt(g, i).value.of = <<element.value>> \o ElementsAt(g, after).value.of
    <3>1. ElementsAt(g, i).value = Taking!AddElement(element.value, ElementsAt(g, after).value)
      BY ONLY <2>4, ReadIs
    <3> QED  BY ONLY <1>12, <3>1
  <2>6. after >= 1 /\ after <= c /\ after > i
    BY <1>1, <1>4, <1>5, <1>18
  <2>7. others.next > c
    BY <1>15, <2>2
  <2>8. CutElements(f, g, c, after)
    BY <2>6
  <2>9. CutItems(ElementsAt(g, after).value.of, others.value.of)
    BY <1>6, <2>6, <2>7, <2>8 DEF CutElements
  <2>10. CutItems(<<element.value>> \o ElementsAt(g, after).value.of, <<element.value>> \o others.value.of)
    BY ONLY <1>11, <2>9, ElementAndCut
  <2> QED  BY <1>15, <2>2, <2>5, <2>10
<1>19. CASE element.next >= c
  <2>1. "," \in Signs
    BY DEF Signs
  <2>2. ~Taking!Starts(s, given.next, ",")
    BY <1>1, <1>4, <1>9, <1>19, <2>1, NoSignsAfter
  <2>3. ElementsAt(g, i) =
          Taking!Read(Taking!AddElement(given.value, Taking!Array(<<>>)), given.next + 1)
    BY <1>8, <2>2 DEF ElementsFrom
  <2>4. ElementsAt(g, i).value.of = <<given.value>> \o none
    <3>1. ElementsAt(g, i).value = Taking!AddElement(given.value, Taking!Array(<<>>))
      BY <2>3, ReadIs
    <3> QED  BY ONLY <1>12, <1>14, <3>1
  <2>5. CutValue(given.value, element.value)
    BY <1>2, <1>3, ValueCut
  <2>6. PICK rest \in Seq(W) : ElementsAt(f, i).value.of = <<element.value>> \o rest
    BY <1>17
  <2>7. CutItems(<<given.value>> \o none, <<element.value>> \o rest)
    BY ONLY <1>11, <1>13, <2>5, rest \in Seq(W), LastElementCut
  <2> QED  BY <2>4, <2>6, <2>7
<1> QED  BY <1>1, <1>4, <1>18, <1>19

\* An array that the cut is in, from any element on.
LEMMA AllElementsCut ==
  ASSUME NEW f, NEW t, NEW g, NEW s, NEW c, CutReading(f, t, g, s, c), Taking!IsText(t), KeysApart(f, t),
         NEW W, ReadIn(f, W), ReadIn(g, W)
  PROVE  \A i \in Nat : CutElements(f, g, c, i)
<1> DEFINE T == {p \in Nat : \A i \in Nat : i >= p => CutElements(f, g, c, i)}
<1>1. c \in Nat
  BY DEF CutReading, Cut
<1>2. c + 1 \in T
  <2>1. ASSUME NEW i \in Nat, i >= c + 1  PROVE CutElements(f, g, c, i)
    <3>1. ~(i <= c)
      BY <1>1, <2>1
    <3> QED  BY <3>1 DEF CutElements
  <2> QED  BY <1>1, <2>1
<1>3. ASSUME NEW p \in Nat, p + 1 \in T  PROVE p \in T
  <2>1. \A j \in Nat : j > p => CutElements(f, g, c, j)
    BY <1>3
  <2>2. CutElements(f, g, c, p)
    BY <2>1, ElementsCut
  <2>3. \A i \in Nat : i >= p => i = p \/ i > p
    OBVIOUS
  <2> QED  BY <2>1, <2>2, <2>3
<1>4. 0 \in T
  <2>1. T \subseteq Nat /\ T # {}
    BY <1>2
  <2> HIDE DEF T
  <2> QED  BY <1>3, <2>1, FromTheEnd
<1> QED  BY <1>4

\* What is read of a text that was cut, by what was meant.
CutRoot(v, meant) ==
  /\ CutValue(v, meant)
  /\ v.type = "array" => meant.type = "array" /\ CutItems(v.of, meant.of)

\* An array in the text that was cut.
LEMMA ArrayCut ==
  ASSUME NEW f, NEW t, NEW g, NEW s, NEW c, CutReading(f, t, g, s, c), Taking!IsText(t), KeysApart(f, t),
         NEW W, ReadIn(f, W), ReadIn(g, W), \A v \in W : v.type = "array" => v.of \in Seq(W),
         NEW i \in Nat, i >= 1, i <= c, ValueAt(g, i).value.type = "array"
  PROVE  /\ ValueAt(f, i).value.type = "array"
         /\ CutItems(ValueAt(g, i).value.of, ValueAt(f, i).value.of)
<1>1. Cut(s, t, c) /\ Fits(f, t) /\ Fits(g, s) /\ c \in Nat /\ c >= 1
  BY DEF CutReading, Cut
<1>2. ValueFits(f, t, i) /\ ValueFits(g, s, i)
  BY <1>1 DEF Fits
<1>3. ValueAt(f, i).next \in Nat
  BY <1>1, NextPlaces
<1>4. CASE ValueAt(f, i).next <= c
  <2>1. SameUpTo(f, g, c, i)
    BY CutSame
  <2>2. ValueAt(g, i) = ValueAt(f, i)
    BY <1>4, <2>1 DEF SameUpTo
  <2>3. ValueAt(f, i).value \in W
    BY DEF ReadIn
  <2>4. ValueAt(f, i).value.of \in Seq(W)
    BY <2>2, <2>3
  <2> QED  BY <2>2, <2>4, WholeItems
<1>5. i # c
  <2> SUFFICES ASSUME i = c  PROVE FALSE
    OBVIOUS
  <2>1. ValueAt(g, i) = Scalar(s, i)
    BY AtTheCut
  <2>2. Scalar(s, i).value.type \in {"string", "int", "bool", "null"}
    BY ScalarIs
  <2> QED  BY <2>1, <2>2
<1>6. CASE ValueAt(f, i).next > c
  <2>1. i < c
    BY ONLY <1>1, <1>5, i \in Nat, i <= c
  <2>2. SameToken(s, t, i)
    BY <1>1, <2>1 DEF Cut
  <2>3. PICK j \in Nat : j = i + 1
    OBVIOUS
  <2>4. j >= 1 /\ j <= c
    BY ONLY <1>1, <2>1, <2>3, i \in Nat
  <2>5. Taking!Starts(s, i, "[")
    <3>1. Taking!Starts(s, i, "{") => ValueAt(g, i).value.type = "object"
      BY <1>1, Compounds
    <3>2. ~Taking!Starts(s, i, "{")
      BY <3>1
    <3> SUFFICES ASSUME ~Taking!Starts(s, i, "[")  PROVE FALSE
      OBVIOUS
    <3>3. ValueAt(g, i) = Scalar(s, i)
      BY <1>2, <3>2 DEF ValueFits
    <3>4. Scalar(s, i).value.type \in {"string", "int", "bool", "null"}
      BY ScalarIs
    <3> QED  BY <3>3, <3>4
  <2>6. Taking!Starts(t, i, "[")
    BY <2>2, <2>5 DEF SameToken
  <2>7. ValueAt(f, i).value.type = "array"
    BY <1>1, <2>6, Compounds
  <2>8. "]" \in Signs /\ "," \in Signs
    BY DEF Signs
  <2>9. CASE Taking!Starts(t, j, "]")
    <3>1. PICK past \in Nat : past = i + 2
      OBVIOUS
    <3>2. ValueAt(f, i) = Taking!Read(Taking!Array(<<>>), past)
      BY <1>2, <2>3, <2>6, <2>9, <3>1 DEF ValueFits
    <3>3. ValueAt(f, i).next = past
      BY ONLY <3>2, ReadIs
    <3>4. past > c
      BY <1>6, <3>3
    <3>5. j = c
      BY ONLY <1>1, <2>3, <2>4, <3>1, <3>4, i \in Nat
    <3>6. ~Taking!Starts(s, j, "]") /\ ~Taking!Starts(s, j, ",")
      <4>1. j >= c
        BY ONLY <3>5, j \in Nat
      <4>2. ~Taking!Starts(s, j, "]")
        BY <1>1, <2>8, <4>1, NoSignsAfter
      <4>3. ~Taking!Starts(s, j, ",")
        BY <1>1, <2>8, <4>1, NoSignsAfter
      <4> QED  BY <4>2, <4>3
    <3>7. ValueAt(g, i) = ElementsAt(g, j)
      BY <1>2, <2>3, <2>5, <3>6 DEF ValueFits
    <3>8. PICK element : element = ValueAt(g, j)
      OBVIOUS
    <3>9. element = Taking!Read(Taking!Null, j)
      BY <2>8, <2>9, <3>5, <3>8, NothingOfSigns
    <3>10. element.value = Taking!Null /\ element.next = j
      BY ONLY <3>9, ReadIs
    <3>11. ElementsFrom(s, j, ElementsAt(g, j), element, ElementsAt(g, element.next + 1))
      BY <1>1, <3>8 DEF Fits, ElementsFit
    <3>12. ElementsAt(g, j) = Taking!Read(Taking!AddElement(Taking!Null, Taking!Array(<<>>)), j + 1)
      BY <3>6, <3>10, <3>11 DEF ElementsFrom
    <3>13. PICK none : none = <<>>
      OBVIOUS
    <3>14. PICK v : v = ValueAt(g, i).value.of
      OBVIOUS
    <3>15. v = <<Taking!Null>> \o none
      <4>1. ValueAt(g, i).value = Taking!AddElement(Taking!Null, Taking!Array(<<>>))
        BY <3>7, <3>12, ReadIs
      <4>2. \A w, o : Taking!AddElement(w, o).of = <<w>> \o o.of
        BY DEF Taking!AddElement, Taking!Array
      <4>3. Taking!Array(<<>>).of = none
        BY <3>13, MadeTypes
      <4> QED  BY ONLY <3>14, <4>1, <4>2, <4>3
    <3>16. DOMAIN v = 1 .. 1 /\ Len(v) = 1 /\ v[1] = Taking!Null
      <4>1. Taking!Null \in {Taking!Null} /\ none \in Seq({Taking!Null}) /\ Len(none) = 0
        BY <3>13
      <4>2. DOMAIN v = 1 .. Len(v) /\ Len(v) = Len(none) + 1 /\ v[1] = Taking!Null
        BY ONLY <3>15, <4>1, Longer
      <4> QED  BY ONLY <4>1, <4>2
    <3>17. Taking!Null.type # "object"
      BY DEF Taking!Null
    <3>18. \A n \in DOMAIN v : ~(n < Len(v)) /\ v[n].type # "object"
      <4>1. ASSUME NEW n \in DOMAIN v  PROVE n = 1
        BY <3>16
      <4> QED  BY <3>16, <3>17, <4>1
    <3> QED  BY <2>7, <3>14, <3>18 DEF CutItems
  <2>10. CASE ~Taking!Starts(t, j, "]")
    <3>1. ValueAt(f, i) = ElementsAt(f, j)
      BY <1>2, <2>3, <2>6, <2>10 DEF ValueFits
    <3>2. ~Taking!Starts(s, j, "]")
      <4>1. CASE j = c
        BY <1>1, <2>4, <2>8, <4>1, NoSignsAfter
      <4>2. CASE j < c
        <5>1. SameToken(s, t, j)
          BY <1>1, <4>2 DEF Cut
        <5> QED  BY <2>10, <5>1 DEF SameToken
      <4>3. j = c \/ j < c
        BY ONLY <1>1, <2>4, j \in Nat
      <4> QED  BY ONLY <4>1, <4>2, <4>3
    <3>3. ValueAt(g, i) = ElementsAt(g, j)
      BY <1>2, <2>3, <2>5, <3>2 DEF ValueFits
    <3>4. CutElements(f, g, c, j)
      BY AllElementsCut
    <3>5. ElementsAt(f, j).next > c
      BY <1>6, <3>1
    <3>6. CutItems(ElementsAt(g, j).value.of, ElementsAt(f, j).value.of)
      BY <2>4, <3>4, <3>5 DEF CutElements
    <3> QED  BY <2>7, <3>1, <3>3, <3>6
  <2> QED  BY <2>9, <2>10
<1> QED  BY <1>1, <1>3, <1>4, <1>6

\* The whole of a text that was cut.
LEMMA RootCut ==
  ASSUME NEW f, NEW t, NEW g, NEW s, NEW c, CutReading(f, t, g, s, c), Taking!IsText(t), KeysApart(f, t),
         NEW W, ReadIn(f, W), ReadIn(g, W), \A v \in W : v.type = "array" => v.of \in Seq(W)
  PROVE  CutRoot(ValueAt(g, 1).value, ValueAt(f, 1).value)
<1>1. PICK i \in Nat : i = 1
  OBVIOUS
<1>2. i >= 1 /\ i <= c
  BY <1>1 DEF CutReading, Cut
<1>3. CutValue(ValueAt(g, i).value, ValueAt(f, i).value)
  BY <1>2, ValueCut
<1>4. ValueAt(g, i).value.type = "array" =>
        /\ ValueAt(f, i).value.type = "array"
        /\ CutItems(ValueAt(g, i).value.of, ValueAt(f, i).value.of)
  BY <1>2, ArrayCut
<1>5. CutRoot(ValueAt(g, i).value, ValueAt(f, i).value)
  BY ONLY <1>3, <1>4 DEF CutRoot
<1> QED  BY ONLY <1>1, <1>5

(***************************************************************************)
(* json::parse on a text that was cut off anywhere, even inside a token:   *)
(* an object it returns has members of the one that was meant, all but one *)
(* with their values, and an array its elements, all but the last, if no   *)
(* object in the text gives a key twice.                                   *)
(***************************************************************************)
THEOREM ParsedUpToTheCut ==
  ASSUME NEW t, Taking!IsText(t), Taking!KeysOnce(t), NEW s \in Taking!Beginnings(t)
  PROVE  \E W : /\ Taking!Parse(s) \in W /\ Taking!Parse(t) \in W /\ \A v \in W : Whole(v, W)
                /\ CutRoot(Taking!Parse(s), Taking!Parse(t))
<1>1. Taking!IsText(s)
  BY BeginningsAreTexts
<1>2. PICK f : f = Taking!Reads(t)
  OBVIOUS
<1>3. PICK g : g = Taking!Reads(s)
  OBVIOUS
<1>4. ReadFrom(f, t, 0) /\ Onward(f, 0) /\ Taking!Parse(t) = ValueAt(f, 1).value
  <2>1. Len(t) \in Nat /\ EndsAt(t, Len(t))
    BY TextsEnd
  <2> QED  BY <1>2, <2>1, ParserEnds DEF ValueAt
<1>5. ReadFrom(g, s, 0) /\ Onward(g, 0) /\ Taking!Parse(s) = ValueAt(g, 1).value
  <2>1. Len(s) \in Nat /\ EndsAt(s, Len(s))
    BY <1>1, TextsEnd
  <2> QED  BY <1>3, <2>1, ParserEnds DEF ValueAt
<1>6. Fits(f, t) /\ Fits(g, s)
  BY <1>4, <1>5, ReadingFits
<1>7. PICK c : Cut(s, t, c)
  BY BeginningsAreCut
<1>8. CutReading(f, t, g, s, c)
  BY <1>6, <1>7 DEF CutReading
<1>9. KeysApart(f, t)
  BY <1>2 DEF KeysApart, Taking!KeysOnce, ValueAt, MembersAt
<1> DEFINE W == {f[job].value : job \in Jobs} \union {g[job].value : job \in Jobs}
<1>10. /\ \A job \in Jobs : f[job].value \in W /\ g[job].value \in W
       /\ \A v \in W : \E job \in Jobs : v = f[job].value \/ v = g[job].value
  OBVIOUS
<1> HIDE DEF W
<1>11. \A job \in Jobs : Whole(f[job].value, W)
  <2>1. \A job \in Jobs : f[job].value \in W
    BY <1>10
  <2> QED  BY <1>4, <2>1, ValuesWhole
<1>12. \A job \in Jobs : Whole(g[job].value, W)
  <2>1. \A job \in Jobs : g[job].value \in W
    BY <1>10
  <2> QED  BY <1>1, <1>5, <2>1, ValuesWhole
<1>13. \A v \in W : Whole(v, W)
  BY <1>10, <1>11, <1>12
<1>14. ASSUME NEW h, NEW u, Fits(h, u), \A job \in Jobs : h[job].value \in W  PROVE ReadIn(h, W)
  <2>1. ASSUME NEW i \in Nat
        PROVE  ValueAt(h, i).value \in W /\ ElementsAt(h, i).value.of \in Seq(W)
    <3>1. ValueAt(h, i).value \in W /\ ElementsAt(h, i).value \in W
      BY <1>14, JobsThere DEF ValueAt, ElementsAt
    <3>2. ElementsAt(h, i).value.type = "array"
      BY <1>14 DEF Fits, ElementsFit, ElementsFrom
    <3>3. Whole(ElementsAt(h, i).value, W)
      BY <1>13, <3>1
    <3> QED  BY ONLY <3>1, <3>2, <3>3 DEF Whole
  <2> QED  BY <2>1 DEF ReadIn
<1>15. ReadIn(f, W) /\ ReadIn(g, W)
  BY <1>6, <1>10, <1>14
<1>16. \A v \in W : v.type = "array" => v.of \in Seq(W)
  BY <1>13 DEF Whole
<1>17. CutRoot(ValueAt(g, 1).value, ValueAt(f, 1).value)
  BY <1>8, <1>9, <1>15, <1>16, RootCut
<1>18. Taking!Parse(s) \in W /\ Taking!Parse(t) \in W
  <2>1. <<"value", 1>> \in Jobs
    BY JobsThere
  <2> QED  BY <1>4, <1>5, <1>10, <2>1 DEF ValueAt
<1>19. CutRoot(Taking!Parse(s), Taking!Parse(t))
  BY ONLY <1>4, <1>5, <1>17
<1> QED  BY ONLY <1>13, <1>18, <1>19
-----------------------------------------------------------------------------
(* Readings of a text that was cut                                         *)

\* The n-th of the places in K is the one that n places go up to.
LEMMA NthIs ==
  ASSUME NEW s, NEW K, K \subseteq Nat, IsFiniteSet(K)
  PROVE  /\ DOMAIN Taking!Selected(s, K) = 1 .. Cardinality(K)
         /\ \A n \in 1 .. Cardinality(K) :
              /\ Taking!Nth(K, n) \in K /\ Cardinality(UpTo(K, Taking!Nth(K, n))) = n
              /\ Taking!Selected(s, K)[n] = s[Taking!Nth(K, n)]
<1>1. ASSUME NEW n \in 1 .. Cardinality(K)
      PROVE  Taking!Nth(K, n) \in K /\ Cardinality(UpTo(K, Taking!Nth(K, n))) = n
  <2>1. \E i \in K : Cardinality(UpTo(K, i)) = n
    BY PlacesCount
  <2>2. \E i \in K : Taking!Cardinality({j \in K : j <= i}) = n
    BY <2>1, Copies DEF UpTo
  <2>3. /\ Taking!Nth(K, n) \in K
        /\ Taking!Cardinality({j \in K : j <= Taking!Nth(K, n)}) = n
    BY <2>2 DEF Taking!Nth
  <2> QED  BY <2>3, Copies DEF UpTo
<1>2. Taking!Selected(s, K) = [n \in 1 .. Cardinality(K) |-> s[Taking!Nth(K, n)]]
  BY Copies DEF Taking!Selected
<1> QED  BY <1>1, <1>2

\* Objects are picked out of the items of the text that was cut at the places
\* they are picked at in the one that was meant.
ObjectsOf(items) == Taking!Selected(items, {i \in DOMAIN items : Taking!IsObject(items[i])})

LEMMA PlacesOfObjects ==
  ASSUME NEW W, NEW items \in Seq(W), NEW K, K = {i \in DOMAIN items : Taking!IsObject(items[i])}
  PROVE  /\ K \subseteq Nat /\ IsFiniteSet(K) /\ Cardinality(K) \in Nat
         /\ Len(items) \in Nat /\ DOMAIN items = 1 .. Len(items)
         /\ \A i : i \in K <=> i \in DOMAIN items /\ items[i].type = "object"
         /\ ObjectsOf(items) = Taking!Selected(items, K)
<1>1. Len(items) \in Nat /\ DOMAIN items = 1 .. Len(items)
  OBVIOUS
<1>2. K \in SUBSET (1 .. Len(items)) /\ IsFiniteSet(1 .. Len(items))
  BY <1>1, FS_Interval
<1>3. IsFiniteSet(K)
  BY <1>2, FS_Subset
<1>4. Cardinality(K) \in Nat
  BY <1>3, FS_CardinalityType
<1>5. \A i : i \in K <=> i \in DOMAIN items /\ items[i].type = "object"
  BY DEF Taking!IsObject
<1>6. ObjectsOf(items) = Taking!Selected(items, K)
  BY DEF ObjectsOf
<1>7. K \subseteq Nat
  BY <1>1, <1>2
<1> QED  BY <1>1, <1>3, <1>4, <1>5, <1>6, <1>7

\* As many objects come of the text that was cut, or fewer: those that were
\* meant, but for the last one, which may be cut.
LEMMA ObjectsCut ==
  ASSUME NEW W, NEW v \in Seq(W), NEW w \in Seq(W), CutItems(v, w)
  PROVE  \E a, b \in Nat :
           /\ a <= b /\ DOMAIN ObjectsOf(v) = 1 .. a /\ DOMAIN ObjectsOf(w) = 1 .. b
           /\ \A n \in 1 .. a : /\ n < a => ObjectsOf(v)[n] = ObjectsOf(w)[n]
                                /\ CutObject(ObjectsOf(v)[n], ObjectsOf(w)[n])
                                /\ \E i \in DOMAIN v : ObjectsOf(v)[n] = v[i]
<1>1. PICK K : K = {i \in DOMAIN v : Taking!IsObject(v[i])}
  OBVIOUS
<1>2. PICK L : L = {i \in DOMAIN w : Taking!IsObject(w[i])}
  OBVIOUS
<1>3. /\ K \subseteq Nat /\ IsFiniteSet(K) /\ Cardinality(K) \in Nat
      /\ Len(v) \in Nat /\ DOMAIN v = 1 .. Len(v)
      /\ \A i : i \in K <=> i \in DOMAIN v /\ v[i].type = "object"
      /\ ObjectsOf(v) = Taking!Selected(v, K)
  BY <1>1, PlacesOfObjects
<1>4. /\ L \subseteq Nat /\ IsFiniteSet(L) /\ Cardinality(L) \in Nat
      /\ \A i : i \in L <=> i \in DOMAIN w /\ w[i].type = "object"
      /\ ObjectsOf(w) = Taking!Selected(w, L)
  BY <1>2, PlacesOfObjects
<1>5. \A i \in K : i \in L /\ CutObject(v[i], w[i])
  <2>1. ASSUME NEW i \in K  PROVE i \in DOMAIN w /\ CutObject(v[i], w[i])
    BY <1>3 DEF CutItems
  <2>2. ASSUME NEW i \in K  PROVE w[i].type = "object"
    BY <2>1 DEF CutObject
  <2> QED  BY <1>4, <2>1, <2>2
<1>6. \A i \in K : \A j \in Nat : j < i /\ j >= 1 => j \in DOMAIN v /\ v[j] = w[j] /\ j \in DOMAIN w
  <2> SUFFICES ASSUME NEW i \in K, NEW j \in Nat, j < i, j >= 1
               PROVE  j \in DOMAIN v /\ v[j] = w[j] /\ j \in DOMAIN w
    OBVIOUS
  <2>1. i \in Nat /\ i <= Len(v)
    BY <1>3
  <2>2. j \in DOMAIN v /\ j < Len(v)
    BY <1>3, <2>1
  <2> QED  BY <2>2 DEF CutItems
<1>7. ASSUME NEW i \in K  PROVE UpTo(K, i) = UpTo(L, i)
  <2>1. ASSUME NEW j \in K  PROVE j \in L
    BY <1>5
  <2>2. ASSUME NEW j \in L, j <= i  PROVE j \in K
    <3>1. i \in Nat /\ j \in Nat /\ j >= 1
      <4>1. j \in DOMAIN w
        BY <1>4
      <4> QED  BY <1>3, <4>1
    <3>2. CASE j = i
      BY <3>2
    <3>3. CASE j < i
      <4>1. j \in DOMAIN v /\ v[j] = w[j]
        BY <1>6, <3>1, <3>3
      <4>2. w[j].type = "object"
        BY <1>4
      <4> QED  BY <1>3, <4>1, <4>2
    <3> QED  BY <2>2, <3>1, <3>2, <3>3
  <2> QED  BY <2>1, <2>2 DEF UpTo
<1>8. Cardinality(K) <= Cardinality(L)
  BY <1>4, <1>5, FS_Subset
<1>9. PICK a \in Nat : a = Cardinality(K)
  BY <1>3
<1>10. PICK b \in Nat : b = Cardinality(L)
  BY <1>4
<1>11. PICK x : x = [n \in 1 .. a |-> Taking!Nth(K, n)]
  OBVIOUS
<1>12. DOMAIN ObjectsOf(v) = 1 .. a /\ \A n \in 1 .. a : /\ x[n] \in K /\ Cardinality(UpTo(K, x[n])) = n
                                                          /\ ObjectsOf(v)[n] = v[x[n]]
  BY <1>3, <1>9, <1>11, NthIs
<1>13. /\ DOMAIN ObjectsOf(w) = 1 .. b
       /\ \A n \in 1 .. b : /\ Taking!Nth(L, n) \in L /\ Cardinality(UpTo(L, Taking!Nth(L, n))) = n
                            /\ ObjectsOf(w)[n] = w[Taking!Nth(L, n)]
  BY <1>4, <1>10, NthIs
<1>14. \A i, j \in K : i < j => Cardinality(UpTo(K, i)) < Cardinality(UpTo(K, j))
  BY <1>3, PlacesCount
<1>15. \A i, j \in L : i < j => Cardinality(UpTo(L, i)) < Cardinality(UpTo(L, j))
  BY <1>4, PlacesCount
<1>16. a <= b
  BY <1>8, <1>9, <1>10
<1>17. ASSUME NEW n \in 1 .. a  PROVE ObjectsOf(w)[n] = w[x[n]]
  <2>1. PICK y : y = Taking!Nth(L, n)
    OBVIOUS
  <2>2. n \in 1 .. b /\ n \in Nat
    BY <1>16
  <2>3. y \in L /\ Cardinality(UpTo(L, y)) = n /\ ObjectsOf(w)[n] = w[y]
    BY <1>13, <2>1, <2>2
  <2>4. x[n] \in L /\ Cardinality(UpTo(L, x[n])) = n
    BY <1>5, <1>7, <1>12
  <2>5. y \in Nat /\ x[n] \in Nat
    BY <1>4, <2>3, <2>4
  <2>6. ~(y < x[n]) /\ ~(x[n] < y)
    BY <1>15, <2>2, <2>3, <2>4
  <2>7. y = x[n]
    BY ONLY <2>5, <2>6
  <2> QED  BY <2>3, <2>7
<1>18. ASSUME NEW n \in 1 .. a, n < a  PROVE v[x[n]] = w[x[n]]
  <2>1. a \in 1 .. a
    BY <1>18
  <2>2. x[a] \in K /\ x[n] \in K /\ Cardinality(UpTo(K, x[a])) = a /\ Cardinality(UpTo(K, x[n])) = n
    BY <1>12, <2>1
  <2>3. x[a] \in Nat /\ x[n] \in Nat /\ x[n] >= 1
    BY <1>3, <2>2
  <2>4. ~(x[a] < x[n]) /\ x[a] # x[n]
    BY <1>14, <1>18, <2>2
  <2>5. x[n] < x[a]
    BY ONLY <2>3, <2>4
  <2> QED  BY <1>6, <2>2, <2>3, <2>5
<1>19. ASSUME NEW n \in 1 .. a
       PROVE  /\ n < a => ObjectsOf(v)[n] = ObjectsOf(w)[n]
              /\ CutObject(ObjectsOf(v)[n], ObjectsOf(w)[n])
              /\ \E i \in DOMAIN v : ObjectsOf(v)[n] = v[i]
  <2>1. x[n] \in K /\ ObjectsOf(v)[n] = v[x[n]] /\ ObjectsOf(w)[n] = w[x[n]]
    BY <1>12, <1>17
  <2>2. n < a => v[x[n]] = w[x[n]]
    BY <1>18
  <2>3. CutObject(v[x[n]], w[x[n]])
    BY <1>5, <2>1
  <2>4. x[n] \in DOMAIN v
    BY <1>3, <2>1
  <2> QED  BY <2>1, <2>2, <2>3, <2>4
<1> QED  BY <1>12, <1>13, <1>16, <1>19

\* A reading has its stamp, and nothing else, from Stamped.
LEMMA StampedIs ==
  ASSUME NEW s, "timestamp_ms" \in DOMAIN s
  PROVE  /\ DOMAIN Taking!Stamped(s) = DOMAIN s
         /\ \A f \in DOMAIN s :
              Taking!Stamped(s)[f] = IF f = "timestamp_ms" /\ s[f] = 0 THEN Now ELSE s[f]
<1>1. CASE s.timestamp_ms = 0
  <2>1. Taking!Stamped(s) = [s EXCEPT !.timestamp_ms = Now]
    BY <1>1 DEF Taking!Stamped
  <2> QED  BY <1>1, <2>1
<1>2. CASE s.timestamp_ms # 0
  BY <1>2 DEF Taking!Stamped
<1> QED  BY <1>1, <1>2

\* A field of the reading of an object that was cut, by the reading that was
\* meant and the defaults.
AsMeant(f, r, w, d, m) ==
  \/ r[f] \in {w[f], d[f]}
  \/ r[f] = Taking!Conversion(f, Taking!Null)
  \/ \E part \in Taking!Broken(Taking!Token(Taking!Member(m, f))) :
       r[f] = Taking!Conversion(f, Taking!Parse(<<part>>))

\* A reading without a time stamp has zero for one.
LEMMA DefaultFields ==
  /\ "timestamp_ms" \in Taking!Field
  /\ \A c : DOMAIN Taking!Defaults(c) = Taking!Field /\ Taking!Defaults(c)["timestamp_ms"] = 0
BY DEF Taking!Field, Taking!Defaults

\* A value that is no scalar gives what null gives.
LEMMA NothingConverted ==
  ASSUME NEW v, v.type \in {"null", "object", "array"}, NEW f
  PROVE  Taking!Conversion(f, v) = Taking!Conversion(f, Taking!Null)
<1>1. Taking!AsInt64(v) = Taking!AsInt64(Taking!Null)
  BY DEF Taking!AsInt64, Taking!Null
<1>2. Taking!AsString(v) = Taking!AsString(Taking!Null)
  BY DEF Taking!AsString, Taking!Null
<1>3. Taking!AsDouble(v) = Taking!AsDouble(Taking!Null)
  BY DEF Taking!AsDouble, Taking!Null
<1> QED  BY <1>1, <1>2, <1>3 DEF Taking!Conversion

\* The reading of an object that was cut has its fields as meant or left to
\* their defaults, but for the one that the cut is in.
LEMMA FieldsCut ==
  ASSUME NEW c, NEW v, NEW m, CutObject(v, m),
         NEW r, r = Taking!Stamped(Taking!ParseSensor(c, v)),
         NEW w, w = Taking!Stamped(Taking!ParseSensor(c, m)),
         NEW d, d = Taking!Stamped(Taking!Defaults(c))
  PROVE  /\ \A f \in Taking!Field : AsMeant(f, r, w, d, m)
         /\ \E key : \A f \in Taking!Field : f # key => r[f] \in {w[f], d[f]}
<1>1. PICK x : x = Taking!ParseSensor(c, v)
  OBVIOUS
<1>2. PICK y : y = Taking!ParseSensor(c, m)
  OBVIOUS
<1>3. DOMAIN x = Taking!Field /\ DOMAIN y = Taking!Field
  BY <1>1, <1>2 DEF Taking!ParseSensor
<1>4. \A f \in Taking!Field :
        /\ r[f] = IF f = "timestamp_ms" /\ x[f] = 0 THEN Now ELSE x[f]
        /\ w[f] = IF f = "timestamp_ms" /\ y[f] = 0 THEN Now ELSE y[f]
        /\ d[f] = IF f = "timestamp_ms" THEN Now ELSE Taking!Defaults(c)[f]
  <2>1. \A f \in Taking!Field : r[f] = IF f = "timestamp_ms" /\ x[f] = 0 THEN Now ELSE x[f]
    BY <1>1, <1>3, DefaultFields, StampedIs
  <2>2. \A f \in Taking!Field : w[f] = IF f = "timestamp_ms" /\ y[f] = 0 THEN Now ELSE y[f]
    BY <1>2, <1>3, DefaultFields, StampedIs
  <2>3. \A f \in Taking!Field : d[f] = IF f = "timestamp_ms" THEN Now ELSE Taking!Defaults(c)[f]
    <3>1. PICK z : z = Taking!Defaults(c)
      OBVIOUS
    <3>2. DOMAIN z = Taking!Field /\ z["timestamp_ms"] = 0 /\ "timestamp_ms" \in Taking!Field
      BY <3>1, DefaultFields
    <3>3. \A f \in Taking!Field : d[f] = IF f = "timestamp_ms" /\ z[f] = 0 THEN Now ELSE z[f]
      BY <3>1, <3>2, StampedIs
    <3> QED  BY ONLY <3>1, <3>2, <3>3
  <2> QED  BY <2>1, <2>2, <2>3
<1>5. /\ v.type = "object" /\ m.type = "object"
      /\ DOMAIN v.of \subseteq DOMAIN m.of
  BY DEF CutObject
<1>6. PICK key : \A k \in DOMAIN v.of : v.of[k] = m.of[k] \/ (k = key /\ Blurred(v.of[k], m.of[k]))
  BY DEF CutObject
<1>7. \A f \in Taking!Field :
        /\ f \notin DOMAIN v.of => x[f] = Taking!Defaults(c)[f]
        /\ f \in DOMAIN v.of => x[f] = Taking!Conversion(f, v.of[f])
        /\ f \in DOMAIN v.of => y[f] = Taking!Conversion(f, m.of[f]) /\ Taking!Member(m, f) = m.of[f]
  <2>1. \A o, f : Taking!Has(o, f) <=> o.type = "object" /\ f \in DOMAIN o.of
    BY DEF Taking!Has, Taking!IsObject
  <2>2. \A o, f : Taking!Has(o, f) => Taking!Member(o, f) = o.of[f]
    BY DEF Taking!Member
  <2>3. \A f \in Taking!Field :
          x[f] = IF Taking!Has(v, f) THEN Taking!Conversion(f, Taking!Member(v, f)) ELSE Taking!Defaults(c)[f]
    BY <1>1 DEF Taking!ParseSensor
  <2>4. \A f \in Taking!Field :
          y[f] = IF Taking!Has(m, f) THEN Taking!Conversion(f, Taking!Member(m, f)) ELSE Taking!Defaults(c)[f]
    BY <1>2 DEF Taking!ParseSensor
  <2> QED  BY ONLY <1>5, <2>1, <2>2, <2>3, <2>4
<1>8. ASSUME NEW f \in Taking!Field, f \notin DOMAIN v.of \/ v.of[f] = m.of[f]
      PROVE  r[f] \in {w[f], d[f]}
  <2>1. CASE f \notin DOMAIN v.of
    <3>1. r[f] = d[f]
      BY <1>4, <1>7, <2>1, DefaultFields
    <3> QED  BY <3>1
  <2>2. CASE f \in DOMAIN v.of
    <3>1. x[f] = y[f]
      BY <1>7, <1>8, <2>2
    <3> QED  BY <1>4, <3>1
  <2> QED  BY <2>1, <2>2
<1>9. ASSUME NEW f \in Taking!Field, f \in DOMAIN v.of, Blurred(v.of[f], m.of[f])
      PROVE  AsMeant(f, r, w, d, m)
  <2>1. CASE r[f] # x[f]
    <3>1. f = "timestamp_ms" /\ r[f] = Now
      BY <1>4, <2>1
    <3>2. d[f] = Now
      BY <1>4, <3>1
    <3> QED  BY <3>1, <3>2 DEF AsMeant
  <2>2. CASE r[f] = x[f]
    <3>1. r[f] = Taking!Conversion(f, v.of[f])
      BY <1>7, <1>9, <2>2
    <3>2. CASE v.of[f].type \in {"null", "object", "array"}
      <4>1. r[f] = Taking!Conversion(f, Taking!Null)
        BY <3>1, <3>2, NothingConverted
      <4> QED  BY <4>1 DEF AsMeant
    <3>3. CASE \E part \in Taking!Broken(Taking!Token(m.of[f])) : v.of[f] = Taking!Parse(<<part>>)
      <4>1. Taking!Member(m, f) = m.of[f]
        BY <1>7, <1>9
      <4>2. \E part \in Taking!Broken(Taking!Token(Taking!Member(m, f))) :
              r[f] = Taking!Conversion(f, Taking!Parse(<<part>>))
        BY ONLY <3>1, <3>3, <4>1
      <4> QED  BY ONLY <4>2 DEF AsMeant
    <3> QED  BY <1>9, <3>2, <3>3 DEF Blurred
  <2> QED  BY <2>1, <2>2
<1>10. ASSUME NEW f \in Taking!Field  PROVE AsMeant(f, r, w, d, m)
  <2>1. CASE f \notin DOMAIN v.of \/ v.of[f] = m.of[f]
    <3>1. r[f] \in {w[f], d[f]}
      BY <1>8, <2>1
    <3> QED  BY <3>1 DEF AsMeant
  <2>2. CASE f \in DOMAIN v.of /\ v.of[f] # m.of[f]
    <3>1. Blurred(v.of[f], m.of[f])
      BY <1>6, <2>2
    <3> QED  BY <1>9, <2>2, <3>1
  <2> QED  BY <2>1, <2>2
<1>11. ASSUME NEW f \in Taking!Field, f # key  PROVE r[f] \in {w[f], d[f]}
  <2>1. f \notin DOMAIN v.of \/ v.of[f] = m.of[f]
    BY <1>6, <1>11
  <2> QED  BY <1>8, <2>1
<1> QED  BY <1>10, <1>11

\* What a route looks through for objects.
ItemsOf(route, root) == IF route = "single" THEN <<root>> ELSE IF Taking!IsArray(root) THEN root.of ELSE <<>>

\* Either route looks through items that were cut likewise.
LEMMA ItemsCut ==
  ASSUME NEW W, \A v \in W : Whole(v, W), NEW v \in W, NEW m \in W, CutRoot(v, m), NEW route
  PROVE  /\ ItemsOf(route, v) \in Seq(W) /\ ItemsOf(route, m) \in Seq(W)
         /\ CutItems(ItemsOf(route, v), ItemsOf(route, m))
         /\ (\E i \in DOMAIN ItemsOf(route, v) : ItemsOf(route, v)[i].type = "object") =>
              ItemsOf(route, m) = IF Taking!IsArray(m) THEN m.of ELSE <<m>>
<1>1. /\ v.type = "array" => v.of \in Seq(W)
      /\ m.type = "array" => m.of \in Seq(W)
  BY DEF Whole
<1>2. \A o : Taking!IsArray(o) <=> o.type = "array"
  BY DEF Taking!IsArray
<1>3. CASE route = "single"
  <2>1. PICK i : i = <<v>>
    OBVIOUS
  <2>2. PICK j : j = <<m>>
    OBVIOUS
  <2>3. ItemsOf(route, v) = i /\ ItemsOf(route, m) = j
    BY <1>3, <2>1, <2>2 DEF ItemsOf
  <2>4. /\ i \in Seq(W) /\ DOMAIN i = {1} /\ Len(i) = 1 /\ i[1] = v
        /\ j \in Seq(W) /\ DOMAIN j = {1} /\ j[1] = m
    BY <2>1, <2>2
  <2>5. v.type = "object" => CutObject(v, m) /\ m.type = "object"
    BY DEF CutRoot, CutValue, CutObject
  <2>6. CutItems(i, j)
    <3>1. ASSUME NEW n \in DOMAIN i
          PROVE  /\ n < Len(i) => n \in DOMAIN j /\ i[n] = j[n]
                 /\ i[n].type = "object" => n \in DOMAIN j /\ CutObject(i[n], j[n])
      <4>1. n = 1
        BY <2>4
      <4> QED  BY <2>4, <2>5, <4>1
    <3> QED  BY <3>1 DEF CutItems
  <2>7. (\E n \in DOMAIN i : i[n].type = "object") => j = IF Taking!IsArray(m) THEN m.of ELSE <<m>>
    <3>1. ASSUME NEW n \in DOMAIN i, i[n].type = "object"  PROVE ~Taking!IsArray(m)
      <4>1. v.type = "object"
        BY <2>4, <3>1
      <4> QED  BY <1>2, <2>5, <4>1
    <3> QED  BY <2>2, <3>1
  <2> QED  BY ONLY <2>3, <2>4, <2>6, <2>7
<1>4. CASE route # "single" /\ v.type = "array"
  <2>1. m.type = "array" /\ CutItems(v.of, m.of)
    BY <1>4 DEF CutRoot
  <2>2. ItemsOf(route, v) = v.of /\ ItemsOf(route, m) = m.of
    BY <1>2, <1>4, <2>1 DEF ItemsOf
  <2>3. Taking!IsArray(m)
    BY <1>2, <2>1
  <2> QED  BY ONLY <1>1, <1>4, <2>1, <2>2, <2>3
<1>5. CASE route # "single" /\ v.type # "array"
  <2>1. PICK none : none = <<>>
    OBVIOUS
  <2>2. none \in Seq(W) /\ DOMAIN none = {}
    BY <2>1
  <2>3. ItemsOf(route, v) = none
    BY <1>2, <1>5, <2>1 DEF ItemsOf
  <2>4. ItemsOf(route, m) \in Seq(W)
    BY <1>1, <1>2, <1>5 DEF ItemsOf
  <2>5. \A j : CutItems(none, j)
    BY <2>2 DEF CutItems
  <2> QED  BY <2>2, <2>3, <2>4, <2>5
<1> QED  BY <1>3, <1>4, <1>5

\* Readings up to the last are those that were meant; and of the last one, with
\* the object it should have been read of.
Agree(r, w, objects, default, last) ==
  LET changed == {f \in Taking!Field : r[last][f] \notin {w[last][f], default[f]}} IN
    /\ last <= Len(w)
    /\ \A i \in 1 .. last - 1 : r[i] = w[i]
    /\ last > 0 =>
         /\ Taking!Cardinality(changed) <= 1
         /\ \A f \in changed :
              \/ r[last][f] = Taking!Conversion(f, Taking!Null)
              \/ \E part \in Taking!Broken(Taking!Token(Taking!Member(objects[last], f))) :
                   r[last][f] = Taking!Conversion(f, Taking!Parse(<<part>>))

\* ReadUpToTheCut of a request: its route, the text that was meant, and the
\* readings r by the settings c.
UpToTheCut(c, route, meant, r) ==
  Agree(r, Taking!Readings(c, route, Taking!Parse(meant)),
        ObjectsOf(LET root == Taking!Parse(meant) IN IF Taking!IsArray(root) THEN root.of ELSE <<root>>),
        Taking!Stamped(Taking!Defaults(c)), Len(r))

\* A function on one to n is a sequence of n.
LEMMA LengthOf ==
  ASSUME NEW r, NEW n \in Nat, r = [i \in 1 .. n |-> r[i]]
  PROVE  Len(r) = n
<1> DEFINE R == {r[i] : i \in 1 .. n}
<1>1. r \in [1 .. n -> R]
  OBVIOUS
<1>2. r \in Seq(R)
  <2> HIDE DEF R
  <2> QED  BY <1>1
<1>3. DOMAIN r = 1 .. n
  OBVIOUS
<1> HIDE DEF R
<1> QED  BY ONLY <1>2, <1>3, n \in Nat

LEMMA FewChanged ==
  ASSUME NEW S, NEW key, \A f \in S : f = key
  PROVE  Taking!Cardinality(S) <= 1
<1>1. S \in SUBSET {key}
  OBVIOUS
<1>2. IsFiniteSet({key}) /\ Cardinality({key}) = 1
  BY FS_Singleton
<1>3. Cardinality(S) <= 1
  BY <1>1, <1>2, FS_Subset
<1> QED  BY <1>3, Copies

\* One request, by any settings: its readings are those up to the cut.
LEMMA PostCut ==
  ASSUME NEW meant, Taking!IsText(meant), Taking!KeysOnce(meant), NEW text \in Taking!Beginnings(meant),
         NEW c, NEW route, NEW r, r = Taking!Readings(c, route, Taking!Parse(text))
  PROVE  UpToTheCut(c, route, meant, r)
<1>1. PICK W : /\ Taking!Parse(text) \in W /\ Taking!Parse(meant) \in W /\ \A v \in W : Whole(v, W)
               /\ CutRoot(Taking!Parse(text), Taking!Parse(meant))
  BY ParsedUpToTheCut
<1>2. PICK root \in W : root = Taking!Parse(text)
  BY <1>1
<1>3. PICK whole \in W : whole = Taking!Parse(meant)
  BY <1>1
<1>4. PICK v : v = ItemsOf(route, root)
  OBVIOUS
<1>5. PICK m : m = ItemsOf(route, whole)
  OBVIOUS
<1>6. /\ v \in Seq(W) /\ m \in Seq(W) /\ CutItems(v, m)
      /\ (\E i \in DOMAIN v : v[i].type = "object") => m = IF Taking!IsArray(whole) THEN whole.of ELSE <<whole>>
  <2>1. CutRoot(root, whole)
    BY <1>1, <1>2, <1>3
  <2> QED  BY <1>1, <1>4, <1>5, <2>1, ItemsCut
<1>7. PICK o : o = ObjectsOf(v)
  OBVIOUS
<1>8. PICK p : p = ObjectsOf(m)
  OBVIOUS
<1>9. \E a, b \in Nat :
        /\ a <= b /\ DOMAIN o = 1 .. a /\ DOMAIN p = 1 .. b
        /\ \A n \in 1 .. a : (n < a => o[n] = p[n]) /\ CutObject(o[n], p[n]) /\ \E i \in DOMAIN v : o[n] = v[i]
  BY <1>6, <1>7, <1>8, ObjectsCut
<1>10. PICK a \in Nat : \E b \in Nat :
        /\ a <= b /\ DOMAIN o = 1 .. a /\ DOMAIN p = 1 .. b
        /\ \A n \in 1 .. a : (n < a => o[n] = p[n]) /\ CutObject(o[n], p[n]) /\ \E i \in DOMAIN v : o[n] = v[i]
  BY <1>9
<1>11. PICK b \in Nat :
        /\ a <= b /\ DOMAIN o = 1 .. a /\ DOMAIN p = 1 .. b
        /\ \A n \in 1 .. a : (n < a => o[n] = p[n]) /\ CutObject(o[n], p[n]) /\ \E i \in DOMAIN v : o[n] = v[i]
  BY <1>10
<1>12. r = [i \in DOMAIN o |-> Taking!Stamped(Taking!ParseSensor(c, o[i]))]
  BY <1>2, <1>4, <1>7 DEF Taking!Readings, ItemsOf, ObjectsOf
<1>13. PICK w : w = Taking!Readings(c, route, Taking!Parse(meant))
  OBVIOUS
<1>14. w = [i \in DOMAIN p |-> Taking!Stamped(Taking!ParseSensor(c, p[i]))]
  BY <1>3, <1>5, <1>8, <1>13 DEF Taking!Readings, ItemsOf, ObjectsOf
<1>15. /\ \A n \in 1 .. a : r[n] = Taking!Stamped(Taking!ParseSensor(c, o[n]))
       /\ \A n \in 1 .. b : w[n] = Taking!Stamped(Taking!ParseSensor(c, p[n]))
  BY <1>11, <1>12, <1>14
<1>16. Len(r) = a
  <2>1. r = [i \in 1 .. a |-> r[i]]
    BY <1>11, <1>12
  <2> QED  BY <2>1, LengthOf
<1>17. Len(w) = b
  <2>1. w = [i \in 1 .. b |-> w[i]]
    BY <1>11, <1>14
  <2> QED  BY <2>1, LengthOf
<1>18. \A n \in 1 .. a : n \in 1 .. b
  BY <1>11
<1>19. \A n \in 1 .. a - 1 : r[n] = w[n]
  <2> SUFFICES ASSUME NEW n \in 1 .. a - 1  PROVE r[n] = w[n]
    OBVIOUS
  <2>1. n \in 1 .. a /\ n < a
    OBVIOUS
  <2>2. o[n] = p[n]
    BY <1>11, <2>1
  <2> QED  BY <1>15, <1>18, <2>1, <2>2
<1>20. PICK d : d = Taking!Stamped(Taking!Defaults(c))
  OBVIOUS
<1> DEFINE q == ObjectsOf(LET root_ == Taking!Parse(meant) IN IF Taking!IsArray(root_) THEN root_.of ELSE <<root_>>)
<1>21. ASSUME a > 0
       PROVE  /\ \A f \in Taking!Field : AsMeant(f, r[a], w[a], d, p[a])
              /\ \E key : \A f \in Taking!Field : f # key => r[a][f] \in {w[a][f], d[f]}
              /\ q = p
  <2>1. a \in 1 .. a /\ a \in 1 .. b
    BY <1>18, <1>21
  <2>2. CutObject(o[a], p[a]) /\ \E i \in DOMAIN v : o[a] = v[i]
    BY <1>11, <2>1
  <2>3. r[a] = Taking!Stamped(Taking!ParseSensor(c, o[a])) /\ w[a] = Taking!Stamped(Taking!ParseSensor(c, p[a]))
    BY <1>15, <2>1
  <2>4. /\ \A f \in Taking!Field : AsMeant(f, r[a], w[a], d, p[a])
        /\ \E key : \A f \in Taking!Field : f # key => r[a][f] \in {w[a][f], d[f]}
    BY <1>20, <2>2, <2>3, FieldsCut
  <2>5. \E i \in DOMAIN v : v[i].type = "object"
    BY <2>2 DEF CutObject
  <2>6. m = IF Taking!IsArray(whole) THEN whole.of ELSE <<whole>>
    BY <1>6, <2>5
  <2>7. q = ObjectsOf(m)
    BY ONLY <1>3, <2>6
  <2> QED  BY <1>8, <2>4, <2>7
<1> HIDE DEF q
<1> DEFINE changed == {f \in Taking!Field : r[a][f] \notin {w[a][f], d[f]}}
<1>22. a > 0 => Taking!Cardinality(changed) <= 1
  <2> SUFFICES ASSUME a > 0  PROVE Taking!Cardinality(changed) <= 1
    OBVIOUS
  <2>1. PICK key : \A f \in Taking!Field : f # key => r[a][f] \in {w[a][f], d[f]}
    BY <1>21
  <2>2. PICK S : S = changed
    OBVIOUS
  <2>3. \A f \in S : f = key
    BY <2>1, <2>2
  <2>4. Taking!Cardinality(S) <= 1
    BY ONLY <2>3, FewChanged
  <2> QED  BY ONLY <2>2, <2>4
<1>23. a > 0 => \A f \in changed :
                  \/ r[a][f] = Taking!Conversion(f, Taking!Null)
                  \/ \E part \in Taking!Broken(Taking!Token(Taking!Member(q[a], f))) :
                       r[a][f] = Taking!Conversion(f, Taking!Parse(<<part>>))
  BY <1>21 DEF AsMeant
<1>24. Agree(r, w, q, d, a)
  BY <1>11, <1>17, <1>19, <1>22, <1>23 DEF Agree
<1> QED  BY ONLY <1>13, <1>16, <1>20, <1>24 DEF UpToTheCut, q

-----------------------------------------------------------------------------
(* Intake: what is read of a request                                       *)

\* What was read is what the routes make of the text that came, a beginning
\* of the body that was meant, by the settings still in force.
RInv ==
  /\ main = "new" => posted = Taking!NoPost
  /\ posted = Taking!NoPost => read = <<>>
  /\ posted # Taking!NoPost =>
       /\ posted.meant \in Bodies /\ posted.text \in Taking!Beginnings(posted.meant)
       /\ read = Taking!Readings(config, posted.route, Taking!Parse(posted.text))

LEMMA RInvInit == Init => RInv
BY DEF Init, Taking!Init, RInv

LEMMA RInvStep == RInv /\ [Taking!Next]_intakeVars => RInv'
<1> SUFFICES ASSUME RInv, [Taking!Next]_intakeVars  PROVE RInv'
  OBVIOUS
<1>1. CASE Taking!Start
  <2>1. main = "new" /\ main' # "new" /\ posted' = posted /\ read' = read
    BY <1>1 DEF Taking!Start
  <2> QED  BY <2>1 DEF RInv
<1>2. ASSUME NEW route \in {"single", "batch"}, Taking!Post(route)  PROVE RInv'
  <2>1. /\ main = "up" /\ main' = main /\ config' = config
        /\ \E meant \in Bodies : \E text \in Taking!Beginnings(meant) :
             /\ posted' = [route |-> route, meant |-> meant, text |-> text]
             /\ read' = Taking!Readings(config, route, Taking!Parse(text))
    BY <1>2 DEF Taking!Post
  <2>2. PICK meant \in Bodies : \E text \in Taking!Beginnings(meant) :
          /\ posted' = [route |-> route, meant |-> meant, text |-> text]
          /\ read' = Taking!Readings(config, route, Taking!Parse(text))
    BY <2>1
  <2>3. PICK text \in Taking!Beginnings(meant) :
          /\ posted' = [route |-> route, meant |-> meant, text |-> text]
          /\ read' = Taking!Readings(config, route, Taking!Parse(text))
    BY <2>2
  <2>4. posted'.route = route /\ posted'.meant = meant /\ posted'.text = text
    BY <2>3
  <2>5. posted' # Taking!NoPost
    <3>1. route # "none"
      OBVIOUS
    <3>2. Taking!NoPost.route = "none"
      BY DEF Taking!NoPost
    <3> QED  BY <2>4, <3>1, <3>2
  <2> QED  BY <2>1, <2>3, <2>4, <2>5 DEF RInv
<1>3. CASE Taking!Return
  <2>1. posted' = Taking!NoPost /\ read' = <<>>
    BY <1>3 DEF Taking!Return
  <2> QED  BY <2>1 DEF RInv
<1>4. CASE UNCHANGED intakeVars
  BY <1>4 DEF intakeVars, RInv
<1> QED  BY <1>1, <1>2, <1>3, <1>4 DEF Taking!Next

\* Whatever was read, by the invariant.
LEMMA ReadUpToTheCutHolds ==
  ASSUME RInv, \A meant \in Bodies : Taking!KeysOnce(meant)
  PROVE  Taking!ReadUpToTheCut
<1>1. UpToTheCut(config, posted.route, posted.meant, read)
  <2>1. CASE posted = Taking!NoPost
    <3>1. read = <<>> /\ posted.meant = <<>>
      BY <2>1 DEF RInv, Taking!NoPost
    <3>2. PICK none : none = <<>>
      OBVIOUS
    <3>3. none \in Seq({}) /\ Len(none) = 0 /\ \A i \in DOMAIN none : none[i].num \in Int
      BY <3>2
    <3>4. Taking!IsText(none)
      BY <3>3, TextOf
    <3>5. PICK r : r = Taking!Readings(config, posted.route, Taking!Parse(none))
      OBVIOUS
    <3>6. PICK n \in Nat : DOMAIN r = 1 .. n
      BY <3>4, <3>5, ReadingsFit
    <3>7. \E o : r = [i \in DOMAIN o |-> Taking!Stamped(Taking!ParseSensor(config, o[i]))]
      BY <3>5 DEF Taking!Readings
    <3>8. r = [i \in 1 .. n |-> r[i]]
      BY <3>6, <3>7
    <3>9. Len(r) = n
      BY <3>8, LengthOf
    <3>10. \A objects, default : Agree(none, r, objects, default, 0)
      BY <3>9 DEF Agree
    <3> QED  BY ONLY <3>1, <3>2, <3>3, <3>5, <3>10 DEF UpToTheCut
  <2>2. CASE posted # Taking!NoPost
    <3>1. /\ posted.meant \in Bodies /\ posted.text \in Taking!Beginnings(posted.meant)
          /\ read = Taking!Readings(config, posted.route, Taking!Parse(posted.text))
      BY <2>2 DEF RInv
    <3>2. Taking!IsText(posted.meant) /\ Taking!KeysOnce(posted.meant)
      BY <3>1, IntakeFits
    <3> QED  BY <3>1, <3>2, PostCut
  <2> QED  BY <2>1, <2>2
<1> QED  BY <1>1 DEF UpToTheCut, Agree, ObjectsOf, Taking!ReadUpToTheCut

(***************************************************************************)
(* A body that is cut off anywhere, even inside a token, is read up to the *)
(* cut by either route: no reading but the last differs from what was      *)
(* meant, and the last in one field at most that is not left to its        *)
(* default, which has a beginning of its value or none; and what is queued *)
(* is of a material the configuration has.  All bodies, files and cuts are *)
(* covered, if no object in a body gives a key twice: json keeps the last  *)
(* value of a key, so that a cut between the two brings back the first.    *)
(***************************************************************************)
THEOREM NothingIsMadeUp ==
  ASSUME \A meant \in Bodies : Taking!KeysOnce(meant)
  PROVE  Spec => []NothingMadeUp
<1>1. RInv /\ [Next]_vars => RInv'
  BY RInvStep, StepsOfComponents
<1>2. RInv => Taking!ReadUpToTheCut
  BY ReadUpToTheCutHolds
<1>3. Spec => []RInv
  BY <1>1, RInvInit, PTL DEF Spec
<1>4. RInv /\ Taking!MaterialIsItsOwn => NothingMadeUp
  BY <1>2 DEF NothingMadeUp, Taking!NothingMadeUp
<1> QED  BY <1>3, <1>4, MaterialsAreTheirOwn, PTL

-----------------------------------------------------------------------------
(* All the variables                                                       *)

(***************************************************************************)
(* The variables of every component keep their types: answers about eras   *)
(* rank the fleet, candidates are designs, judgements and reports are what *)
(* they say, and no vehicle_id has more than its 32 bits.                  *)
(***************************************************************************)
THEOREM TypesHold == Spec => []TypeOK
<1>1. CInv /\ FInv /\ JInv /\ IInv => TypeOK
  BY DEF TypeOK, CInv, FInv, JInv, IInv
<1> QED
  BY <1>1, AnswersRankTheFleet, CandidatesKept, JudgementAlwaysKept, QueuedAreReadings, PTL
-----------------------------------------------------------------------------
(* AlarmMqtt: levels                                                       *)

\* Whatever a configuration leaves out, its settings are numbers.
LEMMA LoadedHasNumbers ==
  ASSUME NEW system, Taking!IsText(system), NEW materials, NEW ahp, NEW vehicles,
         NEW c, c = Taking!Load(system, materials, ahp, vehicles), NEW s \in Taking!Numbers
  PROVE  c.settings[s] \in Int
<1>1. PICK V : Taking!Parse(system) \in V /\ \A v \in V : Whole(v, V)
  BY ParsedIsWhole
<1> DEFINE W == V \union {Taking!Null}
<1>2. \A w \in W : Whole(w, W)
  <2>1. \A v \in V : Whole(v, W)
    <3>1. ASSUME NEW v \in V, v.type = "array"  PROVE v.of \in Seq(W)
      <4>1. v.of \in Seq(V)
        BY <1>1, <3>1 DEF Whole
      <4> QED  BY <4>1
    <3> QED  BY <1>1, <3>1 DEF Whole
  <2>2. Whole(Taking!Null, W)
    BY DEF Whole, Taking!Null
  <2> QED  BY <2>1, <2>2
<1>3. Taking!Parse(system) \in W /\ Taking!Null \in W
  BY <1>1
<1> HIDE DEF W
<1>4. ASSUME NEW root \in W  PROVE Taking!Settings(root)[s] \in Int
  <2>1. \A v \in W : \A key : Taking!Member(v, key) \in W
    BY <1>2, <1>3 DEF Taking!Member, Taking!Has, Taking!IsObject, Whole
  <2>2. PICK v \in W : v = Taking!Member(Taking!Member(root, s[1]), s[2])
    BY <2>1
  <2>3. Taking!Settings(root)[s] = Taking!AsDouble(v)
    BY <2>2 DEF Taking!Settings
  <2> QED  BY <1>2, <2>3 DEF Taking!AsDouble, Whole
<1>5. c.settings = Taking!Settings(Taking!Null) \/ c.settings = Taking!Settings(Taking!Parse(system))
  BY DEF Taking!Load, Taking!Empty
<1> QED  BY <1>3, <1>4, <1>5

\* The result of an impact of depth p and stress z that bends a roof by d.
Result(d, p, z, thickness) ==
  [deformation |-> d, depth |-> p, stress |-> z, is_penetrated |-> Alarms!Penetrated(p, thickness)]

(***************************************************************************)
(* Of two impacts on one roof that bend it alike, the deeper one that      *)
(* stresses it more is alerted at no lower level, by any configuration     *)
(* that is read, although worker_loop makes up the thickness it compares   *)
(* the depth with; and what goes through is always an emergency.           *)
(***************************************************************************)
THEOREM WorseIsNoLower ==
  ASSUME NEW system, Taking!IsText(system), NEW materials, NEW ahp, NEW vehicles,
         NEW c, c = Taking!Load(system, materials, ahp, vehicles),
         NEW d \in Int, NEW thickness \in Int,
         NEW p \in Int, NEW q \in Int, p <= q, NEW y \in Int, NEW z \in Int, y <= z
  PROVE  LET slight == Alarms!Levels(c, Result(d, p, y, thickness))
             worse == Alarms!Levels(c, Result(d, q, z, thickness))
         IN  /\ slight.penetration <= worse.penetration
             /\ slight.stress_exceed <= worse.stress_exceed
             /\ q * 10 > thickness * 9 => worse.penetration = 4
<1> DEFINE alarm(key) == c.settings[<<"alarm", key>>]
<1>1. alarm("penetration_threshold_ratio") \in Int /\ alarm("stress_threshold_mpa") \in Int
  BY LoadedHasNumbers DEF Taking!Numbers
<1>2. PICK ratio \in Int : ratio = alarm("penetration_threshold_ratio")
  BY <1>1
<1>3. PICK mpa \in Int : mpa = alarm("stress_threshold_mpa")
  BY <1>1
<1> HIDE DEF alarm
<1>4. /\ Alarms!Thresholds(c).penetration.critical = [limit |-> ratio, per |-> 100]
      /\ Alarms!Thresholds(c).penetration.warn = [limit |-> ratio * 3, per |-> 400]
      /\ Alarms!Thresholds(c).stress.critical = [limit |-> mpa, per |-> 1]
      /\ Alarms!Thresholds(c).stress.warn = [limit |-> mpa * 7, per |-> 10]
  BY <1>2, <1>3 DEF Alarms!Thresholds, Alarms!Bound, alarm
<1> DEFINE tenths == d + 800
           Through(x) == x * 10 > thickness * 9
           Critical(x) == IF tenths > 0 THEN x * 10 * 100 > ratio * tenths ELSE 0 > ratio
           Warn(x) == IF tenths > 0 THEN x * 10 * 400 > ratio * 3 * tenths ELSE 0 > ratio * 3
<1>5. \A x, w : Alarms!Levels(c, Result(d, x, w, thickness)).penetration
                  = IF Through(x) \/ Critical(x) THEN 4 ELSE IF Warn(x) THEN 2 ELSE 0
  <2> SUFFICES ASSUME NEW x, NEW w
               PROVE  Alarms!Levels(c, Result(d, x, w, thickness)).penetration
                        = IF Through(x) \/ Critical(x) THEN 4 ELSE IF Warn(x) THEN 2 ELSE 0
    OBVIOUS
  <2>1. /\ Alarms!Penetrated(x, thickness) <=> Through(x)
        /\ Alarms!RatioCrosses(x, tenths, Alarms!Thresholds(c).penetration.critical) <=> Critical(x)
        /\ Alarms!RatioCrosses(x, tenths, Alarms!Thresholds(c).penetration.warn) <=> Warn(x)
    BY <1>4 DEF Alarms!RatioCrosses, Alarms!Penetrated
  <2>2. /\ Result(d, x, w, thickness).depth = x
        /\ Alarms!MadeUpThickness(Result(d, x, w, thickness)) = tenths
        /\ Result(d, x, w, thickness).is_penetrated = Alarms!Penetrated(x, thickness)
    BY DEF Result, Alarms!MadeUpThickness
  <2> HIDE DEF Through, Critical, Warn, tenths
  <2>3. Alarms!Levels(c, Result(d, x, w, thickness)).penetration
          = Alarms!Level(Alarms!Penetrated(x, thickness)
                           \/ Alarms!RatioCrosses(x, tenths, Alarms!Thresholds(c).penetration.critical),
                         Alarms!RatioCrosses(x, tenths, Alarms!Thresholds(c).penetration.warn), 4)
    BY <2>2 DEF Alarms!Levels
  <2> QED  BY <2>1, <2>3 DEF Alarms!Level
<1>6. \A x, w : Alarms!Levels(c, Result(d, x, w, thickness)).stress_exceed
                  = IF w * 1 > mpa THEN 3 ELSE IF w * 10 > mpa * 7 THEN 2 ELSE 0
  BY <1>4 DEF Alarms!Levels, Alarms!Level, Alarms!Crosses, Result
<1>7. /\ Through(p) => Through(q)
      /\ Critical(p) => Critical(q)
      /\ Warn(p) => Warn(q)
  <2>1. PICK m \in Int : m = ratio * tenths
    OBVIOUS
  <2>2. PICK n \in Int : n = ratio * 3 * tenths
    OBVIOUS
  <2> QED  BY <2>1, <2>2
<1>8. (y * 1 > mpa => z * 1 > mpa) /\ (y * 10 > mpa * 7 => z * 10 > mpa * 7)
  OBVIOUS
<1> HIDE DEF Through, Critical, Warn
<1>9. PICK slight : slight = Alarms!Levels(c, Result(d, p, y, thickness))
  OBVIOUS
<1>10. PICK worse : worse = Alarms!Levels(c, Result(d, q, z, thickness))
  OBVIOUS
<1>11. slight.penetration <= worse.penetration /\ (Through(q) => worse.penetration = 4)
  BY <1>5, <1>7, <1>9, <1>10
<1>12. slight.stress_exceed <= worse.stress_exceed
  BY <1>6, <1>8, <1>9, <1>10
<1> QED  BY <1>9, <1>10, <1>11, <1>12 DEF Through
-----------------------------------------------------------------------------
(* FormationOptimizer: the places of a formation                           *)

\* The vehicles of a pair stand on two sides.
LEMMA SidesDiffer ==
  ASSUME NEW i \in Nat \ {0}, NEW j \in Nat \ {0}, NEW far \in Nat \ {0},
         Search!Pair(i) = Search!Pair(j), Search!Side(i - 1) * far = Search!Side(j - 1) * far
  PROVE  i = j
<1>1. PICK k \in Nat : k = i - 1
  OBVIOUS
<1>2. PICK l \in Nat : l = j - 1
  OBVIOUS
<1>3. k \div 2 = l \div 2
  BY <1>1, <1>2 DEF Search!Pair
<1>4. k % 2 \in {0, 1} /\ l % 2 \in {0, 1}
  OBVIOUS
<1>5. k % 2 = l % 2
  <2>1. Search!Side(k) * far = Search!Side(l) * far
    BY <1>1, <1>2
  <2>2. (-1) * far # 1 * far
    OBVIOUS
  <2> QED  BY <1>4, <2>1, <2>2 DEF Search!Side
<1>6. k = 2 * (k \div 2) + (k % 2) /\ l = 2 * (l \div 2) + (l % 2)
  OBVIOUS
<1> QED  BY <1>1, <1>2, <1>3, <1>5, <1>6

LEMMA PairsAreNumbers ==
  ASSUME NEW i \in Nat \ {0}
  PROVE  Search!Pair(i) \in Nat
BY DEF Search!Pair

\* The layer of a vehicle: i lies between two squares.
LEMMA LayerThere ==
  ASSUME NEW n \in Nat \ {0}, NEW i \in Nat, i < n * n
  PROVE  LET layer == Search!Max({l \in 0 .. n : l * l <= i}) IN
           layer \in 0 .. n /\ layer * layer <= i
<1> DEFINE S == {l \in 0 .. n : l * l <= i}
           T == {n - l : l \in S}
<1>1. 0 \in S
  OBVIOUS
<1>2. T \subseteq Nat /\ T # {}
  BY <1>1
<1>3. PICK t \in T : \A u \in T : t <= u
  <2> HIDE DEF T
  <2> QED  BY <1>2, LeastOf
<1>4. PICK m \in S : t = n - m
  OBVIOUS
<1>5. \A l \in S : m >= l
  <2> SUFFICES ASSUME NEW l \in S  PROVE m >= l
    OBVIOUS
  <2>1. n - l \in T /\ l \in Int /\ m \in Int
    OBVIOUS
  <2>2. t <= n - l
    BY <1>3, <2>1
  <2> QED  BY <1>4, <2>1, <2>2
<1> HIDE DEF S
<1>6. Search!Max(S) \in S
  <2>1. \E x \in S : \A l \in S : x >= l
    BY <1>5
  <2> QED  BY <2>1 DEF Search!Max
<1> QED  BY <1>6 DEF S

\* The layers of a diamond have a place for every vehicle, but for one of five.
LEMMA LayersSuffice ==
  ASSUME NEW n \in Nat, n >= 2
  PROVE  /\ Search!Layers(n) \in Nat \ {0}
         /\ n # 5 => n <= Search!Layers(n) * Search!Layers(n)
         /\ n = 5 => Search!Layers(n) * Search!Layers(n) = 4
<1>1. PICK q \in Nat : q = (n - 2) \div 4
  OBVIOUS
<1>2. 4 * q <= n - 2 /\ n - 2 <= 4 * q + 3
  BY <1>1
<1>3. Search!Layers(n) = q + 2
  BY <1>1 DEF Search!Layers
<1>4. (q + 2) * (q + 2) = q * q + 4 * q + 4
  OBVIOUS
<1>5. CASE q = 0
  BY <1>2, <1>3, <1>5
<1>6. CASE q > 0
  <2>1. q * q >= 1
    BY <1>6
  <2> QED  BY <1>2, <1>3, <1>4, <1>6, <2>1
<1> QED  BY <1>5, <1>6

(***************************************************************************)
(* Two vehicles of one formation stand in two places, however many there   *)
(* are, in each of the six formations but one: in a diamond of five, the   *)
(* number the route asks for by default, the last vehicle stands where the *)
(* first one does (create_vehicle_in_formation).                           *)
(***************************************************************************)
THEOREM PlacesOfTheirOwn ==
  ASSUME NEW n \in Nat, NEW i \in Nat, NEW j \in Nat, i < j, j < n,
         NEW type \in {"LINE", "WEDGE", "ECHELON", "V_SHAPE", "COLUMN", "DIAMOND"},
         NEW a, a = Search!PlaceOf(type, i, n), NEW b, b = Search!PlaceOf(type, j, n)
  PROVE  a.x = b.x /\ a.y = b.y <=> type = "DIAMOND" /\ n = 5 /\ i = 0 /\ j = 4
<1>1. j # 0 /\ n >= 2
  OBVIOUS
<1>2. CASE type = "LINE"
  <2>1. a.x = i - (n - 1) \div 2 /\ b.x = j - (n - 1) \div 2
    BY <1>2 DEF Search!PlaceOf, Search!InLine, Search!Place, Search!Offset
  <2> QED  BY <1>2, <2>1
<1>3. CASE type = "ECHELON"
  <2>1. a.x = i - (n - 1) \div 2 /\ b.x = j - (n - 1) \div 2
    BY <1>3 DEF Search!PlaceOf, Search!InEchelon, Search!Place, Search!Offset
  <2> QED  BY <1>3, <2>1
<1>4. CASE type = "COLUMN"
  <2>1. a.y = -10 * i /\ b.y = -10 * j
    BY <1>4 DEF Search!PlaceOf, Search!InColumn, Search!Place
  <2> QED  BY <1>4, <2>1
<1>5. CASE type = "WEDGE"
  <2>1. a = Search!InWedge(i) /\ b = Search!InWedge(j)
    BY <1>5 DEF Search!PlaceOf
  <2>2. PICK q \in Nat : q = Search!Pair(j)
    BY <1>1, PairsAreNumbers
  <2>3. b.x = Search!Side(j - 1) * (q + 2) /\ b.y = -5 - 10 * (q + 2)
    BY <1>1, <2>1, <2>2 DEF Search!InWedge, Search!Place
  <2>4. CASE i = 0
    <3>1. a.y = -5
      BY <2>1, <2>4 DEF Search!InWedge, Search!Place
    <3> QED  BY <1>5, <2>3, <3>1
  <2>5. CASE i # 0
    <3>1. PICK p \in Nat : p = Search!Pair(i)
      BY <2>5, PairsAreNumbers
    <3>2. a.x = Search!Side(i - 1) * (p + 2) /\ a.y = -5 - 10 * (p + 2)
      BY <2>1, <2>5, <3>1 DEF Search!InWedge, Search!Place
    <3>3. ~(a.x = b.x /\ a.y = b.y)
      <4>1. SUFFICES ASSUME a.x = b.x, a.y = b.y  PROVE FALSE
        OBVIOUS
      <4>2. p = q
        BY <2>3, <3>2, <4>1
      <4>3. p + 2 \in Nat \ {0} /\ Search!Side(i - 1) * (p + 2) = Search!Side(j - 1) * (p + 2)
        BY <2>3, <3>2, <4>1, <4>2
      <4>4. i \in Nat \ {0} /\ j \in Nat \ {0} /\ Search!Pair(i) = Search!Pair(j)
        BY <1>1, <2>2, <2>5, <3>1, <4>2
      <4>5. i = j
        BY <4>3, <4>4, SidesDiffer
      <4> QED  BY <4>5
    <3> QED  BY <1>5, <3>3
  <2> QED  BY <2>4, <2>5
<1>6. CASE type = "V_SHAPE"
  <2>1. a = Search!InVShape(i) /\ b = Search!InVShape(j)
    BY <1>6 DEF Search!PlaceOf
  <2>2. PICK q \in Nat : q = Search!Pair(j)
    BY <1>1, PairsAreNumbers
  <2>3. b.x = Search!Side(j - 1) * (q + 1) /\ b.y = 5 * (q + 1)
    BY <1>1, <2>1, <2>2 DEF Search!InVShape, Search!Place
  <2>4. CASE i = 0
    <3>1. a.y = 0
      BY <2>1, <2>4 DEF Search!InVShape, Search!Place
    <3> QED  BY <1>6, <2>3, <3>1
  <2>5. CASE i # 0
    <3>1. PICK p \in Nat : p = Search!Pair(i)
      BY <2>5, PairsAreNumbers
    <3>2. a.x = Search!Side(i - 1) * (p + 1) /\ a.y = 5 * (p + 1)
      BY <2>1, <2>5, <3>1 DEF Search!InVShape, Search!Place
    <3>3. ~(a.x = b.x /\ a.y = b.y)
      <4>1. SUFFICES ASSUME a.x = b.x, a.y = b.y  PROVE FALSE
        OBVIOUS
      <4>2. p = q
        BY <2>3, <3>2, <4>1
      <4>3. p + 1 \in Nat \ {0} /\ Search!Side(i - 1) * (p + 1) = Search!Side(j - 1) * (p + 1)
        BY <2>3, <3>2, <4>1, <4>2
      <4>4. i \in Nat \ {0} /\ j \in Nat \ {0} /\ Search!Pair(i) = Search!Pair(j)
        BY <1>1, <2>2, <2>5, <3>1, <4>2
      <4>5. i = j
        BY <4>3, <4>4, SidesDiffer
      <4> QED  BY <4>5
    <3> QED  BY <1>6, <3>3
  <2> QED  BY <2>4, <2>5
<1>7. CASE type = "DIAMOND"
  <2>1. PICK m \in Nat \ {0} : m = Search!Layers(n)
    BY <1>1, LayersSuffice
  <2>2. PICK all \in Nat : all = m * m
    OBVIOUS
  <2>3. (n # 5 => n <= all) /\ (n = 5 => all = 4)
    BY <1>1, <2>1, <2>2, LayersSuffice
  <2>4. a = Search!InDiamond(i, n) /\ b = Search!InDiamond(j, n)
    BY <1>7 DEF Search!PlaceOf
  <2> DEFINE layer(k) == Search!Max({l \in 0 .. m : l * l <= k})
  <2>5. ASSUME NEW k \in Nat, k < all
        PROVE  /\ layer(k) \in Nat /\ layer(k) * layer(k) <= k
               /\ Search!InDiamond(k, n).x = k - layer(k) * layer(k) - layer(k)
               /\ Search!InDiamond(k, n).y = -5 * layer(k)
    <3>1. layer(k) \in Nat /\ layer(k) * layer(k) <= k
      BY <2>2, <2>5, LayerThere
    <3>2. n # 1 /\ ~(k >= Search!Layers(n) * Search!Layers(n))
      BY <1>1, <2>1, <2>2, <2>5
    <3>3. Search!InDiamond(k, n) = Search!Place(k - layer(k) * layer(k) - layer(k), -5 * layer(k), k = 0)
      BY <2>1, <3>2 DEF Search!InDiamond
    <3> HIDE DEF layer
    <3> QED  BY <3>1, <3>3 DEF Search!Place
  <2> HIDE DEF layer
  <2>6. i < all
    BY <2>3
  <2>7. CASE j < all
    <3>1. PICK k \in Nat : k = layer(i)
      BY <2>5, <2>6
    <3>2. PICK l \in Nat : l = layer(j)
      BY <2>5, <2>7
    <3>3. a.x = i - k * k - k /\ a.y = -5 * k
      BY <2>4, <2>5, <2>6, <3>1
    <3>4. b.x = j - l * l - l /\ b.y = -5 * l
      BY <2>4, <2>5, <2>7, <3>2
    <3>5. ~(a.x = b.x /\ a.y = b.y)
      <4>1. SUFFICES ASSUME a.x = b.x, a.y = b.y  PROVE FALSE
        OBVIOUS
      <4>2. k = l
        BY <3>3, <3>4, <4>1
      <4>3. PICK c \in Nat : c = k * k
        OBVIOUS
      <4>4. i - c - k = j - c - k
        BY <3>3, <3>4, <4>1, <4>2, <4>3
      <4> QED  BY <4>4
    <3>6. ~(n = 5 /\ i = 0 /\ j = 4)
      BY <2>3, <2>7
    <3> QED  BY <3>5, <3>6
  <2>8. CASE ~(j < all)
    <3>1. n = 5 /\ j = 4 /\ all = 4
      BY <2>3, <2>8
    <3>2. b.x = 0 /\ b.y = 0
      <4>1. Search!InDiamond(j, n) = Search!Place(0, 5 * (j - all), j = 0)
        <5>1. n # 1 /\ Search!Layers(n) * Search!Layers(n) = all /\ j >= all
          BY <1>1, <2>1, <2>2, <2>8
        <5> QED  BY <5>1 DEF Search!InDiamond
      <4> QED  BY <2>4, <3>1, <4>1 DEF Search!Place
    <3>3. PICK k \in Nat : k = layer(i)
      BY <2>5, <2>6
    <3>4. k * k <= i /\ a.x = i - k * k - k /\ a.y = -5 * k
      BY <2>4, <2>5, <2>6, <3>3
    <3>5. a.x = 0 /\ a.y = 0 <=> i = 0
      <4>1. a.y = 0 <=> k = 0
        BY <3>4
      <4>2. k = 0 => a.x = i
        BY <3>4
      <4>3. i = 0 => k = 0
        <5>1. k > 0 => k * k > 0
          OBVIOUS
        <5> QED  BY <3>4, <5>1
      <4> QED  BY <4>1, <4>2, <4>3
    <3> QED  BY <1>7, <3>1, <3>2, <3>5
  <2> QED  BY <1>7, <2>7, <2>8
<1> QED  BY <1>2, <1>3, <1>4, <1>5, <1>6, <1>7
(***************************************************************************)
(* A formation of any number has one lead vehicle, but a line of an even   *)
(* number has none (create_vehicle_in_formation).                          *)
(***************************************************************************)
THEOREM OneLeads ==
  ASSUME NEW n \in Nat \ {0},
         NEW type \in {"LINE", "WEDGE", "ECHELON", "V_SHAPE", "COLUMN", "DIAMOND"}
  PROVE  IF type = "LINE" /\ n % 2 = 0
           THEN \A j \in 0 .. n - 1 : ~Search!PlaceOf(type, j, n).lead
           ELSE \E i \in 0 .. n - 1 : \A j \in 0 .. n - 1 : Search!PlaceOf(type, j, n).lead <=> j = i
<1>1. PICK middle \in Nat : middle = (n - 1) \div 2
  OBVIOUS
<1>2. middle \in 0 .. n - 1
  BY <1>1
<1>3. \A j \in Int : Search!Offset(j, n) = 0 <=> j = middle
  BY <1>1 DEF Search!Offset
<1>4. \A x, y, lead : Search!Place(x, y, lead).lead = lead
  BY DEF Search!Place
<1>5. CASE type = "LINE"
  <2>1. ASSUME NEW j \in 0 .. n - 1
        PROVE  Search!PlaceOf(type, j, n).lead <=> n % 2 = 1 /\ j = middle
    <3> DEFINE odd == n % 2 = 1
    <3>1. Search!PlaceOf(type, j, n) = Search!Place(Search!Offset(j, n), 0, n % 2 = 1 /\ Search!Offset(j, n) = 0)
      BY <1>5 DEF Search!PlaceOf, Search!InLine
    <3>2. Search!PlaceOf(type, j, n).lead <=> n % 2 = 1 /\ Search!Offset(j, n) = 0
      BY <1>4, <3>1, Zenon
    <3>3. j \in Int
      OBVIOUS
    <3>4. Search!PlaceOf(type, j, n).lead <=> odd /\ Search!Offset(j, n) = 0
      BY <3>2
    <3> HIDE DEF odd
    <3>5. Search!PlaceOf(type, j, n).lead <=> odd /\ j = middle
      BY <1>3, <3>3, <3>4
    <3> QED  BY <3>5 DEF odd
  <2>2. PICK bit \in {0, 1} : bit = n % 2
    OBVIOUS
  <2>3. \A j \in 0 .. n - 1 : Search!PlaceOf(type, j, n).lead <=> bit = 1 /\ j = middle
    BY <2>1, <2>2
  <2>4. IF bit = 0
          THEN \A j \in 0 .. n - 1 : ~Search!PlaceOf(type, j, n).lead
          ELSE \A j \in 0 .. n - 1 : Search!PlaceOf(type, j, n).lead <=> j = middle
    BY <2>3
  <2> QED  BY <1>2, <1>5, <2>2, <2>4
<1>6. CASE type = "ECHELON"
  <2>1. ASSUME NEW j \in 0 .. n - 1
        PROVE  Search!PlaceOf(type, j, n).lead <=> j = middle
    <3>1. Search!PlaceOf(type, j, n).lead <=> Search!Offset(j, n) = 0
      BY <1>6 DEF Search!PlaceOf, Search!InEchelon, Search!Place
    <3> QED  BY <1>3, <3>1
  <2> QED  BY <1>2, <1>6, <2>1
<1>7. CASE type \in {"WEDGE", "V_SHAPE", "COLUMN", "DIAMOND"}
  <2>1. ASSUME NEW j \in 0 .. n - 1
        PROVE  Search!PlaceOf(type, j, n).lead <=> j = 0
    <3>1. CASE type = "WEDGE"
      BY <3>1 DEF Search!PlaceOf, Search!InWedge, Search!Place
    <3>2. CASE type = "V_SHAPE"
      BY <3>2 DEF Search!PlaceOf, Search!InVShape, Search!Place
    <3>3. CASE type = "COLUMN"
      BY <3>3 DEF Search!PlaceOf, Search!InColumn, Search!Place
    <3>4. CASE type = "DIAMOND"
      <4>1. Search!PlaceOf(type, j, n) = Search!InDiamond(j, n)
        BY <3>4 DEF Search!PlaceOf
      <4>2. CASE n = 1
        BY <4>1, <4>2 DEF Search!InDiamond, Search!Place
      <4>3. CASE n # 1
        <5> DEFINE first == j = 0
        <5>1. CASE j >= Search!Layers(n) * Search!Layers(n)
          <6>1. PICK y : y = 5 * (j - Search!Layers(n) * Search!Layers(n))
            OBVIOUS
          <6>2. Search!PlaceOf(type, j, n) = Search!Place(0, y, first)
            BY <4>1, <4>3, <5>1, <6>1 DEF Search!InDiamond
          <6> HIDE DEF first
          <6>3. Search!PlaceOf(type, j, n).lead = first
            BY <1>4, <6>2
          <6> QED  BY <6>3 DEF first
        <5>2. CASE ~(j >= Search!Layers(n) * Search!Layers(n))
          <6>1. PICK layer : layer = Search!Max({l \in 0 .. Search!Layers(n) : l * l <= j})
            OBVIOUS
          <6>2. PICK x, y : x = j - layer * layer - layer /\ y = -5 * layer
            OBVIOUS
          <6>3. Search!PlaceOf(type, j, n) = Search!Place(x, y, first)
            BY <4>1, <4>3, <5>2, <6>1, <6>2 DEF Search!InDiamond
          <6> HIDE DEF first
          <6>4. Search!PlaceOf(type, j, n).lead = first
            BY <1>4, <6>3
          <6> QED  BY <6>4 DEF first
        <5> QED  BY <5>1, <5>2
      <4> QED  BY <4>2, <4>3
    <3> QED  BY <1>7, <3>1, <3>2, <3>3, <3>4
  <2>2. 0 \in 0 .. n - 1
    OBVIOUS
  <2> QED  BY <1>7, <2>1, <2>2
<1> QED  BY <1>5, <1>6, <1>7
=============================================================================
