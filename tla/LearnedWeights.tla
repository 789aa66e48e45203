--------------------------- MODULE LearnedWeights ---------------------------
(***************************************************************************)
(* What is learned from the calibration samples: the search for pillar       *)
(* weights and thresholds (worker/calibration/optimizer.py), the analysis of *)
(* their accuracy, its summary and advice, and the check for drift with its  *)
(* alerts (worker/tasks/calibration.py, api/routers/calibration.py).         *)
(*                                                                         *)
(* A sample is a compared question (Comparison) with its site, the scores of *)
(* the pillars in their order (NoScore for none), that of source primacy, the*)
(* simulated score in twentieths and its age in periods: 0 is the last week. *)
(* Samples are in the order of their collection.  All arithmetic is exact:   *)
(* the correlation of Matthews is compared by its square and its sign.       *)
(***************************************************************************)
EXTENDS Comparison, SequencesExt, FiniteSetsExt

CONSTANTS
  Defaults,      \* DEFAULT_WEIGHTS in the order of the pillars
  MinWeight, MaxWeight, MaxChange,
  CoarseStep, FineStep, FineRadius,
  Thresholds,    \* of the coarse search
  Primacies,     \* of the coarse search, when samples have a primacy score
  FineReach,     \* how far the fine search goes from the best threshold
  FineEvery,     \* its steps
  Coverage,      \* the weight a sample's scores must cover
  HoldoutPct,    \* of the sites, in percent
  MinTraining, MinHoldout,   \* sites
  MinUsable,    \* of a search, an analysis, a window of the drift check
  Drop, Bias,    \* thresholds of the drift check, in percent
  Shapes,        \* the samples a run may leave, of age 0
  MaxSamples, MaxAge, MaxChecks   \* bounds

NoScore == -1
StartThreshold == 50      \* the threshold of the baseline

ASSUME LearnedWeightsAssumption ==
  /\ FoldSeq(+, 0, Defaults) = 100
  /\ \A i \in DOMAIN Defaults : Defaults[i] \in MinWeight..MaxWeight

ASSUME SearchAssumption ==
  /\ Defaults \in Seq(Nat)
  /\ {MinWeight, MaxWeight, MaxChange, FineRadius, FineReach} \subseteq Nat
  /\ {CoarseStep, FineStep, FineEvery} \subseteq Nat \ {0}
  /\ Thresholds \subseteq Nat /\ Primacies \subseteq Nat

ASSUME AdviceAssumption ==
  /\ MinUsable \in Nat \ {0}
  /\ {Drop, Bias, MaxSamples, MaxAge, MaxChecks} \subseteq Nat

\* The fields of a sample.
IsSample(s) ==
  s = [site |-> s.site, ans |-> s.ans, got |-> s.got, mentioned |-> s.mentioned,
       cited |-> s.cited, refused |-> s.refused, scores |-> s.scores,
       primacy |-> s.primacy, sim |-> s.sim, age |-> s.age]

ASSUME ShapesAssumption == \A s \in Shapes : IsSample(s) /\ s.age = 0

VARIABLES
  collected,
  alerts,    \* the alerts of drift, oldest first: [type, status]
  checks     \* counted against the bound

weightVars == <<collected, alerts, checks>>

Pillars == DOMAIN Defaults

WeightsInit == collected = <<>> /\ alerts = <<>> /\ checks = 0

-----------------------------------------------------------------------------
(* Which samples teach, and which are held out. *)

CoveredBy(scores) ==
  FoldSeq(+, 0, [i \in Pillars |-> IF scores[i] = NoScore THEN 0 ELSE Defaults[i]])

\* The places of the samples of the window whose outcome is known and whose scores
\* cover enough.
Decided(s) == Outcome(s) # "unknown"
Usable(ss) == {i \in DOMAIN ss : Decided(ss[i]) /\ CoveredBy(ss[i].scores) >= Coverage}

\* The sites in the order of their first sample; the last ones are held out.
SitesOf(ss) == {ss[i].site : i \in Usable(ss)}
FirstOf(ss, site) == Min({i \in Usable(ss) : ss[i].site = site})
HoldoutCount(ss) ==
  Max({1, (HoldoutPct * Cardinality(SitesOf(ss))) \div 100})
HeldOut(ss) ==
  {site \in SitesOf(ss) :
     Cardinality({t \in SitesOf(ss) : FirstOf(ss, t) > FirstOf(ss, site)}) < HoldoutCount(ss)}

\* Of some places those that are left when the last ones are held out.
ButLast(places) ==
  {i \in places :
     Cardinality({j \in places : j <= i})
       <= Cardinality(places) - (HoldoutPct * Cardinality(places)) \div 100}

\* Mutant: a split by samples instead of sites.
TrainingBySample(ss) == Restrict(ss, ButLast(Usable(ss)))
Training(ss) == Restrict(ss, {i \in Usable(ss) : ss[i].site \notin HeldOut(ss)})

Searches(ss) ==
  /\ Cardinality(Usable(ss)) >= MinUsable
  /\ Cardinality(SitesOf(ss)) - HoldoutCount(ss) >= MinTraining
  /\ Cardinality(HeldOut(ss)) >= MinHoldout

-----------------------------------------------------------------------------
(* How well a candidate predicts: weights, then a threshold, then the weight of *)
(* primacy.                                                                   *)

Threshold(c) == c[Len(Defaults) + 1]
Primacy(c) == c[Len(Defaults) + 2]
Baseline == Defaults \o <<StartThreshold, 0>>

\* A hundred times the weighted score; a score that is missing counts 0.
Weighted(s, c) ==
  FoldSeq(+, 0, [i \in Pillars |-> IF s.scores[i] = NoScore THEN 0 ELSE s.scores[i] * c[i]])
    + (IF s.primacy = NoScore THEN 0 ELSE s.primacy * Primacy(c))
Findable(s, c) == Weighted(s, c) >= 100 * Threshold(c)

Metrics(ss, c) ==
  [tp |-> Count(ss, LAMBDA s : Findable(s, c) /\ s.cited),
   tn |-> Count(ss, LAMBDA s : ~Findable(s, c) /\ ~s.cited),
   over |-> Count(ss, LAMBDA s : Findable(s, c) /\ ~s.cited),
   under |-> Count(ss, LAMBDA s : ~Findable(s, c) /\ s.cited)]

\* <<numerator, square of the denominator>>; 0 when a class is empty.
MCC(m) ==
  IF 0 \in {m.tp + m.over, m.tp + m.under, m.tn + m.over, m.tn + m.under} THEN <<0, 1>>
  ELSE <<m.tp * m.tn - m.over * m.under,
         (m.tp + m.over) * (m.tp + m.under) * (m.tn + m.over) * (m.tn + m.under)>>

Signed(x) == IF x < 0 THEN -(x * x) ELSE x * x
Better(x, y) == Signed(x[1]) * y[2] > Signed(y[1]) * x[2]

-----------------------------------------------------------------------------
(* The search: the first candidate that is strictly better than all before. *)

AlignUp(x, step) == ((x + step - 1) \div step) * step
IsWhole(w) == FoldSeq(+, 0, w) = 100
Grid(center, radius, step) ==
  LET values(i) ==
        LET low == AlignUp(Max({MinWeight, center[i] - radius}), step)
            high == Min({MaxWeight, center[i] + radius})
        IN  {x \in Max({MinWeight, low})..high : (x - Max({MinWeight, low})) % step = 0}
  IN  {w \in [Pillars -> UNION {values(i) : i \in Pillars}] :
         (\A i \in Pillars : w[i] \in values(i)) /\ IsWhole(w)}

\* The first one in the order of the loops.
Before(c, d) ==
  \E k \in 1..Len(Baseline) : c[k] < d[k] /\ \A j \in 1..(k - 1) : c[j] = d[j]
Foremost(cs) == CHOOSE c \in cs : \A d \in cs : c = d \/ Before(c, d)

Winner(ss, candidates, best) ==
  LET scored == {<<c, MCC(Metrics(ss, c))>> : c \in candidates}
      values == {x[2] : x \in scored}
      top == {v \in values : \A w \in values : ~Better(w, v)}
  IN  IF \E v \in top : Better(v, MCC(Metrics(ss, best)))
      THEN Foremost({x[1] : x \in {y \in scored : y[2] \in top}})
      ELSE best

HasPrimacy(ss) == \E i \in DOMAIN ss : ss[i].primacy # NoScore

Candidates(grid, thresholds, primacies) ==
  {w \o rest : w \in grid, rest \in thresholds \X primacies}

CoarseBest(training) ==
  Winner(training,
         Candidates(Grid(Defaults, MaxChange, CoarseStep), Thresholds,
                    IF HasPrimacy(training) THEN Primacies ELSE {0}),
         Baseline)

Steps(low, high) == {x \in low..high : (x - low) % FineEvery = 0}
FineBest(training, c) ==
  LET t == Threshold(c)
      p == Primacy(c)
  IN  Winner(training,
             Candidates(Grid(SubSeq(c, 1, Len(Defaults)), FineRadius, FineStep),
                        Steps(Max({20, t - FineReach}), Min({69, t + FineReach})),
                        IF HasPrimacy(training) THEN Steps(Max({0, p - 5}), Min({24, p + 5}))
                        ELSE {0}),
             c)

\* What a search returns; the baseline stands for a search that is refused.
Best(ss) ==
  IF Searches(ss) THEN FineBest(Training(ss), CoarseBest(Training(ss))) ELSE Baseline

\* Whether what was found is reported as an improvement.
IsImprovement(ss, c) ==
  Better(MCC(Metrics(Training(ss), c)), MCC(Metrics(Training(ss), Baseline)))

-----------------------------------------------------------------------------
(* The thresholds of answerability, on the simulated score: twice the right     *)
(* predictions and once those that are a level off.                           *)

Levels == [not |-> 0, partially |-> 1, fully |-> 2]
PredictedLevel(s, fully, partially) ==
  IF s.sim >= fully THEN 2 ELSE IF s.sim >= partially THEN 1 ELSE 0
ActualLevel(s) == IF s.cited THEN 2 ELSE IF s.mentioned THEN 1 ELSE 0

ThresholdScore(ss, fully, partially) ==
  LET off(s) == PredictedLevel(s, fully, partially) - ActualLevel(s)
  IN  2 * Count(ss, LAMBDA s : off(s) = 0) + Count(ss, LAMBDA s : off(s) \in {-1, 1})

\* Its holdout are the last samples.
WithOutcome(ss) == {i \in DOMAIN ss : Decided(ss[i])}
TrainingOfOutcome(ss) == Restrict(ss, ButLast(WithOutcome(ss)))

\* In twentieths: 0.50 to 0.85, because the float that is stepped up passes 0.90,
\* and 0.15 to 0.50 below it; from 0.70 and 0.30.
ThresholdsFrom(training) ==
  LET scored == {<<p, ThresholdScore(training, p[1], p[2])>> :
                   p \in {q \in (10..17) \X (3..10) : q[2] < q[1]}}
      most == Max({x[2] : x \in scored})
      lowest(rest, i) == LET least == Min({p[i] : p \in rest}) IN {p \in rest : p[i] = least}
  IN  IF most <= ThresholdScore(training, 14, 6) THEN <<14, 6>>
      ELSE CHOOSE p \in lowest(lowest({x[1] : x \in {y \in scored : y[2] = most}}, 1), 2) : TRUE
BestThresholds(ss) ==
  IF Cardinality(WithOutcome(ss)) < MinUsable THEN <<14, 6>>
  ELSE ThresholdsFrom(TrainingOfOutcome(ss))

-----------------------------------------------------------------------------
(* The analysis of a window of ages, its summary and advice. *)

\* The samples of some ages, by their places.
Window(ages) == Restrict(collected, {i \in DOMAIN collected : collected[i].age \in ages})
Size(w) == Cardinality(DOMAIN w)
Recent == {0}
BaselineAges == 1..MaxAge

Correct(s) == Outcome(s) = "correct"
WindowKnown(w) == Count(w, Decided)
WindowRate(w, o) == Rate(HasOutcome(w, o), WindowKnown(w))

SummaryWithoutBias(w) ==
  LET right == WindowRate(w, "correct")
  IN  IF AtLeast(right, 75) THEN "healthy"
      ELSE IF AtLeast(right, 60) THEN "acceptable" ELSE "needs_attention"

Summary(w) ==
  LET right == WindowRate(w, "correct")
      wrong == {WindowRate(w, "optimistic"), WindowRate(w, "pessimistic")}
  IN  IF AtLeast(right, 75) /\ \A x \in wrong : ~Over(x, 15) THEN "healthy"
      ELSE IF AtLeast(right, 60) /\ \A x \in wrong : ~Over(x, 25) THEN "acceptable"
      ELSE "needs_attention"

\* The priorities of what is advised on accuracy and bias.
AccuracyPriority(w) ==
  IF ~AtLeast(WindowRate(w, "correct"), 60) THEN {"high"}
  ELSE IF ~AtLeast(WindowRate(w, "correct"), 75) THEN {"medium"} ELSE {}
BiasPriority(w, o) ==
  IF Over(WindowRate(w, o), 25) THEN {"high"}
  ELSE IF Over(WindowRate(w, o), 15) THEN {"medium"} ELSE {}
Priorities(w) ==
  AccuracyPriority(w) \cup BiasPriority(w, "optimistic") \cup BiasPriority(w, "pessimistic")

\* An answerability whose predictions are mostly wrong: advice to review it.
Doubted(w, ans) ==
  LET predicted == Count(w, LAMBDA s : Decided(s) /\ s.ans = ans)
      right == Count(w, LAMBDA s : Correct(s) /\ s.ans = ans)
  IN  predicted >= MinUsable /\ ~AtLeast(Rate(right, predicted), 50)

\* A pillar whose high scores go with wrong predictions more often than its low
\* ones: advice to reduce its weight.  MinUsable of each are needed.
Strong(s, i) == s.scores[i] >= 70
Poor(s, i) == s.scores[i] \in 0..49
Misleading(w, i) ==
  LET high == Count(w, LAMBDA s : Decided(s) /\ Strong(s, i))
      low == Count(w, LAMBDA s : Decided(s) /\ Poor(s, i))
  IN  /\ high >= MinUsable /\ low >= MinUsable
      /\ Above(Rate(Count(w, LAMBDA s : Correct(s) /\ Poor(s, i)), low),
               Rate(Count(w, LAMBDA s : Correct(s) /\ Strong(s, i)), high))

-----------------------------------------------------------------------------
(* The check for drift: the last week against the weeks before it.  Nothing     *)
(* looks for an alert that is open already.                                   *)

Drifts ==
  LET recent == Window(Recent)
      before == Window(BaselineAges)
      rise == [was |-> WindowRate(before, "correct"), is |-> WindowRate(recent, "correct")]
      fell == 100 * (rise.was[1] * rise.is[2] - rise.is[1] * rise.was[2])
                > Drop * rise.was[2] * rise.is[2]
  IN  IF Size(recent) < MinUsable \/ Size(before) < MinUsable THEN {}
      ELSE {t \in {"accuracy"} : fell}
             \cup {t \in {"optimism"} : Over(WindowRate(recent, "optimistic"), Bias)}
             \cup {t \in {"pessimism"} : Over(WindowRate(recent, "pessimistic"), Bias)}

CheckDrift ==
  /\ checks < MaxChecks
  /\ checks' = checks + 1
  /\ LET found == SelectSeq(<<"accuracy", "optimism", "pessimism">>, LAMBDA t : t \in Drifts)
     IN  alerts' = alerts \o [i \in DOMAIN found |-> [type |-> found[i], status |-> "open"]]
  /\ UNCHANGED collected

Acknowledge(i) ==
  /\ alerts[i].status = "open"
  /\ alerts' = [alerts EXCEPT ![i].status = "acknowledged"]
  /\ UNCHANGED <<collected, checks>>

Resolve(i) ==
  /\ alerts[i].status # "resolved"
  /\ alerts' = [alerts EXCEPT ![i].status = "resolved"]
  /\ UNCHANGED <<collected, checks>>

-----------------------------------------------------------------------------

Collect ==
  /\ Len(collected) < MaxSamples
  /\ \E s \in Shapes : collected' = Append(collected, s)
  /\ UNCHANGED <<alerts, checks>>

\* A week passes; samples older than the window, which are the first, are left out.
Week ==
  /\ \E i \in DOMAIN collected : collected[i].age < MaxAge
  /\ LET left == Len(collected) - Cardinality({i \in DOMAIN collected : collected[i].age < MaxAge})
     IN  collected' = [i \in 1..(Len(collected) - left) |->
                         [collected[left + i] EXCEPT !.age = @ + 1]]
  /\ UNCHANGED <<alerts, checks>>

WeightsNext ==
  \/ Collect
  \/ Week
  \/ CheckDrift
  \/ \E i \in DOMAIN alerts : Acknowledge(i) \/ Resolve(i)

WeightsSpec == WeightsInit /\ [][WeightsNext]_weightVars

\* What is held out teaches nothing: were an observation of a held-out sample the
\* other way round, the search would find the same.  Weights that differ from the
\* defaults are reported as an improvement, and no others.
Opposite(i) == [collected EXCEPT ![i].cited = ~collected[i].cited]
HeldOutIsUnseen ==
  Searches(collected) =>
    /\ \A held \in {HeldOut(collected)}, best \in {Best(collected)} :
         /\ {Best(Opposite(i)) : i \in {j \in DOMAIN collected : collected[j].site \in held}}
              \subseteq {best}
         /\ IsImprovement(collected, best) <=> best # Baseline
    /\ \A i \in DOMAIN collected :
         i \notin DOMAIN TrainingOfOutcome(collected) =>
            BestThresholds(Opposite(i)) = BestThresholds(collected)

\* "A trivial 'predict all positive' classifier gets MCC=0" (optimizer.py:249): from
\* sites that are all cited, or all not, no weights are learned.
OneSidedTeachesNothing ==
  LET training == Training(collected)
  IN  (\E b \in BOOLEAN : \A i \in DOMAIN training : training[i].cited = b) =>
        Best(collected) = Baseline

\* The search learns from what it may learn from, and there only if it tells something.
SearchIsHonest == HeldOutIsUnseen /\ OneSidedTeachesNothing

\* The dashboard calls healthy what gets no advice and asks for attention where
\* something has high priority; a healthy week raises no alert of bias.  Where all
\* predictions are right no answerability and no pillar is doubted; where all are of
\* one answerability and it is doubted, the week needs attention.
SummaryAgrees ==
  LET w == Window(Recent)
  IN  /\ (Summary(w) = "healthy") <=> (Priorities(w) = {})
      /\ (Summary(w) = "needs_attention") <=> ("high" \in Priorities(w))
      /\ Summary(w) = "healthy" => Drifts \subseteq {"accuracy"}
      /\ HasOutcome(w, "correct") = WindowKnown(w) =>
           ~\E ans \in Answerability, i \in Pillars : Doubted(w, ans) \/ Misleading(w, i)
      /\ \A ans \in Answerability :
           Doubted(w, ans) /\ (\A i \in DOMAIN w : w[i].ans = ans) =>
             Summary(w) = "needs_attention"
=============================================================================
