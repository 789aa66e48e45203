----------------------------- MODULE AuditReport -----------------------------
(***************************************************************************)
(* The report of an audit (worker/reports/assembler.py): the score with its  *)
(* pillars, the fixes, and, if there was an observation, how visible the site *)
(* is in answers, how far the simulation was off, and the causes named first.*)
(*                                                                         *)
(* Answers come in one by one (ObservationReport), diagnoses of the simulated*)
(* questions too (FixPlan); the report is a function of what there is.       *)
(***************************************************************************)
EXTENDS ObservationReport, FixPlan

CONSTANTS
  Starts   \* [setup, checks, raw]: an observation, fixes of the checks, and the
           \* scores of the pillars that were evaluated, in thousandths

VARIABLE raw

reportVars == <<observationVars, planVars, raw>>

Score == INSTANCE FindableScore

ASSUME ReportAssumption ==
  \A s \in Starts : DOMAIN s.raw \subseteq Score!Pillars /\ \A p \in DOMAIN s.raw : s.raw[p] \in Nat

-----------------------------------------------------------------------------
(* The sections *)

Evaluated == DOMAIN raw

\* Some check came through, or else the report goes by the simulation alone.
Checked == Evaluated \cap Score!Checks # {}

\* An observation that came to an end; the benchmark is never passed on.
Observed == results # <<>> /\ Compared

Sections ==
  {"score", "fixes", "headline"}
    \cup (Evaluated \cap {"technical", "structure", "schema", "authority"})
    \cup (IF Checked THEN {"score_v2", "action_center", "top_causes"} ELSE {})
    \cup (IF Observed THEN {"observation", "divergence", "citable_index"} ELSE {})

\* The section of a check and the summary of its pillar.
Section(p) == [score |-> raw[p], level |-> Score!PillarLevel(p, raw[p])]

\* The fixes of the plan, with a range around the share each is worth.
FixItem(fix) ==
  [reason |-> fix.reason, priority |-> fix.priority, effort |-> fix.effort,
   pages |-> Pages(fix), least |-> fix.impact \div 2, expected |-> fix.impact, most |-> (3 * fix.impact) \div 2]
FixItems == FoldLeft(LAMBDA items, f : Append(items, FixItem(f)), <<>>, Planned)
FixSection == [total |-> TotalImpact, critical |-> Severe("critical"), high |-> Severe("high")]

\* The action center with its short lists.
ActionCenter ==
  [quick |-> QuickWins, urgent |-> HighPriority, all |-> AllFixes, total |-> Len(Unified),
   points |-> PointsOf(Unified), critical |-> CountOf("critical"), high |-> CountOf("high"),
   medium |-> CountOf("medium"), low |-> CountOf("low")]

\* The score with a summary of each pillar.
ScoreSection ==
  LET total == Score!Total(Score!DefaultWeights, raw)
  IN  [total |-> total, level |-> Score!Level(total),
       pillars |-> [p \in Evaluated |-> Section(p)],
       good |-> {p \in Evaluated : Section(p).level = "full"}]

\* A competitor as it is shown: what it wins is what the company loses.  The audit
\* passes no benchmark, so no report of it has this section.
CompetitorSummary(c) ==
  LET h == HeadToHead(c)
  IN  [mentions |-> RivalMentions(c), wins |-> h.losses, losses |-> h.wins, ties |-> h.ties]

\* The questions with a result, be it without an answer.
Shown == {i \in DOMAIN results : results[i].got # "none"}

ObservationSection ==
  [total |-> Cardinality(Shown),
   mentioned |-> Cardinality({i \in Shown : results[i].mentioned}),
   cited |-> Cardinality({i \in Shown : results[i].cited}),
   accuracy |-> Accuracy(results), insights |-> Insights(results)]

-----------------------------------------------------------------------------
(* How far the simulation was off *)

DivergenceLevel ==
  LET Off(m) == ~DeltaUnder(results, m) \/ ~DeltaOver(results, -m)
  IN  IF Off(35) THEN "high" ELSE IF Off(20) THEN "medium"
      ELSE IF Off(10) THEN "low" ELSE "none"

RefreshReasons ==
  Named([divergence |-> DivergenceLevel = "high",
         accuracy |-> ~AtLeast(Accuracy(results), 50)])

\* Mutant: the two biases are mixed up.
MixedBias(outcome) ==
  Rate(Count(results, LAMBDA q : Outcome(q) \notin {outcome, "correct", "unknown"}),
       Len(results))
Bias(outcome) == Rate(HasOutcome(results, outcome), Len(results))

CalibrationNotes ==
  LET biased == Named([overestimates |-> Over(Bias("optimistic"), 30),
                       underestimates |-> Over(Bias("pessimistic"), 30)])
  IN  IF biased = {} THEN {"well_calibrated"} ELSE biased

-----------------------------------------------------------------------------
(* The citable index, of every observation: where the classifier was not      *)
(* called, of depths that are all 0.                                         *)

\* The depth of a question; one whose answer failed counts as not mentioned.
DepthOf(i) == IF results[i].got = "failed" THEN 0 ELSE Depth(i)

\* Mutant: deeper than it takes.
ShareAbove(n) == Rate(Cardinality({i \in Shown : DepthOf(i) > n}), Cardinality(Shown))
Share(n) == Rate(Cardinality({i \in Shown : DepthOf(i) >= n}), Cardinality(Shown))

\* Depth 3 is a link, depth 4 a source.
BandOf(n) ==
  IF AtLeast(Share(n), IF n = 3 THEN 25 ELSE 15) THEN "high"
  ELSE IF AtLeast(Share(n), IF n = 3 THEN 10 ELSE 5) THEN "mid" ELSE "low"
CitableBand == BandOf(3)
StrongBand == BandOf(4)

Histogram == [d \in {DepthOf(i) : i \in Shown} |-> Cardinality({i \in Shown : DepthOf(i) = d})]

\* The three deepest answers, and the three least deep.
ThreeOf(S, First(_, _)) ==
  LET sorted == SortSeq(SetToSortSeq(S, <), First)
  IN  SubSeq(sorted, 1, AtMost(Cardinality(S), 3))
TopWins ==
  ThreeOf({i \in Shown : DepthOf(i) >= 3},
          LAMBDA i, j : DepthOf(i) > DepthOf(j) \/ (DepthOf(i) = DepthOf(j) /\ i < j))
TopMisses ==
  ThreeOf({i \in Shown : DepthOf(i) <= 1},
          LAMBDA i, j : DepthOf(i) < DepthOf(j) \/ (DepthOf(i) = DepthOf(j) /\ i < j))

\* Of all results, those without an answer too.
AvgCompetitors ==
  Rate(MapThenSumSet(LAMBDA i : results[i].text.rivals, Completed),
       Cardinality(Shown))
FramingDistribution ==
  LET framings == {SourceFraming(results[i].text) : i \in Completed}
  IN  [f \in framings |-> Cardinality({i \in Completed : SourceFraming(results[i].text) = f})]

-----------------------------------------------------------------------------
(* What comes first *)

Headline ==
  [score |-> IF Checked THEN ScoreSection.total ELSE raw["retrieval"],
   level |-> IF Checked THEN ScoreSection.level ELSE "grade",
   band |-> IF Observed THEN CitableBand ELSE "not observed"]

\* Of two as weak the one that comes first here.
PillarOrder ==
  [technical |-> 1, structure |-> 2, schema |-> 3, authority |-> 4, entity_recognition |-> 5,
   retrieval |-> 6, coverage |-> 7]
Weakest ==
  LET Weaker(p, q) == raw[p] < raw[q] \/ (raw[p] = raw[q] /\ PillarOrder[p] < PillarOrder[q])
  IN  {p \in Evaluated : Cardinality({q \in Evaluated : Weaker(q, p)}) < 2}

\* A cause of the code is left out: that of an observation without an index, which
\* there is none.
ObservedCause ==
  IF ~Observed THEN <<>>
  ELSE IF ~AtLeast(Share(3), 25) THEN <<"mentioned but not cited">>
  ELSE IF Over(AvgCompetitors, 300) THEN <<"listed with too many competitors">>
  ELSE <<"strong citation performance">>
TopCauses == IF Checked THEN Weakest \cup Range(ObservedCause) ELSE {}

-----------------------------------------------------------------------------

InitReport ==
  \E s \in Starts :
    /\ ObservationInit /\ setup = s.setup
    /\ InitPlan /\ checks = s.checks
    /\ raw = s.raw

Observe == (AnswerQuestion \/ AnswerRivals \/ Classify) /\ UNCHANGED <<planVars, raw>>
\* Bound: the plan grows only where there is no observation, on which it does not
\* depend.
Fix == setup.questions = 0 /\ Diagnose /\ UNCHANGED <<observationVars, raw>>

ReportNext ==
  \/ Observe
  \/ Fix

ReportSpec == InitReport /\ [][ReportNext]_reportVars

-----------------------------------------------------------------------------
(* Properties *)

\* A simulation that is said to be far off is said to lean the way it is off, and
\* never called well calibrated, where every question was answered and whoever is
\* linked is named; one that is right more often than not is not off by more than
\* half, and one called accurate need not be refreshed (_build_divergence_section).
DivergenceIsExplained ==
  Observed /\ PlainAnswers =>
    /\ DivergenceLevel = "high" =>
         /\ "well_calibrated" \notin CalibrationNotes
         /\ DeltaOver(results, 0) => "underestimates" \in CalibrationNotes
         /\ DeltaUnder(results, 0) => "overestimates" \in CalibrationNotes
    /\ "accuracy" \notin RefreshReasons => ~DeltaOver(results, 50) /\ ~DeltaUnder(results, -50)
    /\ "accurate" \in Insights(results) => RefreshReasons = {}

\* Whether the classifier was called.
Rated == reply # NoReply

\* What is called strong is citable.  Once the classifier was called every link is
\* counted as citable, so that, if no answer failed, a site often cited is rated high
\* and not told that it is mentioned but not cited; where it was not, as in an audit,
\* each site is rated low and told so, however often it is cited.
RatingsAgree ==
  Observed =>
    /\ StrongBand = "high" => CitableBand # "low"
    /\ (CitableBand = "high") = ("mentioned but not cited" \notin Range(ObservedCause))
    /\ ~Rated => Headline.band = "low"
    /\ /\ Rated /\ "often_cited" \in Insights(results) /\ AtLeast(MentionRate(results), 40)
       /\ \A i \in Shown : results[i].got = "answered"
       => Headline.band = "high" /\ \E i \in Shown : DepthOf(i) >= 3

\* Examples are not wins and misses at once, and where the answers go deep there are
\* wins.
ExamplesAgree ==
  Observed =>
    /\ Range(TopWins) \cap Range(TopMisses) = {}
    /\ AtLeast(AvgDepth, 300) => TopWins # <<>>
    /\ (\E i \in Shown : DepthOf(i) >= 3) => TopWins # <<>>

\* The numbers of the answers add up, and every link is among the deep ones once the
\* classifier was called; before, none is.
NumbersAddUp ==
  LET total(f) == MapThenSumSet(LAMBDA x : f[x], DOMAIN f)
  IN
  Observed =>
    /\ total(FramingDistribution) <= total(Histogram)
    /\ total(Histogram) = ObservationSection.total
    /\ Rated => ObservationSection.cited <=
         total([d \in {d \in DOMAIN Histogram : d >= 3} |-> Histogram[d]])
    /\ ~Rated => DOMAIN Histogram \subseteq {0}

\* A competitor nobody names or links wins nothing.
RivalsAgree ==
  Benchmarked =>
    \A c \in setup.rivals :
      ~Over(RivalMentions(c), 0) /\ ~Over(RivalCitations(c), 0) => CompetitorSummary(c).wins = 0

\* The pillars named as causes are none but the weakest, and no more than two: a third
\* cause is one of an observation.
CausesAgree ==
  "top_causes" \in Sections =>
    /\ \A p \in Evaluated \ Weakest, q \in Weakest : raw[p] >= raw[q]
    /\ Cardinality(TopCauses) = 3 => "observation" \in Sections

\* The headline is not far from the pillars.
HeadlineAgrees ==
  "top_causes" \in Sections =>
    /\ Headline.level = "optimized" => ScoreSection.good # {}
    /\ Headline.level = "not_yet_findable" => \E p \in Weakest : Section(p).level # "full"

\* Both lists of fixes have those of the plan in the same order, the action center
\* leads with what is urgent, and its numbers add up.
PlansAgree ==
  \A items \in {FixItems}, content \in {SelectSeq(AllFixes, LAMBDA f : f.category = "content")} :
    /\ [i \in DOMAIN items |-> items[i].reason] = [i \in DOMAIN content |-> content[i].name]
    /\ FixSection.total <= FoldLeft(LAMBDA sum, f : sum + f.most, 0, items)
    /\ \A center \in {ActionCenter} :
         /\ Cardinality(FixSection.critical \cup FixSection.high) <= center.critical
         /\ center.critical + center.high + center.medium + center.low = center.total
         /\ 35 * FixSection.total <= center.points
         /\ CentreLeads(center.all, center.quick, center.urgent)

\* The sections of one report, each computed from counts of its own, do not
\* contradict each other (ReportAssembler.assemble).
OneStory ==
  /\ RatingsAgree /\ ExamplesAgree /\ NumbersAddUp /\ RivalsAgree
  /\ CausesAgree /\ HeadlineAgrees /\ PlansAgree
=============================================================================
