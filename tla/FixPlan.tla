------------------------------- MODULE FixPlan -------------------------------
(***************************************************************************)
(* The fixes an audit asks for.  Badly answered questions are diagnosed one  *)
(* after the other and grouped by reason (worker/fixes/generator.py); what   *)
(* the fixes gain is estimated (worker/fixes/impact.py); with the fixes of   *)
(* the checks they make up the action center                                 *)
(* (worker/fixes/generator_v2.py).                                          *)
(*                                                                         *)
(* Numbers are exact: the plan counts in 600000ths of the score, the action  *)
(* center in 600000ths of a point, the estimator in 1250000ths.              *)
(***************************************************************************)
EXTENDS Integers, Sequences, FiniteSets, SequencesExt, FiniteSetsExt, TLC

CONSTANTS
  Diagnoses,    \* what may be wrong with a question: [reasons, category, weight]
  CheckFixes,   \* the fixes the checks may ask for, a set of sequences of names
  MaxQuestions  \* bound on the questions diagnosed

VARIABLES
  plan,    \* of each reason, in the order found, how many questions of which kind
  checks   \* the fixes of the checks

planVars == <<plan, checks>>

MaxFixes == 10
MaxListed == 5

KindOf(d) == [category |-> d.category, weight |-> d.weight]
Kinds == {KindOf(d) : d \in Diagnoses}

\* Of each reason: what fixing it gains at least, as expected and at most, in
\* tenths of a point.
BaseGain ==
  [missing_definition |-> <<30, 50, 80>>, missing_pricing |-> <<25, 45, 70>>,
   missing_contact |-> <<20, 35, 50>>, missing_location |-> <<10, 20, 35>>,
   missing_features |-> <<20, 40, 60>>, missing_social_proof |-> <<15, 30, 50>>,
   buried_answer |-> <<10, 25, 40>>, fragmented_info |-> <<5, 15, 30>>,
   no_dedicated_page |-> <<15, 30, 50>>, vague_language |-> <<5, 15, 30>>,
   inconsistent |-> <<20, 40, 60>>, trust_gap |-> <<10, 25, 40>>]

\* What the plan counts on, in hundredths of the score, and the severity.
R(impact, severity) == [impact |-> impact, severity |-> severity]
ReasonInfo ==
  [missing_definition |-> R(30, "critical"), missing_pricing |-> R(25, "high"),
   missing_contact |-> R(20, "high"), missing_location |-> R(15, "medium"),
   missing_features |-> R(20, "high"), missing_social_proof |-> R(15, "medium"),
   buried_answer |-> R(15, "medium"), fragmented_info |-> R(10, "medium"),
   no_dedicated_page |-> R(15, "medium"), vague_language |-> R(10, "medium"),
   inconsistent |-> R(25, "critical"), trust_gap |-> R(15, "medium")]

\* How urgent the template of a reason is.
Urgency(reason) ==
  CASE reason \in {"missing_definition", "missing_pricing", "missing_contact",
                   "missing_features", "inconsistent"} -> 1
    [] reason \in {"fragmented_info", "vague_language"} -> 3
    [] OTHER -> 2

AtMost(x, most) == IF x < most THEN x ELSE most

-----------------------------------------------------------------------------
(* The plan *)

\* The questions of a fix (one with the same reason twice counts twice), their
\* weights, in tenths, and their categories.
Number(fix) == MapThenSumSet(LAMBDA k : fix.kinds[k], Kinds)
WeightOf(fix) == MapThenSumSet(LAMBDA k : k.weight * fix.kinds[k], Kinds)
CategoriesOf(fix) == {k.category : k \in {k \in Kinds : fix.kinds[k] > 0}}

\* What a fix is worth: its reason's share by the questions and by their average
\* weight, at most half of the score.
Impact(fix) ==
  AtMost((ReasonInfo[fix.reason].impact * AtMost(9 + Number(fix), 15) * WeightOf(fix)
            * 60) \div Number(fix), 300000)

Effort(fix) ==
  IF fix.reason \in {"no_dedicated_page", "missing_social_proof"} \/ Number(fix) > 3
  THEN "medium" ELSE "low"

\* A fix of the plan, found as the i-th.
Planning(fix, i) ==
  [reason |-> fix.reason, number |-> Number(fix), categories |-> CategoriesOf(fix),
   priority |-> Urgency(fix.reason), effort |-> Effort(fix), impact |-> Impact(fix), place |-> i]

PlannedSooner(f, g) ==
  \/ f.priority < g.priority
  \/ f.priority = g.priority /\ f.impact > g.impact
  \/ f.priority = g.priority /\ f.impact = g.impact /\ f.place < g.place
Planned ==
  LET sorted == SortSeq([i \in DOMAIN plan |-> Planning(plan[i], i)], PlannedSooner)
  IN  SubSeq(sorted, 1, AtMost(Len(plan), MaxFixes))

TotalImpact == AtMost(FoldLeft(LAMBDA sum, f : sum + f.impact, 0, Planned), 600000)
Severe(severity) == {f \in Range(Planned) : ReasonInfo[f.reason].severity = severity}

\* Where the fix belongs.  The categories come in no particular order: any of them
\* may name the page.
Pages(fix) ==
  LET byReason == [missing_pricing |-> "/pricing", missing_contact |-> "/contact",
                   missing_features |-> "/features", missing_definition |-> "/about",
                   missing_social_proof |-> "/testimonials",
                   missing_location |-> "/locations"]
      byCategory == [identity |-> "/about", offerings |-> "/services", contact |-> "/contact",
                     trust |-> "/testimonials", differentiation |-> "/why-us"]
  IN  IF fix.reason \in DOMAIN byReason THEN {byReason[fix.reason]}
      ELSE {byCategory[c] : c \in fix.categories}

-----------------------------------------------------------------------------
(* What the plan gains: the more questions, the more, up to a limit; the      *)
(* weightiest category counts; every further fix counts four fifths.         *)

\* Twentieths.
Multiplier(n) ==
  IF n \in 1..5 THEN <<20, 30, 36, 40, 44>>[n] ELSE AtMost(44 + (n - 5), 50)

CategoryFactor == [identity |-> 10, offerings |-> 12, contact |-> 11, trust |-> 10,
                   differentiation |-> 9]
Factor(categories) == Max({CategoryFactor[c] : c \in categories})

AtLowest == 1
Expected == 2
AtHighest == 3
\* In 2000ths of a point.
Gain(fix, bound) ==
  BaseGain[fix.reason][bound] * Multiplier(fix.number) * Factor(fix.categories)

BestFirst(f, g) ==
  \/ Gain(f, Expected) > Gain(g, Expected)
  \/ Gain(f, Expected) = Gain(g, Expected) /\ PlannedSooner(f, g)
Estimated == SortSeq(Planned, BestFirst)

\* In 1250000ths of a point, for up to five fixes, those of which gain faded[i].
Fading == <<625, 500, 400, 320, 256>>
TotalGain(bound) ==
  LET faded == FoldLeft(LAMBDA sum, f : [total |-> sum.total + Gain(f, bound) * Fading[sum.next],
                                         next |-> sum.next + 1],
                        [total |-> 0, next |-> 1], Estimated)
  IN  AtMost(faded.total, 30 * 1250000)

FixConfidence(fix) ==
  LET severity == ReasonInfo[fix.reason].severity
  IN  IF severity = "critical" /\ fix.number <= 2 THEN "high"
      ELSE IF severity \in {"critical", "high"} \/ fix.number <= 3 THEN "medium"
      ELSE "low"
OverallConfidence ==
  LET Having(level) == Cardinality({i \in DOMAIN Planned : FixConfidence(Planned[i]) = level})
  IN  IF 2 * Having("high") > Len(Planned) THEN "high"
      ELSE IF plan = << >> \/ 2 * Having("low") > Len(Planned) THEN "low"
      ELSE "medium"

-----------------------------------------------------------------------------
(* The action center *)

\* A fix of the center, with its place before the center is sorted; points are
\* those of the whole score.
Item(name, category, priority, effort, points, place) ==
  [name |-> name, category |-> category, priority |-> priority, effort |-> effort,
   points |-> points, place |-> place]

\* The fixes of the checks: their priority, effort, and points of their pillar.
Technical ==
  [unblock |-> <<1, "low", 15>>, ttfb_slow |-> <<2, "medium", 10>>,
   ttfb |-> <<3, "medium", 10>>, llms |-> <<3, "low", 5>>,
   ssr_sure |-> <<2, "medium", 15>>, ssr |-> <<3, "medium", 15>>,
   https |-> <<3, "low", 3>>]
Structure ==
  [missing_h1 |-> <<1, "low", 5>>, multiple_h1 |-> <<2, "low", 3>>,
   hierarchy |-> <<2, "medium", 3>>, answer_first |-> <<1, "medium", 5>>,
   add_faq |-> <<2, "medium", 4>>, faq_schema |-> <<1, "low", 8>>,
   internal_links |-> <<3, "medium", 3>>, anchor_text |-> <<3, "medium", 2>>,
   table_headers |-> <<3, "low", 2>>]
Schema ==
  [faq_page |-> <<1, "medium", 8>>, expand_faq |-> <<2, "low", 3>>,
   article |-> <<2, "medium", 5>>, author |-> <<2, "low", 3>>,
   date_modified |-> <<2, "low", 4>>, update_content |-> <<1, "high", 5>>,
   organization |-> <<3, "low", 3>>, validation |-> <<1, "low", 2>>]
Authority ==
  [add_author |-> <<1, "low", 7>>, link_author |-> <<2, "low", 3>>,
   credentials |-> <<1, "medium", 6>>, photo |-> <<3, "low", 2>>,
   citations |-> <<1, "medium", 6>>, dates |-> <<1, "low", 5>>,
   update_page |-> <<1, "high", 5>>, original_data |-> <<2, "high", 4>>]

\* A point of a pillar counts so many hundredths for the score.
FromTable(name, category, table, share, place) ==
  Item(name, category, table[name][1], table[name][2], table[name][3] * share * 6000, place)
FromCheck(name, i) ==
  CASE name \in DOMAIN Technical -> FromTable(name, "technical", Technical, 15, i)
    [] name \in DOMAIN Structure -> FromTable(name, "structure", Structure, 20, i)
    [] name \in DOMAIN Schema -> FromTable(name, "schema", Schema, 15, i)
    [] name \in DOMAIN Authority -> FromTable(name, "authority", Authority, 15, i)

\* Questions count for retrieval and coverage, 25 and 10 hundredths.
FromPlan(fix) ==
  Item(fix.reason, "content", fix.priority, fix.effort, fix.impact * 35,
       Len(checks) + fix.place)

Unified ==
  FoldLeft(LAMBDA all, f : Append(all, FromPlan(f)),
           [i \in DOMAIN checks |-> FromCheck(checks[i], i)], Planned)

Sooner(f, g) ==
  \/ f.priority < g.priority
  \/ f.priority = g.priority /\ f.points > g.points
  \/ f.priority = g.priority /\ f.points = g.points /\ f.place < g.place
AllFixes == SortSeq(Unified, Sooner)

ImpactLevel(fix) == IF fix.priority \in 1..3 THEN <<"critical", "high", "medium">>[fix.priority]
                    ELSE "low"
Listed(Test(_)) ==
  LET fitting == SelectSeq(AllFixes, Test)
  IN  SubSeq(fitting, 1, AtMost(Len(fitting), MaxListed))
IsQuickWin(fix) == fix.effort = "low" /\ ImpactLevel(fix) \in {"critical", "high"}
IsCritical(fix) == ImpactLevel(fix) = "critical"
QuickWins == Listed(IsQuickWin)
HighPriority == Listed(IsCritical)

PointsOf(fixes) == FoldLeft(LAMBDA sum, f : sum + f.points, 0, fixes)
CountOf(level) == Cardinality({i \in DOMAIN Unified : ImpactLevel(Unified[i]) = level})

-----------------------------------------------------------------------------
InitPlan ==
  /\ plan = << >>
  /\ checks \in CheckFixes

Diagnosed(p) == MapThenSumSet(LAMBDA i : Number(p[i]), DOMAIN p)

\* A question counts for the fix of each of its reasons.
Grouped(p, reason, kind) ==
  LET one == [k \in Kinds |-> IF k = kind THEN 1 ELSE 0]
  IN  IF \E i \in DOMAIN p : p[i].reason = reason
      THEN [i \in DOMAIN p |->
              IF p[i].reason = reason THEN [p[i] EXCEPT !.kinds[kind] = @ + 1] ELSE p[i]]
      ELSE Append(p, [reason |-> reason, kinds |-> one])

Diagnose ==
  /\ Diagnosed(plan) < MaxQuestions
  /\ \E d \in Diagnoses :
       plan' = FoldLeft(LAMBDA p, r : Grouped(p, r, KindOf(d)), plan, d.reasons)
  /\ UNCHANGED checks

-----------------------------------------------------------------------------
(* Properties *)

\* The action center leads with what is urgent: what its short lists leave out is
\* not more urgent, nor worth more, than what they hold (worker/fixes/generator_v2.py);
\* an estimate that is called certain rests on a fix the center leads with, and its
\* bounds are in order (worker/fixes/impact.py).
CentreLeads(all, quick, urgent) ==
  LET Leads(list, Test(_)) ==
        \A f \in Range(all) \ Range(list) :
          Test(f) => \A g \in Range(list) :
                        g.priority <= f.priority /\ (g.priority < f.priority \/ g.points >= f.points)
  IN  /\ Leads(quick, IsQuickWin)
      /\ Leads(urgent, IsCritical)
      /\ IsPrefix(urgent, all)
      /\ OverallConfidence = "high" => Severe("critical") # {} /\ urgent # <<>>
      /\ TotalGain(AtLowest) <= TotalGain(Expected) /\ TotalGain(Expected) <= TotalGain(AtHighest)
=============================================================================
