----------------------------- MODULE Comparison -----------------------------
(***************************************************************************)
(* What the simulation predicted of a question against what a model answered *)
(* (worker/observation/comparison.py).  A question is a record:             *)
(*   ans        its simulated answerability                                *)
(*   got        "none" no result, "failed" a result without an answer,      *)
(*              "answered"                                                 *)
(*   mentioned, cited, refused   what the answer says of the company        *)
(* The audit passes no parsed answers, so refused is FALSE there.  A failed  *)
(* result is compared as an answer that does not name the company.          *)
(* A rate is a pair <<part, whole>>.                                        *)
(***************************************************************************)
EXTENDS Naturals, Integers, Sequences, FiniteSets

Answerability == {"fully", "partially", "not", "contradictory"}

Positive(ans) == ans \in {"fully", "partially"}

Sourceability(q) ==
  IF q.refused THEN "refused"
  ELSE IF q.cited THEN "cited"
  ELSE IF q.mentioned THEN "mentioned" ELSE "omitted"

Outcome(q) ==
  LET observed == Sourceability(q) \in {"cited", "mentioned"}
  IN  IF q.got = "none" \/ Sourceability(q) = "refused" THEN "unknown"
      ELSE IF Positive(q.ans) = observed THEN "correct"
      ELSE IF Positive(q.ans) THEN "optimistic" ELSE "pessimistic"

-----------------------------------------------------------------------------

\* How many questions of a sequence have a property.
Count(qs, P(_)) == Cardinality({i \in DOMAIN qs : P(qs[i])})
HasOutcome(qs, o) == Count(qs, LAMBDA q : Outcome(q) = o)

\* One rate is more than another, by at least or more than the share m / 100.
Above(x, y) == x[1] * y[2] > y[1] * x[2]
Over(x, m) == 100 * x[1] > m * x[2]
AtLeast(x, m) == 100 * x[1] >= m * x[2]

\* The rate of nothing is 0.
Rate(part, whole) == IF whole = 0 THEN <<0, 1>> ELSE <<part, whole>>

\* Of all questions, those without a result included.
Accuracy(qs) == Rate(HasOutcome(qs, "correct"), Len(qs))
PredictedFully(qs) == Rate(Count(qs, LAMBDA q : q.ans = "fully"), Len(qs))
PredictedRate(qs) == Rate(Count(qs, LAMBDA q : Positive(q.ans)), Len(qs))

\* Of the answers only.
Answers(qs) == Count(qs, LAMBDA q : q.got = "answered")
MentionRate(qs) ==
  Rate(Count(qs, LAMBDA q : q.got = "answered" /\ q.mentioned), Answers(qs))
CitationRate(qs) ==
  Rate(Count(qs, LAMBDA q : q.got = "answered" /\ q.cited), Answers(qs))

\* The observed rate exceeds the predicted one by more than m / 100 (m may be
\* negative).
DeltaOver(qs, m) ==
  LET o == MentionRate(qs)
      p == PredictedRate(qs)
  IN  100 * (o[1] * p[2] - p[1] * o[2]) > m * o[2] * p[2]
DeltaUnder(qs, m) ==
  LET o == MentionRate(qs)
      p == PredictedRate(qs)
  IN  100 * (o[1] * p[2] - p[1] * o[2]) < m * o[2] * p[2]

\* The names of the conditions that hold.
Named(conditions) == {n \in DOMAIN conditions : conditions[n]}

Insights(qs) ==
  LET optimistic == HasOutcome(qs, "optimistic")
      pessimistic == HasOutcome(qs, "pessimistic")
      cited == CitationRate(qs)[1]
      mentioned == MentionRate(qs)[1]
  IN  Named([accurate |-> AtLeast(Accuracy(qs), 80),
             inaccurate |-> ~Over(Accuracy(qs), 50),
             optimistic |-> optimistic > 2 * pessimistic,
             pessimistic |-> pessimistic > 2 * optimistic,
             rarely_cited |-> 10 * cited < 3 * mentioned,
             often_cited |-> mentioned > 0 /\ 10 * cited > 7 * mentioned,
             higher |-> DeltaOver(qs, 20),
             lower |-> DeltaUnder(qs, -20)])

Advice(qs) ==
  Named([cite |-> ~AtLeast(CitationRate(qs), 30) /\ Over(MentionRate(qs), 50),
         calibrate |-> ~AtLeast(Accuracy(qs), 60),
         signals |-> 10 * HasOutcome(qs, "optimistic") > 4 * Len(qs),
         expand |-> 10 * HasOutcome(qs, "pessimistic") > 4 * Len(qs)])

=============================================================================
