---------------------------- MODULE SiteQuestions ----------------------------
(***************************************************************************)
(* The questions an audit asks of a site, what it retrieves for them, how    *)
(* answerable they are, the score this gives and the fixes it asks for       *)
(* (worker/questions, worker/retrieval, worker/simulation/runner.py,         *)
(* worker/scoring/calculator.py, worker/fixes/generator.py), and an owner    *)
(* who writes what the fixes ask for and changes the site in between.        *)
(*                                                                         *)
(* A site is its text, in the chunks of the index, with the schema types and *)
(* the headings that questions are derived from.  A chunk speaks of one      *)
(* category and shows the first signals of each of its questions; the        *)
(* embedding model ranks the chunks of a category first, and the words of a  *)
(* question are in them and in the chunks that name the company.  Relevance  *)
(* is thousandths, a score 60000ths, a total thousandths of a point, each    *)
(* rounded down.                                                             *)
(***************************************************************************)
EXTENDS Integers, Sequences, FiniteSets, SequencesExt, FiniteSetsExt, Functions, TLC

CONSTANTS
  Sites,      \* the sites an owner may start from
  Types,      \* the schema types that come and go
  Topics,     \* the headings that come and go
  MaxChunks   \* bound on the chunks of a site that is written on

VARIABLES
  site,      \* types, headings and text, see Site
  report,    \* what the last audit asked, found and wants fixed
  audited,   \* the report is of the site as it is
  last       \* what happened to the site last

vars == <<site, report, audited, last>>

Categories == {"identity", "offerings", "contact", "trust", "differentiation"}

Asks(id, category, signals, says) ==
  [id |-> id, category |-> category, signals |-> signals, says |-> says]
\* The fifteen questions of every site; UQ-02 and UQ-03 fare as UQ-01 does, and
\* so on, which Times counts.
Universal ==
  {Asks(<<"UQ", 1>>, "identity", 3, ""), Asks(<<"UQ", 4>>, "offerings", 3, ""),
   Asks(<<"UQ", 5>>, "offerings", 3, "pricing"), Asks(<<"UQ", 8>>, "contact", 4, "contact"),
   Asks(<<"UQ", 9>>, "contact", 3, ""), Asks(<<"UQ", 10>>, "trust", 4, ""),
   Asks(<<"UQ", 13>>, "differentiation", 4, ""), Asks(<<"UQ", 14>>, "differentiation", 3, "")}
Times(q) == IF q.id \in {<<"UQ", 1>>, <<"UQ", 4>>, <<"UQ", 10>>} THEN 3
            ELSE IF q.id = <<"UQ", 13>> THEN 2 ELSE 1

\* The categories of the questions that come with a type.
Templates ==
  [Product |-> <<"offerings", "offerings", "trust">>,
   LocalBusiness |-> <<"contact", "contact", "offerings">>,
   Organization |-> <<"identity", "trust">>,
   SoftwareApplication |-> <<"offerings", "offerings", "offerings">>,
   Service |-> <<"offerings", "offerings">>, Article |-> <<"identity", "trust">>,
   FAQPage |-> <<"offerings">>, HowTo |-> <<"offerings", "offerings">>]
\* And the one a heading gives rise to, by the first pattern that it matches.
Patterns ==
  [pricing |-> "offerings", features |-> "offerings", about |-> "identity", team |-> "identity",
   testimonials |-> "trust", cases |-> "trust", integrations |-> "offerings",
   faq |-> "offerings", security |-> "trust", support |-> "contact"]

Chunk ==
  [page : Nat, category : Categories, signals : 0..4, named : BOOLEAN, chars : {500, 2000}]
Site == [types : SUBSET STRING, headings : Seq(STRING), text : Seq(Chunk)]

Least(x, y) == IF x < y THEN x ELSE y
SumOver(w) == MapThenSumSet(LAMBDA x : w[x], DOMAIN w)
First(s, n) == SubSeq(s, 1, Least(n, Len(s)))

-----------------------------------------------------------------------------
(* The questions *)

SchemaQuestions(s) == First(s, 3)

\* Those of the types that have templates, in the order they happen to have, and of
\* the first two headings that match a pattern.
Derived(s, known) ==
  LET ofType(t) == [i \in DOMAIN Templates[t] |-> Asks(<<t, i>>, Templates[t][i], 0, "")]
      topics == {i \in DOMAIN s.headings : s.headings[i] \in DOMAIN Patterns}
      first == {i \in topics : Cardinality({j \in topics : j < i}) < 2}
  IN  ToSet(SchemaQuestions(FlattenSeq([i \in DOMAIN known |-> ofType(known[i])])))
        \cup {Asks(<<h, 0>>, Patterns[h], 0, IF h = "pricing" THEN "pricing" ELSE "") :
                h \in {s.headings[i] : i \in first}}

-----------------------------------------------------------------------------
(* Retrieval for a category: the fused ranks of the chunks that one of the    *)
(* two searches finds, at most two of a page, at most five in all.           *)

SearchLimit == 20

\* A chunk that a search does not find has rank 0 there.
Share(rank) == IF rank = 0 THEN 0 ELSE 25000 \div (60 + rank)
FusedScore(vector, words) == Share(vector) + Share(words)

\* The chunks of the category come before the others.
Ahead(text, c, i, j) ==
  IF text[i].category = c /\ text[j].category = c THEN i < j
  ELSE text[i].category = c \/ (text[j].category # c /\ i < j)

\* The place of a chunk among the first of those in S.
Place(text, c, S, i) ==
  LET rank == 1 + Cardinality({j \in S : Ahead(text, c, j, i)})
  IN  IF i \in S /\ rank <= SearchLimit THEN rank ELSE 0

Fused(text, c) ==
  LET matching == {i \in DOMAIN text : text[i].category = c \/ text[i].named}
      Both(i) == FusedScore(Place(text, c, DOMAIN text, i), Place(text, c, matching, i))
  IN  [i \in {j \in DOMAIN text : Both(j) > 0} |-> Both(i)]

Average(sum, n) == IF n = 0 THEN 0 ELSE sum \div n

Better(text, c, fused, i) ==
  {j \in DOMAIN fused : fused[j] > fused[i] \/ (fused[j] = fused[i] /\ Ahead(text, c, j, i))}
Diverse(text, c, fused) ==
  Restrict(fused, {i \in DOMAIN fused :
    Cardinality({j \in Better(text, c, fused, i) : text[j].page = text[i].page}) < 2})
Retrieved(text, c, diverse) ==
  Restrict(diverse, {i \in DOMAIN diverse : Cardinality(Better(text, c, diverse, i)) < 5})

\* Signals are looked for in the first 2000 characters of what is retrieved.
Evidence(text, c, retrieved) ==
  LET seen == {i \in DOMAIN retrieved : text[i].category = c
                 /\ SumOver([j \in Better(text, c, retrieved, i) |-> text[j].chars]) < 2000}
  IN  [chunks |-> Cardinality(DOMAIN retrieved),
       relevance |-> Average(SumOver(retrieved), Cardinality(DOMAIN retrieved)),
       best |-> Max({0} \cup Range(retrieved)),
       signals |-> SumOver([i \in seen |-> text[i].signals])]

-----------------------------------------------------------------------------
(* How answerable a question is *)

FullyAt == 42000
Twelfths(found, total) == IF total = 0 THEN 6 ELSE (12 * found) \div total

\* The signals of a question that the evidence shows.
Shown(q, e) == Least(q.signals, e.signals)

Result(q, e) ==
  LET found == Shown(q, e)
      signal == Twelfths(found, q.signals)
      score == IF e.chunks = 0 THEN 0
               ELSE 24 * e.relevance + 2000 * signal + (IF found > 0 THEN 12000 ELSE 0)
  IN  [found |-> found, score |-> score,
       answer |-> IF score >= FullyAt THEN "full" ELSE IF score >= 18000 THEN "partial" ELSE "none",
       confidence |-> IF e.chunks = 0 \/ (e.best >= 700 /\ 10 * signal >= 84) THEN "high"
                      ELSE IF e.best >= 400 \/ 10 * signal >= 48 THEN "medium" ELSE "low"]

-----------------------------------------------------------------------------
(* The score *)

CategoryWeights ==
  [identity |-> 25, offerings |-> 30, contact |-> 15, trust |-> 15, differentiation |-> 15]
Tenths == [high |-> 10, medium |-> 6, low |-> 3]

\* The average of a category, in sixtieths of a thousandth.
Of(results, c) == {q \in DOMAIN results : q.category = c}
CategoryScore(results, c) ==
  SumOver([q \in Of(results, c) |-> Times(q) * results[q].score])
    \div SumOver([q \in Of(results, c) |-> Times(q)])

\* What is said of a category, and whether pages are recommended for it.
Status(results, c) ==
  LET score == CategoryScore(results, c) IN
  IF score >= 48000 THEN "Strong performance"
  ELSE IF score >= 36000 THEN "Adequate coverage" ELSE "Needs improvement"
Recommended(results) ==
  {c \in Categories : \E q \in Of(results, c) : results[q].answer = "none"}

\* How many questions of some categories have one of some answers.
Having(results, S, answers) ==
  SumOver([q \in {x \in DOMAIN results : x.category \in S /\ results[x].answer \in answers} |->
             Times(q)])

\* The share of the questions that are answered, those in part count a half; and
\* of the questions of a bucket, where they count in full.
Coverage(results) ==
  (50000 * (2 * Having(results, Categories, {"full"}) + Having(results, Categories, {"partial"})))
    \div Having(results, Categories, {"full", "partial", "none"})
EntityBucket == {"identity", "contact", "trust"}
BucketCoverage(results, bucket) ==
  (100000 * Having(results, bucket, {"full", "partial"}))
    \div Having(results, bucket, {"full", "partial", "none"})

\* Relevance, the signals found, confidence and the best of the sources, over all questions.
Criteria(evidence, results) ==
  LET asked == DOMAIN results
      Over(w) == SumOver([q \in asked |-> Times(q) * w[q]])
      n == SumOver([q \in asked |-> Times(q)])
  IN  35 * (Over([q \in asked |-> evidence[q.category].relevance]) \div n)
        + (35000 * Over([q \in asked |-> results[q].found])) \div Over([q \in asked |-> q.signals])
        + (2000 * Over([q \in asked |-> Tenths[results[q].confidence]])) \div n
        + 7 * (Over([q \in asked |-> evidence[q.category].best]) \div n)
ByCategory(results) ==
  SumOver([c \in Categories |-> (CategoryWeights[c] * CategoryScore(results, c)) \div 60])

\* The pages of the sources are looked up where the retriever does not put
\* them, so the diversity of sources adds nothing.
Score(evidence, results) == (7 * Criteria(evidence, results) + 3 * ByCategory(results)) \div 10

-----------------------------------------------------------------------------
(* The fixes *)

Problem(r) ==
  \/ r.answer = "none"
  \/ r.answer = "partial" /\ r.score < 42000
  \/ r.answer = "full" /\ r.score < 30000

If(cond, s) == IF cond THEN <<s>> ELSE <<>>
NotFound ==
  [offerings |-> "missing_features", contact |-> "missing_contact",
   trust |-> "missing_social_proof", identity |-> "missing_definition",
   differentiation |-> "no_dedicated_page"]

Gap(q) ==
  IF q.says = "pricing" THEN "missing_pricing" ELSE IF q.says = "contact" THEN "missing_contact"
  ELSE IF q.category = "trust" THEN "trust_gap" ELSE "missing_definition"

WithoutReason(reasons) == reasons
\* A question without any reason counts as one with a hidden answer.
WithDefault(reasons) == IF reasons = <<>> THEN <<"buried_answer">> ELSE reasons

Reasons(q, e, r) ==
  LET content == IF e.chunks = 0 THEN <<NotFound[q.category]>>
                 ELSE If(e.relevance < 400, "buried_answer")
      signal == IF q.signals = 0 \/ 10 * r.found < 3 * q.signals THEN <<Gap(q)>>
                ELSE If(10 * r.found < 6 * q.signals, "fragmented_info")
      found == content \o signal
  IN  WithDefault(found \o If(found = <<>> /\ r.confidence = "low", "vague_language"))

\* The fixes of a plan, each with its questions.  They are never more than the
\* ten a plan may hold.
Plan(evidence, results) ==
  LET reasons == [q \in {x \in DOMAIN results : Problem(results[x])} |->
                    ToSet(Reasons(q, evidence[q.category], results[q]))]
  IN  [reason \in UNION Range(reasons) |-> {q \in DOMAIN reasons : reason \in reasons[q]}]

-----------------------------------------------------------------------------
(* The owner *)

NewPage(text) == Min(1..Len(text) + 1 \ {text[i].page : i \in DOMAIN text})

\* A page that shows the signals of a category, found before or after the rest
\* of what the site says of it.
Written(s, c) ==
  LET chunk(n) == [page |-> NewPage(s.text), category |-> c, signals |-> n, named |-> TRUE,
                   chars |-> 500]
  IN  {[s EXCEPT !.text = <<chunk(4)>> \o @], [s EXCEPT !.text = Append(@, chunk(2))]}

Changed(s) ==
  {[s EXCEPT !.types = @ \cup {t}] : t \in Types}
    \cup {[s EXCEPT !.types = @ \ {t}] : t \in Types}
    \cup {[s EXCEPT !.headings = Append(@, h)] : h \in Topics \ ToSet(s.headings)}

-----------------------------------------------------------------------------

Init ==
  /\ site \in Sites
  /\ report = [results |-> <<>>, score |-> 0, plan |-> <<>>]
  /\ audited = FALSE
  /\ last = "none"

MakeFix(reason) ==
  /\ audited
  /\ Len(site.text) < MaxChunks
  /\ \E q \in report.plan[reason] : site' \in Written(site, q.category)
  /\ audited' = FALSE
  /\ last' = "fix"
  /\ UNCHANGED report

Change ==
  /\ audited
  /\ site' \in Changed(site) \ {site}
  /\ audited' = FALSE
  /\ last' = "change"
  /\ UNCHANGED report

\* The site is audited again as it is.
Again ==
  /\ audited
  /\ audited' = FALSE
  /\ last' = "again"
  /\ UNCHANGED <<site, report>>

\* One stage after another, for all categories.
Audit ==
  /\ ~audited
  /\ \E known \in SetToSeqs(site.types \cap DOMAIN Templates),
        fused \in {[c \in Categories |-> Fused(site.text, c)]} :
     \E diverse \in {[c \in Categories |-> Diverse(site.text, c, fused[c])]} :
     \E retrieved \in {[c \in Categories |-> Retrieved(site.text, c, diverse[c])]} :
     \E evidence \in {[c \in Categories |-> Evidence(site.text, c, retrieved[c])]} :
     \E results \in {[q \in Universal \cup Derived(site, known) |->
                          Result(q, evidence[q.category])]} :
       report' = [results |-> results, score |-> Score(evidence, results),
                  plan |-> Plan(evidence, results)]
  /\ audited' = TRUE
  /\ UNCHANGED <<site, last>>

Next == Audit \/ Again \/ Change \/ \E reason \in DOMAIN report.plan : MakeFix(reason)

Spec == Init /\ [][Next]_vars

-----------------------------------------------------------------------------
(* Properties *)

\* At most five questions are derived, and the total stays below the three
\* points that the diversity of sources would add.
TypeOK ==
  /\ Cardinality(DOMAIN report.results \ Universal) <= 5
  /\ report.score \in Nat /\ report.score <= 97900

\* Every question that is not well answered is behind some fix of the plan.
ProblemsAreAddressed ==
  \A q \in DOMAIN report.results :
    Problem(report.results[q]) => \E f \in DOMAIN report.plan : q \in report.plan[f]

\* Only a question at least half of whose signals were shown is fully
\* answered, which no derived question ever is.
FullIsShown ==
  \A q \in DOMAIN report.results :
    report.results[q].answer = "full" => q.signals > 0 /\ 2 * report.results[q].found >= q.signals

\* A page that ranks first for a category and shows all signals answers its
\* universal questions fully, however little the rest of the site says and however
\* much of it there is: what the searches find ranks high enough for the mean.
BestPageAnswers ==
  audited /\ site.text # <<>> =>
    LET best == Head(site.text)
    IN  \A q \in DOMAIN report.results :
          best.category = q.category /\ best.signals = 4 /\ q.signals > 0
            => report.results[q].answer = "full"

\* What the breakdown says of the categories agrees: pages are recommended only
\* for one the plan has fixes for and that is no strong one, and one of the
\* buckets has at least the share of answers that the whole has.
BreakdownAgrees ==
  report.results # << >> =>
    /\ \A c \in Recommended(report.results) :
         /\ Status(report.results, c) # "Strong performance"
         /\ \E f \in DOMAIN report.plan : \E q \in report.plan[f] : q.category = c
    /\ \E b \in {EntityBucket, Categories \ EntityBucket} :
         Coverage(report.results) <= BucketCoverage(report.results, b)

=============================================================================
