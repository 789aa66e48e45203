---------------------------- MODULE FindableScore ----------------------------
(***************************************************************************)
(* The findable score of an audit (worker/scoring/calculator_v2.py) and the *)
(* pillar that comes from outside the site, what Wikipedia, Wikidata, the    *)
(* registry of the domain and a search engine know of the brand              *)
(* (worker/extraction/entity_recognition.py).                               *)
(*                                                                         *)
(* Raw scores and the total are thousandths of a point, rounded down.       *)
(***************************************************************************)
EXTENDS Integers, FiniteSets, FiniteSetsExt, TLC

Pillars ==
  {"technical", "structure", "schema", "authority", "entity_recognition", "retrieval", "coverage"}
\* The pillars of checks that may raise, in which case the audit goes on without.
Checks == Pillars \ {"retrieval", "coverage"}

DefaultWeights ==
  [technical |-> 12, structure |-> 18, schema |-> 13, authority |-> 12,
   entity_recognition |-> 13, retrieval |-> 22, coverage |-> 10]

-----------------------------------------------------------------------------
(* The total; "raw" is a function from the pillars that were evaluated. *)

Weight(weights, S) == MapThenSumSet(LAMBDA p : weights[p], S)

\* Weights that do not add up to 100 are replaced by the defaults.
InForce(weights) == IF Weight(weights, Pillars) = 100 THEN weights ELSE DefaultWeights

\* A partial score is rescaled to what was evaluated.
Evaluated(weights, S) == Weight(weights, S)

\* When no check came through, the report falls back to the score of the
\* simulation.
Total(configured, raw) ==
  LET weights == InForce(configured)
      points == [p \in DOMAIN raw |-> weights[p] * raw[p]]
  IN  IF DOMAIN raw \cap Checks = {} THEN raw["retrieval"]
      ELSE Weight(points, DOMAIN raw) \div Evaluated(weights, DOMAIN raw)

-----------------------------------------------------------------------------
(* What is known of a brand: numbers, 0 where nothing is. *)

Article == {"page", "chars", "citations", "infobox", "categories", "fresh"}
Item == {"item", "properties", "sitelinks"}
Known == Article \cup Item \cup {"registered", "years", "web"}

\* The points of the highest threshold that was reached, of pairs of both.
Reached(n, thresholds) == Max({0} \cup {t[2] : t \in {t \in thresholds : n >= t[1]}})

WikipediaScore(known) ==
  IF known.page = 0 THEN 0
  ELSE 15 + Reached(known.chars, {<<2001, 1>>, <<5001, 3>>, <<10001, 5>>})
          + Reached(known.citations, {<<6, 1>>, <<21, 3>>, <<51, 5>>})
          + 2 * known.infobox + Reached(known.categories, {<<6, 1>>, <<11, 2>>}) + known.fresh

\* The types of an item are ids, in which no name of a type is ever found.
WikidataScore(known) ==
  IF known.item = 0 THEN 0
  ELSE 10 + Reached(known.properties, {<<11, 1>>, <<21, 2>>, <<51, 4>>})
          + Reached(known.sitelinks, {<<2, 1>>, <<6, 2>>, <<21, 3>>, <<51, 4>>})

TldScore == [com |-> 5, uk |-> 3, io |-> 0, dev |-> 0]
\* Top level domains with a registry that is asked.
Registries == {"com", "io"}

DomainScore(known, domain) ==
  IF known.registered = 0 THEN 0
  ELSE Reached(known.years, {<<1, 1>>, <<2, 3>>, <<5, 5>>, <<10, 8>>, <<20, 10>>})
         + TldScore[domain.tld]
         + (IF domain.letters <= 6 THEN 3 ELSE IF domain.letters <= 10 THEN 1 ELSE 0)

\* Mutant: the two estimates of the number of results are swapped.
SwappedEstimate(web) == <<0, 1000000, 100000>>[web + 1]
\* Nothing, related topics or an abstract.
Estimate(web) == <<0, 100000, 1000000>>[web + 1]
WebScore(known) ==
  Reached(Estimate(known.web),
          {<<1001, 1>>, <<10001, 3>>, <<100001, 6>>, <<1000001, 9>>, <<10000001, 12>>})

\* The pages of the site are not looked at, of which nothing is known but that
\* the spelling of the brand is consistent.
Reinforcement == 2

\* Of 120 points.
EntityScore(known, domain) ==
  (2500 * (Reinforcement + WikipediaScore(known) + WikidataScore(known) + DomainScore(known, domain)
             + WebScore(known))) \div 3

Lookups == {"wikipedia", "citations", "wikidata", "rdap", "head", "search"}

\* The site itself stands in for the registry, if it answers.
DomainLost(failed, domain) ==
  IF "rdap" \notin failed /\ domain.tld \in Registries THEN {}
  ELSE {"years"} \cup (IF "head" \in failed THEN {"registered"} ELSE {})

\* What is lost when lookups fail: each stands for what it would have found.
Lost(failed, domain) ==
  (IF "wikipedia" \in failed THEN Article ELSE {})
    \cup (IF "citations" \in failed THEN {"citations"} ELSE {})
    \cup (IF "wikidata" \in failed THEN Item ELSE {})
    \cup DomainLost(failed, domain)
    \cup (IF "search" \in failed THEN {"web"} ELSE {})

Seen(known, domain, failed) ==
  [f \in Known |-> IF f \in Lost(failed, domain) THEN 0 ELSE known[f]]

-----------------------------------------------------------------------------
(* What the score means: its level, what is missing to the next, and what    *)
(* there is to praise and to criticise.                                      *)

Levels ==
  <<"not_yet_findable", "partially_findable", "findable", "highly_findable", "optimized">>
Milestones == {40, 55, 70, 85}

Level(total) == Levels[1 + Cardinality({m \in Milestones : total >= 1000 * m})]

Ahead(total) == {m \in Milestones : total < 1000 * m}
\* The next milestone, 0 for none, and the points to it.
Milestone(total) == IF Ahead(total) = {} THEN 0 ELSE Min(Ahead(total))
PointsNeeded(total) == IF Ahead(total) = {} THEN 0 ELSE 1000 * Milestone(total) - total

\* Where a pillar is full, and where it is partial.
Full(p) == IF p \in {"technical", "structure"} THEN 80 ELSE IF p = "entity_recognition" THEN 50 ELSE 70
Partial(p) ==
  IF p \in {"technical", "structure"} THEN 50 ELSE IF p = "entity_recognition" THEN 25 ELSE 40
PillarLevel(p, score) ==
  IF score >= 1000 * Full(p) THEN "full"
  ELSE IF score >= 1000 * Partial(p) THEN "partial" ELSE "limited"

BrandIssues(known, score) ==
  IF score >= 25000 THEN {}
  ELSE (IF known.page = 0 THEN {"No Wikipedia presence"} ELSE {})
         \cup (IF known.item = 0 THEN {"No Wikidata entity"} ELSE {})
BrandAdvice(known, score) ==
  IF score >= 50000 THEN {}
  ELSE {"Build web presence"}
         \cup (IF known.page = 0 THEN {"Establish notability"} ELSE {})
         \cup (IF known.years = 1 THEN {"Domain age"} ELSE {})

ArticleStrengths(known) ==
  {s \in {"infobox", "Substantial article", "Article"} :
     /\ known.page = 1
     /\ (s = "infobox") = (known.infobox = 1)
     /\ s = "Substantial article" => known.chars > 5000
     /\ s = "Article" => known.chars <= 5000}
ItemStrengths(known) ==
  {s \in {"Languages", "Item"} : known.item = 1 /\ (s = "Languages") = (known.sitelinks >= 20)}
DomainStrengths(known, domain) ==
  {s \in {"Established", "Premium TLD"} :
     IF known.years >= 10 THEN s = "Established" ELSE s = "Premium TLD" /\ domain.tld = "com"}

\* One strength of the article, one of the item and one of the domain; above
\* 60 points they are not looked at.
BrandStrengths(known, domain, score) ==
  IF score >= 60000 THEN {"Strong recognition"}
  ELSE ArticleStrengths(known) \cup ItemStrengths(known) \cup DomainStrengths(known, domain)

\* Mutant: a server that never answered is a fast one.
Swift(ms) == ms < 200
\* A first byte that was not measured is 0.
Fast(ms) == ms > 0 /\ ms < 200
\* Of the crawlers that are checked, those of social networks among them.
TechnicalStrengths(llms, blocked, checked, ms) ==
  (IF llms THEN {"llms.txt"} ELSE {})
    \cup (IF checked \cap blocked = {} THEN {"All crawlers"}
          ELSE IF checked \subseteq blocked THEN {} ELSE {"Some crawlers"})
    \cup (IF Fast(ms) THEN {"Excellent response"}
          ELSE IF ms > 0 /\ ms < 500 THEN {"Good response"} ELSE {})
    \cup {"HTTPS"}

ContentStrengths(retrieval, coverage) ==
  (IF coverage >= 80000 THEN {"Excellent coverage"}
   ELSE IF coverage >= 60000 THEN {"Good coverage"} ELSE {})
    \cup (IF retrieval >= 70000 THEN {"High retrieval quality"} ELSE {})

=============================================================================
