------------------------------ MODULE SiteAudit ------------------------------
(***************************************************************************)
(* An audit of a site as a whole: its technical readiness (SiteTechnical),   *)
(* the questions it answers (SiteQuestions), what is known of the brand, and *)
(* the findable score that is made of all pillars (FindableScore).  The      *)
(* scores of the structure, the structured data and the authority of its     *)
(* pages (PageReport) are given.                                            *)
(*                                                                         *)
(* Every check may fail on its own: a lookup finds nothing, a file cannot be *)
(* fetched, a check raises and its pillar is left out.                      *)
(***************************************************************************)
EXTENDS FindableScore, Sequences

CONSTANTS
  Sites,       \* the sites to start from
  Brands,      \* what may come to be known of a brand
  Failures,    \* sets of lookups that fail in one audit
  Skips,       \* sets of checks that raise in one audit
  Weights,     \* the weights that are configured
  EditLines, MaxLines, Types, Topics, MaxChunks,   \* see the parts
  NoSites      \* the sites each of the parts may start from on its own

VARIABLES
  moves,                \* bound: the parts of the site that move
  tech, techReport,     \* SiteTechnical
  text, textReport,     \* SiteQuestions
  pages,                \* the raw scores of the pillars of the pages
  brand,                \* what is known of the brand, and the domain
  seen,                 \* what the last audit saw of that
  score,                \* the raw scores of the last audit, and the total
  audited, last

vars ==
  <<moves, tech, techReport, text, textReport, pages, brand, seen, score, audited, last>>

T == INSTANCE SiteTechnical WITH Sites <- NoSites, site <- tech, report <- techReport
Q == INSTANCE SiteQuestions WITH Sites <- NoSites, site <- text, report <- textReport

techVars == <<tech, techReport>>
textVars == <<text, textReport>>

Parts == {"technical", "text", "brand"}

\* What may be known of a brand: what is there or not, and numbers.
Knowledge ==
  {known \in [Known -> Nat] :
     /\ \A f \in {"page", "infobox", "fresh", "item", "registered"} : known[f] \in 0..1
     /\ known.web \in 0..2}
Brand == [known : Knowledge, tld : DOMAIN TldScore, letters : Nat]

\* The raw scores of the pillars, in thousandths of a point.
RawScores == {n \in Nat : n <= 100000}

ASSUME SitesAssumption ==
  /\ Brands \subseteq Knowledge /\ Skips \subseteq SUBSET Checks
  /\ Types \subseteq STRING /\ Topics \subseteq STRING
  /\ \A s \in Sites :
       /\ s.moves \subseteq Parts
       /\ s.tech \in T!Site /\ s.text \in Q!Site
       /\ s.pages \in [{"structure", "schema", "authority"} -> RawScores]
       /\ s.brand \in Brand

\* The optimizer keeps every weight between 5 and 35.
ASSUME WeightsAssumption == Weights \in [Pillars -> Nat \ {0}]

Init ==
  /\ \E s \in Sites :
       /\ moves = s.moves
       /\ tech = s.tech
       /\ text = s.text
       /\ pages = s.pages
       /\ brand = s.brand
  /\ techReport = T!Report(tech, "none")
  /\ textReport = [results |-> << >>, score |-> 0, plan |-> << >>]
  /\ seen = [f \in Known |-> 0]
  /\ score = [raw |-> << >>, total |-> 0]
  /\ audited = FALSE
  /\ last = "none"

-----------------------------------------------------------------------------
(* What happens to the site *)

TechnicalMoves ==
  /\ "technical" \in moves
  /\ T!EditRobots \/ \E f \in T!Fixes(techReport) : T!MakeFix(f)
  /\ UNCHANGED <<moves, textVars, pages, brand, seen, score>>

TextMoves ==
  /\ "text" \in moves
  /\ Q!Change \/ \E reason \in DOMAIN textReport.plan : Q!MakeFix(reason)
  /\ UNCHANGED <<moves, techVars, pages, brand, seen, score>>

BrandMoves ==
  /\ "brand" \in moves
  /\ audited
  /\ \E known \in Brands \ {brand.known} : brand' = [brand EXCEPT !.known = known]
  /\ audited' = FALSE
  /\ last' = "brand"
  /\ UNCHANGED <<moves, techVars, textVars, pages, seen, score>>

\* The site is audited again as it is.
Again ==
  /\ audited
  /\ audited' = FALSE
  /\ last' = "again"
  /\ UNCHANGED <<moves, techVars, textVars, pages, brand, seen, score>>

-----------------------------------------------------------------------------
(* An audit *)

Raw(skipped) ==
  [p \in Pillars \ skipped |->
     CASE p = "technical" -> T!Total(techReport') \div 660
       [] p \in DOMAIN pages -> pages[p]
       [] p = "entity_recognition" -> EntityScore(seen', brand)
       [] p = "retrieval" -> textReport'.score
       [] p = "coverage" -> Q!Coverage(textReport'.results)]

\* The lookups run at once and have nothing in common but the score.  A part
\* that stands still is found as it was.
Audit ==
  /\ ~audited /\ audited' = TRUE
  /\ IF "technical" \in moves THEN T!Audit ELSE UNCHANGED techVars
  /\ IF "text" \in moves \/ textReport.results = << >> THEN Q!Audit ELSE UNCHANGED textVars
  /\ \E failed \in (IF "brand" \in moves THEN Failures ELSE {{}}),
        skipped \in (IF "brand" \in moves THEN Skips ELSE {{}}) :
       /\ seen' = Seen(brand.known, brand, failed)
       /\ \E raw \in {Raw(skipped)} : score' = [raw |-> raw, total |-> Total(Weights, raw)]
  /\ UNCHANGED <<moves, tech, text, pages, brand, last>>

Next == Audit \/ Again \/ TechnicalMoves \/ TextMoves \/ BrandMoves

Spec == Init /\ [][Next]_vars

-----------------------------------------------------------------------------
(* Properties: those of the parts, and those of the score. *)

\* Every score stays in its range.
TypeOK ==
  /\ moves \subseteq Parts
  /\ T!TypeOK /\ Q!TypeOK
  /\ \A p \in DOMAIN score.raw : score.raw[p] \in RawScores

\* What the report calls critical, and every question that is not well
\* answered, comes with a fix; and a question is fully answered when half of its
\* signals were shown, and is whenever the best page of its category shows all.
ProblemsAreAsked ==
  T!CriticalIsAsked /\ Q!ProblemsAreAddressed /\ Q!FullIsShown /\ Q!BestPageAnswers

\* A technical fix that was made is not asked for again, and a site that has
\* none left to make is not limited.
FixesSuffice == T!FixIsMet /\ T!NothingLeft

\* What is praised in a site.
Praise ==
  TechnicalStrengths(techReport.llms, techReport.blocked, T!Checked, techReport.ms)
    \cup (IF "entity_recognition" \in DOMAIN score.raw
          THEN BrandStrengths(seen, brand, score.raw["entity_recognition"]) ELSE {})
    \cup ContentStrengths(score.raw["retrieval"], score.raw["coverage"])

\* What a report says of one thing in several places agrees: the total, which is a
\* mean of the pillars that were evaluated (calculate, "When partial, rescale"); the
\* three accounts of who may crawl the site; the breakdown by category; the praise of
\* the server, of robots.txt, of the article, and what is to be fixed or criticised;
\* the level and the milestone.
ReportAgrees ==
  score.raw # << >> =>
    /\ TypeOK
    /\ \E p \in DOMAIN score.raw : score.raw[p] <= score.total
    /\ \E p \in DOMAIN score.raw : score.raw[p] >= score.total
    /\ T!CrawlerViewsAgree /\ Q!BreakdownAgrees
    /\ {"Excellent response", "Good response"} \cap Praise # {} =>
         techReport.speed > 0 /\ "ttfb" \notin T!Fixes(techReport)
    /\ "All crawlers" \in Praise => "unblock" \notin T!Fixes(techReport)
    /\ "entity_recognition" \in DOMAIN score.raw =>
         LET raw == score.raw["entity_recognition"]
         IN  /\ "No Wikipedia presence" \in BrandIssues(seen, raw) =>
                  Praise \cap {"Strong recognition", "infobox", "Substantial article", "Article"} = {}
             /\ "Strong recognition" \in Praise =>
                  PillarLevel("entity_recognition", raw) = "full" /\ BrandAdvice(seen, raw) = {}
    /\ Milestone(score.total) = 0 <=> Level(score.total) = "optimized"
    /\ Milestone(score.total) # 0 =>
         Level(score.total + PointsNeeded(score.total)) # Level(score.total)

NoWorse(before, after) == \A f \in Known : before[f] <= after[f]

\* A site whose technical fixes are made, of which no less is known and whose
\* checks come through does not lose points, whatever thresholds it crosses.
RisesWithSite ==
  [][~audited /\ audited' /\ last # "none" /\ "text" \notin moves
       /\ last # "edit" /\ NoWorse(seen, seen')
       /\ DOMAIN score'.raw = DOMAIN score.raw
       /\ techReport.trouble = "none" /\ techReport'.trouble = "none"
     => score'.total >= score.total]_vars

=============================================================================
