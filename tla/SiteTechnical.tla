---------------------------- MODULE SiteTechnical ----------------------------
(***************************************************************************)
(* The technical readiness of a site (worker/tasks/technical_check.py,       *)
(* worker/scoring/technical.py, worker/crawler/robots.py, robots_ai.py,      *)
(* performance.py and llms_txt.py, worker/extraction/js_detection.py): what  *)
(* the checks make of robots.txt, the first byte, llms.txt and the home      *)
(* page, also when one of them cannot be fetched, and an owner who makes the *)
(* fixes and edits robots.txt.                                               *)
(*                                                                         *)
(* robots.txt is its lines, and only access to "/" is asked for.  An audit   *)
(* asks for https always, so the scheme is no part of the state.             *)
(* Scores are exact: crawler access is elevenths of a point, the first byte  *)
(* 600ths, llms.txt halves, and the total 660000ths.                         *)
(***************************************************************************)
EXTENDS Integers, Sequences, FiniteSets, SequencesExt, FiniteSetsExt, TLC

CONSTANTS
  Sites,      \* the sites an owner may start from
  EditLines,  \* bound on the lines of a robots.txt that is edited
  MaxLines    \* and on those of one that follows the fix

VARIABLES
  site,      \* robots, ms, llms and home, see Site
  report,    \* what the last audit found
  audited,   \* the report is of the site as it is
  last       \* what happened to the site last

vars == <<site, report, audited, last>>

SearchCrawlers == [Googlebot |-> 35, Bingbot |-> 20, Applebot |-> 5]
AICrawlers ==
  [c \in {"OAI-SearchBot", "GPTBot", "ChatGPT-User", "Claude-SearchBot", "ClaudeBot",
          "Claude-User", "PerplexityBot", "Google-Extended", "CCBot"} |->
     CASE c = "OAI-SearchBot" -> 12 [] c = "Claude-SearchBot" -> 8 [] c = "PerplexityBot" -> 6
       [] c = "GPTBot" -> 5 [] c = "ChatGPT-User" -> 4 [] c \in {"ClaudeBot", "Claude-User"} -> 3
       [] c = "Google-Extended" -> 2 [] c = "CCBot" -> 1]
SocialCrawlers == {"facebookexternalhit", "Facebot", "Twitterbot", "LinkedInBot", "Slackbot"}
Checked == DOMAIN SearchCrawlers \cup DOMAIN AICrawlers \cup SocialCrawlers
Crawlers == Checked \cup {"FindableBot"}

\* A crawler answers to every value that contains its name.
Named(value) ==
  CASE value = "*" -> Crawlers
    [] value = "Googlebot-Image" -> {"Googlebot"}
    [] value = "Applebot-Extended" -> {"Applebot"}
    [] OTHER -> Crawlers \cap {value}

Agents == Crawlers \cup {"*", "", "OtherBot", "Googlebot-Image", "Applebot-Extended"}
Lines ==
  [is : {"agent"}, value : Agents]
    \cup [is : {"allow", "disallow"}, value : {"", "/", "/*", "/part"}]
Homes == [chars : Nat, framework : BOOLEAN, markers : BOOLEAN,  \* more than two markers
          loading : BOOLEAN, noscript : BOOLEAN]
Llms == [exists : BOOLEAN, title : BOOLEAN, described : BOOLEAN, sections : BOOLEAN, links : Nat]
Site == [robots : Seq(Lines), ms : Nat, llms : Llms, home : Homes]

\* What cannot be fetched during an audit.
Troubles == {"none", "robots", "slow", "refused", "llms", "everything"}

Points(cond, n) == IF cond THEN n ELSE 0
Unclipped(x) == x
Clipped(x) == IF x < 0 THEN 0 ELSE IF x > 100 THEN 100 ELSE x

-----------------------------------------------------------------------------
(* robots.txt *)

\* One line after another.  Once a crawler has been named, the rules of all
\* groups below are its own, up to an agent without a name.
Read(state, line, crawler) ==
  IF line.is = "agent"
  THEN [state EXCEPT !.on = line.value # "" /\ (@ \/ crawler \in Named(line.value))]
  ELSE IF state.on /\ line.value # "" THEN [state EXCEPT !.rules = Append(@, line)] ELSE state

Rules(file, crawler) ==
  FoldLeft(LAMBDA state, line : Read(state, line, crawler), [on |-> FALSE, rules |-> <<>>],
           file).rules

\* The rules for one path.
For(rules, path) == {i \in DOMAIN rules : rules[i].value = path}

LastDecides(file, crawler) ==
  LET rules == Rules(file, crawler)
      deciding == IF For(rules, "/*") # {} THEN For(rules, "/*") ELSE For(rules, "/")
  IN  deciding = {} \/ rules[Max(deciding)].is = "allow"
\* Of the rules that match "/", the first of the longest decides.
Allowed(file, crawler) ==
  LET rules == Rules(file, crawler)
      deciding == IF For(rules, "/*") # {} THEN For(rules, "/*") ELSE For(rules, "/")
  IN  deciding = {} \/ rules[Min(deciding)].is = "allow"

Earned(weights, blocked) ==
  MapThenSumSet(LAMBDA c : weights[c], DOMAIN weights \ blocked)

\* 0.6 * 100/60 a point of search and 0.4 * 100/44 a point of direct access.
CrawlerAccess(blocked) == 11 * Earned(SearchCrawlers, blocked) + 10 * Earned(AICrawlers, blocked)

-----------------------------------------------------------------------------
(* The first byte, llms.txt and the home page *)

Speed(ms) ==
  IF ms < 200 THEN 60000
  ELSE IF ms < 500 THEN 60000 - 40 * (ms - 200)
  ELSE IF ms < 1000 THEN 48000 - 36 * (ms - 500)
  ELSE IF ms < 1500 THEN 30000 - 30 * (ms - 1000)
  ELSE Points(ms < 2500, 15000 - 15 * (ms - 1500))

LlmsScore(l) ==
  Points(l.title, 40) + Points(l.described, 40) + Points(l.sections, 30)
    + (IF l.links > 10 THEN 90 ELSE 9 * l.links)

Shell(home) == home.chars < 100
HomeScore(home) ==
  100 - (IF Shell(home) THEN 60 ELSE IF home.chars < 500 THEN 40 ELSE Points(home.chars < 1000, 20))
    - Points(home.framework, 30) - Points(home.loading, 15) + Points(home.noscript, 10)
    - Points(home.markers, 10)
Dependent(home) == HomeScore(home) < 50
Factors(home) ==
  (IF Shell(home) THEN 3 ELSE IF home.chars < 500 THEN 2 ELSE Points(home.chars < 1000, 1))
    + Points(home.framework, 1) + Points(home.loading, 1) + Points(home.markers, 1)

-----------------------------------------------------------------------------
(* An audit: the checks, the score, the critical issues and the fixes.       *)

Down(trouble) == trouble = "everything"

\* Every crawler asks its own rules; a file that cannot be fetched forbids nothing.
Blocked(s, trouble) ==
  IF Down(trouble) \/ trouble = "robots" THEN {} ELSE {c \in Crawlers : ~Allowed(s.robots, c)}

\* A request that times out counts ten seconds, a refused one none.
FirstByte(s, trouble) ==
  CASE Down(trouble) \/ trouble = "refused" -> [ms |-> 0, score |-> 0]
    [] trouble = "slow" -> [ms |-> 10000, score |-> 0]
    [] OTHER -> [ms |-> s.ms, score |-> Speed(s.ms)]

\* What cannot be fetched is missing.
LlmsFound(s, trouble) == s.llms.exists /\ ~Down(trouble) /\ trouble # "llms"

\* The home page is only known when robots.txt lets the crawl begin.
HomeFound(s, trouble) ==
  LET seen == ~Down(trouble) /\ "FindableBot" \notin Blocked(s, trouble)
  IN  [shell |-> seen /\ Shell(s.home), dependent |-> seen /\ Dependent(s.home),
       sure |-> Factors(s.home) >= 3,
       homeScore |-> IF seen THEN Clipped(HomeScore(s.home)) ELSE 100]

Report(s, trouble) ==
  LET blocked == Blocked(s, trouble)
      first == FirstByte(s, trouble)
      llms == LlmsFound(s, trouble)
      home == HomeFound(s, trouble)
  IN  [trouble |-> trouble, search |-> blocked \cap DOMAIN SearchCrawlers,
       blocked |-> blocked, ms |-> first.ms, speed |-> first.score, llms |-> llms,
       access |-> CrawlerAccess(blocked),
       llmsScore |-> IF llms THEN LlmsScore(s.llms) ELSE 0,
       shell |-> home.shell, dependent |-> home.dependent, sure |-> home.sure,
       homeScore |-> home.homeScore]

Total(r) ==
  35 * 600 * r.access + 30 * 11 * r.speed + 15 * 3300 * r.llmsScore + 10 * 6600 * r.homeScore
    + 10 * 660000
Level(r) ==
  IF Total(r) >= 80 * 660000 THEN "full" ELSE IF Total(r) >= 50 * 660000 THEN "partial"
  ELSE "limited"

(* What the report says of the systems behind the crawlers, twice. *)

SearchScore(r) == (100 * Earned(SearchCrawlers, r.search)) \div 60
\* In short, by the share of the search engines that may crawl.
SearchVisibility(r) ==
  IF SearchScore(r) >= 80 THEN "visible" ELSE IF SearchScore(r) >= 50 THEN "limited" ELSE "blocked"
\* At length, crawler by crawler.
Cites(r) ==
  {system \in {"AI Overviews", "Gemini", "Copilot", "ChatGPT", "Claude", "Perplexity"} :
     CASE system \in {"AI Overviews", "Gemini"} -> "Googlebot" \notin r.blocked
       [] system = "Copilot" -> "Bingbot" \notin r.blocked
       [] system = "ChatGPT" -> "OAI-SearchBot" \notin r.blocked
       [] system = "Claude" -> "Claude-SearchBot" \notin r.blocked
       [] system = "Perplexity" -> "PerplexityBot" \notin r.blocked}
AccessLevel(r) ==
  IF r.access >= 880 THEN "full" ELSE IF SearchScore(r) >= 50 THEN "partial" ELSE "limited"

Unrendered(r) == r.shell \/ (r.dependent /\ r.sure)
Criticals(r) ==
  {c \in {"unblock", "ttfb", "ssr"} :
     CASE c = "unblock" -> r.search # {}
       [] c = "ttfb" -> r.ms > 1500
       [] c = "ssr" -> Unrendered(r)}

TooSlow(ms) == ms > 1000

Fixes(r) ==
  {f \in {"unblock", "ttfb", "llms", "ssr"} :
     CASE f = "unblock" -> r.search # {}
       [] f = "ttfb" -> TooSlow(r.ms)
       [] f = "llms" -> ~r.llms
       [] f = "ssr" -> r.dependent}

-----------------------------------------------------------------------------
(* The owner *)

Group(agent, is) == <<[is |-> "agent", value |-> agent], [is |-> is, value |-> "/"]>>
\* The lines that the fix asks for.
Groups(agents) == FlattenSeq([i \in 1..Cardinality(agents) |->
                                Group(SetToSeq(agents)[i], "allow")])

Fixed(s, f) ==
  CASE f = "unblock" -> {[s EXCEPT !.robots = Groups(report.search) \o @]}
    [] f = "ttfb" -> {[s EXCEPT !.ms = ms] : ms \in {150, 450}}
    [] f = "llms" ->
         {[s EXCEPT !.llms = [exists |-> TRUE, title |-> TRUE, described |-> TRUE,
                              sections |-> b, links |-> n]] : b \in BOOLEAN, n \in {1, 12}}
    [] f = "ssr" ->
         {[s EXCEPT !.home = [@ EXCEPT !.chars = 3000, !.loading = b]] :
            b \in {FALSE, s.home.loading}}

\* Sound or not, rules of other crawlers are written below the rules there are.
MoreRules(s) ==
  {[s EXCEPT !.robots = @ \o Group(agent, "disallow")] :
     agent \in {"OtherBot", "GPTBot", "Applebot-Extended"}}
    \cup {[s EXCEPT !.robots = @ \o Groups(report.search)]}

-----------------------------------------------------------------------------

Init ==
  /\ site \in Sites
  /\ report = Report(site, "none")
  /\ audited = TRUE
  /\ last = "none"

MakeFix(f) ==
  /\ audited
  /\ site' \in Fixed(site, f)
  /\ Len(site'.robots) <= MaxLines
  /\ audited' = FALSE
  /\ last' = f
  /\ UNCHANGED report

EditRobots ==
  /\ audited
  /\ site' \in MoreRules(site)
  /\ Len(site'.robots) <= EditLines
  /\ audited' = FALSE
  /\ last' = "edit"
  /\ UNCHANGED report

Audit ==
  /\ ~audited
  /\ \E trouble \in Troubles : report' = Report(site, trouble)
  /\ audited' = TRUE
  /\ UNCHANGED <<site, last>>

\* The site is audited again as it is.
Again ==
  /\ audited
  /\ audited' = FALSE
  /\ last' = "again"
  /\ UNCHANGED <<site, report>>

Next == Audit \/ Again \/ EditRobots \/ \E f \in Fixes(report) : MakeFix(f)

Spec == Init /\ [][Next]_vars

-----------------------------------------------------------------------------
(* Properties *)

\* Every check scores between 0 and 100, in its unit, and so does the total.
TypeOK ==
  /\ {report.access, report.speed, report.llmsScore, report.homeScore, Total(report)} \subseteq Nat
  /\ report.access <= 1100 /\ report.speed <= 60000
  /\ report.llmsScore <= 200 /\ report.homeScore <= 100
  /\ Total(report) <= 66000000

\* A critical issue comes with a fix, but for the empty page whose fallback
\* text lifts it to 50 points, of which nothing is asked.
CriticalIsAsked ==
  \A c \in Criticals(report) : c \in Fixes(report) \/ (c = "ssr" /\ site.home.noscript)

\* The three accounts of who can see the site, by share, by crawler and by
\* level, agree on the search engines, which weigh too little to make it up
\* among themselves.
CrawlerViewsAgree ==
  /\ SearchVisibility(report) = "visible" <=>
       {"AI Overviews", "Gemini", "Copilot"} \subseteq Cites(report)
  /\ AccessLevel(report) = "limited" <=> "Gemini" \notin Cites(report)

\* Where everything could be fetched and nothing is left to fix, the site is
\* not limited, whatever crawlers of AI systems it blocks.
NothingLeft ==
  report.trouble = "none" /\ Fixes(report) = {} => Level(report) # "limited"

\* A fix that was made is not asked for again, unless a pattern of robots.txt
\* is longer than the rule the fix writes, or the page keeps all the marks of
\* client side rendering beside its content.
FixIsMet ==
  audited /\ report.trouble = "none" =>
    \/ last \notin Fixes(report)
    \/ last = "unblock" /\ \E i \in DOMAIN site.robots : site.robots[i].value = "/*"
    \/ last = "ssr" /\ site.home.framework /\ site.home.markers /\ site.home.loading

=============================================================================
