----------------------------- MODULE MCSiteContent -----------------------------
(* Small instances of Crawl, ContentStore and CitationContext for TLC: how the   *)
(* pages of a site are found, how their text is stored, and what they make of    *)
(* the site.  The parts share no state: each is checked while the others rest.  *)
EXTENDS Crawl, ContentStore, CitationContext

CONSTANTS a1, a2, MaxWords, MaxRepeated, u1, u2, u3, u4, u5, x

FiveUrls == {u1, u2, u3, u4, u5}
Others == {x}
Usual == <<u2>>
\* No link; two; a repeated one; a way back and one outside.
SomeLinks == {<<>>, <<u4, u3>>, <<u5, u4, u5>>, <<x, u1, u5>>, <<u3, u2>>}
SomeSitemaps == {<<>>, <<u5, u2, u5>>}
SomeRules == {{}, {u3}}

-----------------------------------------------------------------------------

\* How a word is joined to the one before it: inside a sentence, at the start of one,
\* as an item on a new line, after an empty line, and as a heading.
Inside == [gap |-> "space", starts |-> FALSE, mark |-> "none"]
Shapes ==
  {Inside,
   [gap |-> "space", starts |-> TRUE, mark |-> "none"],
   [gap |-> "line", starts |-> FALSE, mark |-> "item"],
   [gap |-> "blank", starts |-> TRUE, mark |-> "none"],
   [gap |-> "blank", starts |-> TRUE, mark |-> "heading"]}

Word(shape, sym) ==
  [sym |-> sym, gap |-> shape.gap, starts |-> shape.starts, mark |-> shape.mark]

\* Texts whose words are all different, and shorter ones in which all are the same.
AnyText ==
  {[i \in 1..MaxWords |-> Word(shapes[i], i)] :
     shapes \in {f \in [1..MaxWords -> Shapes] : f[1].mark # "none"}}
    \cup {[i \in 1..MaxRepeated |-> Word(shapes[i], 1)] :
           shapes \in {f \in [1..MaxRepeated -> Shapes] : f[1].mark # "none"}}

\* A page of one chunk.
Short(sym) == <<Word(Inside, sym)>>

\* Any text in one audit; or two audits that find some of three pages in some order.
Orders == {<<1, 2>>, <<2, 1>>, <<1, 2, 3>>, <<3, 1, 2>>, <<2, 2, 1>>}
SomeStarts ==
  {[a \in {a1, a2} |-> <<>>]}
    \cup {[a \in {a1, a2} |-> IF a = a1 THEN <<text>> ELSE <<>>] : text \in AnyText}
    \cup {[a \in {a1, a2} |->
             LET order == IF a = a1 THEN p ELSE q IN [i \in DOMAIN order |-> Short(order[i])]] :
            p, q \in Orders}

-----------------------------------------------------------------------------
(* A page without a text, one that says only what others say, and one that says       *)
(* something of its own.                                                       *)

Silent(path) ==
  [path |-> path, html |-> "unknown", silent |-> TRUE, own |-> FALSE, firsts |-> 0, generic |-> 0,
   types |-> {}, headings |-> <<>>]
Poor(path) == [Silent(path) EXCEPT !.silent = FALSE, !.generic = 4]
Rich(path) == [Silent(path) EXCEPT !.silent = FALSE, !.own = TRUE, !.firsts = 4]

\* What pages make an audit ask: an article alone asks what does not name the brand.
Article == <<Asks(<<"topic", 0>>, "identity", FALSE), Asks(<<"author", 0>>, "trust", FALSE)>>
HowTo == <<Asks(<<"use", 0>>, "offerings", TRUE), Asks(<<"steps", 0>>, "offerings", TRUE)>>
Support == Asks(<<"support", 0>>, "contact", TRUE)

SomePages ==
  {Poor({}), [Rich({"docs"}) EXCEPT !.types = {HowTo}],
   [Poor({"blog"}) EXCEPT !.types = {Article}], Poor({"blog", "vs"}),
   [Poor({"products"}) EXCEPT !.types = {HowTo}],
   [Rich({"pricing"}) EXCEPT !.headings = <<Support, Support>>], Silent({"api"}),
   Poor({"press"}), Rich({"case-studies"}),
   [Rich({"p"}) EXCEPT !.html = "product"]}
SomeDomains ==
  {"unknown", "documentation", "saas_marketing", "news_media", "ugc_platform", "developer_tools"}

-----------------------------------------------------------------------------
NoAudit == [a \in Audits |-> <<>>]
NoDomain == [known |-> "unknown", docs |-> FALSE, named |-> FALSE]
Crawls == found = NoAudit /\ domain = NoDomain /\ site = <<>>

MCInit ==
  /\ Init
  /\ CrawlInit
  /\ IF found = NoAudit THEN SiteInit
     ELSE domain = NoDomain /\ site = <<>> /\ audit = Audited("mixed", Universal)
MCNext ==
  \/ found # NoAudit /\ Next /\ UNCHANGED <<siteVars, crawlVars>>
  \/ found = NoAudit /\ audits + invalidations = 0 /\ SiteNext /\ UNCHANGED <<vars, crawlVars>>
  \/ Crawls /\ CrawlNext /\ UNCHANGED <<vars, siteVars>>
MCSpec == MCInit /\ [][MCNext]_<<vars, siteVars, crawlVars>> /\ CrawlFairness
=============================================================================
