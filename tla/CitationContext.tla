---------------------------- MODULE CitationContext ----------------------------
(***************************************************************************)
(* What kind of site a site is, and how likely an AI is to cite it            *)
(* (worker/extraction/page_type.py, site_type.py, source_primacy.py,            *)
(* content_uniqueness.py; worker/scoring/citation_context.py,                   *)
(* competitive_density.py).  The report of an audit tells the kind, the         *)
(* likelihood and the primacy; the samples it learns from keep the primacy         *)
(* again, the uniqueness of the text and the competition.                      *)
(*                                                                         *)
(* A page is a record:                                                       *)
(*   path   the directories of its URL, {} for the homepage                   *)
(*   html   the type its HTML looks like, or "unknown"                        *)
(*   silent no text was read from it                                         *)
(*   own    its text has prices, code or research of its own                    *)
(*   firsts how many kinds of marks it has: byline, date, case, team             *)
(*   generic  how many phrases of advertisement                               *)
(*   types  its schema types, each the sequence of the questions it gives rise to  *)
(*   headings  the questions of its headings, which are all of one level           *)
(* The extractor leaves a text without lines, so that a page is one paragraph;   *)
(* every text has the same number of sentences.                               *)
(***************************************************************************)
EXTENDS Integers, Sequences, FiniteSets, SequencesExt, FiniteSetsExt, Functions

CONSTANTS
  Pages,          \* the pages a site may have
  Domains,        \* what the domain may be known for: site types, or "unknown"
  Sentences,      \* of a text
  MaxSitePages

ASSUME SizesOfSites == MaxSitePages \in 1..4 /\ Sentences \in Nat \ {0}

VARIABLES
  domain,         \* known (a site type or "unknown"), docs (docs.example.com), named (like the brand)
  site,           \* the pages of the last crawl with their types, in its order
  audit           \* what the audit of them told and learned

siteVars == <<domain, site, audit>>

Having(P(_)) == Cardinality({i \in DOMAIN site : P(site[i])})

-----------------------------------------------------------------------------
(* The type of a page: the first pattern its path meets, else its HTML *)

PathPatterns ==
  <<[type |-> "about", dirs |-> {"about", "company", "team"}],
    [type |-> "blog", dirs |-> {"blog", "posts", "articles", "news"}],
    [type |-> "product", dirs |-> {"products", "solutions", "features"}],
    [type |-> "service", dirs |-> {"services"}],
    [type |-> "pricing", dirs |-> {"pricing", "plans"}],
    [type |-> "contact", dirs |-> {"contact", "support", "help"}],
    [type |-> "faq", dirs |-> {"faq", "questions"}],
    [type |-> "documentation", dirs |-> {"docs", "documentation", "guide", "tutorial"}],
    [type |-> "legal", dirs |-> {"privacy", "terms", "legal", "cookie"}]>>

PageType(page) ==
  LET met == {i \in DOMAIN PathPatterns : PathPatterns[i].dirs \cap page.path # {}}
  IN  IF page.path = {} THEN "homepage"
      ELSE IF met # {} THEN PathPatterns[Min(met)].type
      ELSE page.html

OfType(types) == Having(LAMBDA page : page.type \in types)

-----------------------------------------------------------------------------
(* The type of the site.  Points are counted in halves. *)

SiteTypes ==
  <<"documentation", "reference", "developer_tools", "saas_marketing", "news_media",
    "ugc_platform", "ecommerce", "blog", "mixed">>

\* At least so many pages of a hundred.
Share(count, pct) == 100 * count >= pct * Len(site)

DomainPoints == [type \in Range(SiteTypes) |-> IF domain.known = type THEN 6 ELSE 0]

\* The types the pages speak for.
Majority(count) == IF Share(count, 50) THEN 4 ELSE IF Share(count, 30) THEN 2 ELSE 0
PagePoints ==
  LET docs == OfType({"documentation"})
      products == OfType({"product", "service"})
      priced == OfType({"pricing"}) > 0
      asked == OfType({"faq"}) > 0
  IN  [documentation |-> Majority(docs),
       blog |-> Majority(OfType({"blog"})),
       saas_marketing |->
         IF products > 0 /\ priced THEN 3 ELSE IF products > 0 \/ (priced /\ asked) THEN 2 ELSE 0,
       ecommerce |-> IF Share(products, 40) /\ docs = 0 THEN 3 ELSE 0]

\* The types that the pages under one of some directories speak for.
Under(dirs) == Having(LAMBDA page : page.path \cap dirs # {})
Often(dirs, pct, points) == IF Share(Under(dirs), pct) THEN points ELSE 0
UrlPoints ==
  [documentation |-> Often({"docs", "guide", "tutorial", "reference", "api"}, 30, 2),
   developer_tools |-> Often({"api", "sdk", "cli"}, 20, 1),
   blog |-> Often({"blog", "posts", "articles"}, 30, 1),
   saas_marketing |-> Often({"products", "solutions", "features"}, 20, 1),
   news_media |-> Often({"news", "press", "media"}, 30, 1)]

At(points, type) == IF type \in DOMAIN points THEN points[type] ELSE 0
Best(ofDomain, ofPages, ofUrls) ==
  LET points(i) ==
        At(ofDomain, SiteTypes[i]) + At(ofPages, SiteTypes[i]) + At(ofUrls, SiteTypes[i])
      best == Min({i \in DOMAIN SiteTypes : \A j \in DOMAIN SiteTypes : points(j) <= points(i)})
  IN  IF points(best) < 1 THEN "mixed" ELSE SiteTypes[best]

\* The first type with the most points, if it has half a point.
SiteType ==
  IF site = <<>> THEN Best(DomainPoints, <<>>, <<>>) ELSE Best(DomainPoints, PagePoints, UrlPoints)

-----------------------------------------------------------------------------
(* The likelihood of a citation, in hundredths *)

\* Of the site, and of a question of a category to it.
CitationRate ==
  [documentation |-> 95, reference |-> 85, developer_tools |-> 80, saas_marketing |-> 45,
   news_media |-> 10, ugc_platform |-> 20, ecommerce |-> 35, blog |-> 50, mixed |-> 50]

Categories == <<"identity", "differentiation", "expertise", "comparison", "offerings">>
CategoryRates ==
  [documentation |-> <<80, 95, 95, 70, 90>>, reference |-> <<75, 90, 90, 65, 80>>,
   developer_tools |-> <<70, 85, 85, 60, 75>>, saas_marketing |-> <<30, 50, 55, 25, 45>>,
   news_media |-> <<5, 10, 15, 5, 5>>, ugc_platform |-> <<10, 15, 25, 10, 15>>,
   ecommerce |-> <<20, 30, 35, 20, 40>>, blog |-> <<40, 55, 60, 35, 45>>,
   mixed |-> <<40, 50, 55, 35, 45>>]

Likelihood(rate) == IF rate >= 70 THEN "high" ELSE IF rate >= 40 THEN "moderate" ELSE "low"

\* The first category with the highest rate, and the first one with the lowest.
BestCategory(type) ==
  Min({i \in DOMAIN Categories :
         CategoryRates[type][i] = Max(Range(CategoryRates[type]))})
WorstCategory(type) ==
  Min({i \in DOMAIN Categories :
         CategoryRates[type][i] = Min(Range(CategoryRates[type]))})

\* What the report says of a site of a type.
Context(type) ==
  [type |-> type,
   likelihood |-> Likelihood(CitationRate[type]),
   predictions |-> [i \in DOMAIN Categories |-> Likelihood(CategoryRates[type][i])],
   best |-> BestCategory(type), worst |-> WorstCategory(type),
   advice |-> IF type = "saas_marketing" THEN {"add a docs section"} ELSE {}]

-----------------------------------------------------------------------------
(* Whether the site is the source of what it says.  A signal is between -Whole and  *)
(* Whole, which the number of pages divides.                                   *)

Whole == 240
Clamp(lo, x, hi) == Max({lo, Min({x, hi})})
Signal(x) == Clamp(-Whole, x, Whole)

OfSiteType ==
  [documentation |-> 192, reference |-> 168, developer_tools |-> 120, saas_marketing |-> -48,
   news_media |-> -144, ugc_platform |-> -72, ecommerce |-> 24, blog |-> -24, mixed |-> 0]

\* Mutant: the pages that speak for the site speak against it.
NetSwapped(for, against) ==
  IF site = <<>> THEN 0 ELSE Signal((2 * Whole * (Under(against) - Under(for))) \div Len(site))
\* Twice the share of some pages less that of others.
Net(for, against) ==
  IF site = <<>> THEN 0 ELSE Signal((2 * Whole * (Under(for) - Under(against))) \div Len(site))

OfUrls ==
  Net({"docs", "documentation", "api", "reference", "sdk", "changelog", "status"},
      {"blog", "news", "press", "articles", "posts", "reviews", "comparison", "vs",
       "alternatives"})
OfSelfReference ==
  Net({"docs", "api", "pricing", "features", "changelog", "download"},
      {"alternatives", "vs", "reviews", "comparison"})
OfDomain(type) ==
  Signal((IF domain.docs THEN 120 ELSE 0)
         + (IF type \in {"documentation", "developer_tools"} THEN 72 ELSE 0)
         + (IF domain.named THEN 72 ELSE 0)
         - (IF type \in {"news_media", "ugc_platform"} THEN 96 ELSE 0))

SignalsOf(type) == <<OfSiteType[type], OfUrls, OfDomain(type), OfSelfReference>>

\* 3 for a primary source, 2 for an authority, 1 for a derivative one.
Primacy(signals) ==
  LET raised == SumFunction(signals) + Len(signals) * Whole
      atLeast(pct) == 100 * raised >= pct * 2 * Len(signals) * Whole
  IN  IF atLeast(65) THEN 3 ELSE IF atLeast(40) THEN 2 ELSE 1

\* The report reads no text.
PrimacyTold(type) == Primacy(SignalsOf(type))

-----------------------------------------------------------------------------
(* What the samples of the run keep *)

\* The texts, without empty ones, next to the URLs of the first pages of the crawl: a
\* page without a text shifts those after it.
Texts == SelectSeq(site, LAMBDA page : ~page.silent)
UrlsOfTexts == SubSeq(site, 1, Len(Texts))

\* The three parts of the uniqueness, each in hundredths of its weight (40, 25, 35),
\* on the scale of the signals for 50 points.
OwnData(texts) == (192 * Cardinality({i \in DOMAIN texts : texts[i].own})) \div Len(texts)
UrlMarks(pages) ==
  Cardinality({i \in DOMAIN pages : "case-studies" \in pages[i].path})
    + Cardinality({i \in DOMAIN pages : pages[i].path \cap {"research", "report"} # {}})
FirstParty(texts, pages) ==
  6 * Min({20, FoldLeft(LAMBDA n, text : n + text.firsts, UrlMarks(pages), texts)})
NotGeneric(texts) ==
  168 - Min({168, (168 * FoldLeft(LAMBDA n, text : n + text.generic, 0, texts))
                    \div (Len(texts) * Sentences)})

Uniqueness == OwnData(Texts) + FirstParty(Texts, UrlsOfTexts) + NotGeneric(Texts)

\* A site without texts has no signal of them.
PrimacyLearned(type) ==
  Primacy(SignalsOf(type)
          \o IF Texts = <<>> THEN <<>> ELSE <<Signal(Uniqueness - Whole)>>)

(* The questions of the audit: those of every site, which name the brand, the first three *)
(* of the schema types, in the order they happen to have, and the first two of the headings. *)

Asks(id, category, own) == [id |-> id, category |-> category, own |-> own]
UniversalCategories ==
  <<"identity", "identity", "identity", "offerings", "offerings", "offerings", "offerings",
    "contact", "contact", "trust", "trust", "trust",
    "differentiation", "differentiation", "differentiation">>
Universal ==
  {Asks(<<"UQ", i>>, UniversalCategories[i], TRUE) : i \in DOMAIN UniversalCategories}

First(questions, n) == ToSet(SubSeq(questions, 1, Min({n, Len(questions)})))
Asked(types) ==
  Universal \cup First(FlattenSeq(types), 3)
    \cup First(FlattenSeq([i \in DOMAIN site |-> site[i].headings]), 2)

CategoryDensity ==
  [identity |-> <<5, 85>>, differentiation |-> <<30, 70>>, offerings |-> <<15, 75>>,
   contact |-> <<5, 50>>, trust |-> <<20, 65>>]
Competition ==
  [documentation |-> 15, reference |-> 25, developer_tools |-> 30, blog |-> 65,
   saas_marketing |-> 75, news_media |-> 85, ugc_platform |-> 70, ecommerce |-> 80, mixed |-> 55]

\* The mean competition of the questions, in tenths.
Density(type, asked) ==
  MapThenSumSet(LAMBDA q : 6 * CategoryDensity[q.category][IF q.own THEN 1 ELSE 2]
                             + 4 * Competition[type], asked)
    \div Cardinality(asked)

-----------------------------------------------------------------------------
(* A site that grows by a page, and is audited again *)

Audited(type, asked) ==
  [pages |-> Len(site), context |-> Context(type), rate |-> CitationRate[type],
   told |-> PrimacyTold(type), learned |-> PrimacyLearned(type),
   asked |-> asked, density |-> Density(type, asked)]

SiteInit ==
  /\ domain \in [known : Domains, docs : BOOLEAN, named : BOOLEAN]
  /\ domain.docs => domain.known = "documentation"
  /\ site = <<>>
  /\ audit = Audited(SiteType, Universal)

AddPage(page) ==
  /\ audit.pages = Len(site) /\ Len(site) < MaxSitePages
  /\ site' = Append(site, ("type" :> PageType(page)) @@ page)
  /\ UNCHANGED <<domain, audit>>

Audit ==
  /\ audit.pages < Len(site)
  /\ \E type \in {SiteType}, types \in SetToSeqs(UNION {site[i].types : i \in DOMAIN site}) :
       audit' = Audited(type, Asked(types))
  /\ UNCHANGED <<domain, site>>

SiteNext == Audit \/ \E page \in Pages : AddPage(page)

-----------------------------------------------------------------------------
(* Properties *)

\* Whoever follows the advice for a marketing site, to add pages of documentation with
\* something of its own to tell, is told no lower rate, is no less of a source to the
\* report and to the samples, and has no more competition, unless the audit asks
\* other questions than it did before.
DocsPay ==
  [][("add a docs section" \in audit.context.advice
      /\ site # <<>> /\ Last(site).path = {"docs"} /\ Last(site).own)
       => /\ audit'.rate >= audit.rate
          /\ audit'.told >= audit.told
          /\ audit'.learned >= audit.learned
          /\ audit'.asked = audit.asked => audit'.density <= audit.density]_audit

=============================================================================
