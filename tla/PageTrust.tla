------------------------------ MODULE PageTrust ------------------------------
(***************************************************************************)
(* The structured data and the authority signals of one page, the two        *)
(* pillars they give and the fixes that come with them                       *)
(* (worker/extraction/schema.py and authority.py, worker/scoring/schema.py   *)
(* and authority.py, worker/tasks/schema_check.py and authority_check.py),   *)
(* an owner who makes the fixes one by one, and dates that age meanwhile.    *)
(*                                                                         *)
(* A page is what the analyzers find in its HTML.  Scores are exact: pillars *)
(* are hundredths of a point, the score of the schema analysis is 120ths.    *)
(***************************************************************************)
EXTENDS Integers, Sequences, FiniteSets, SequencesExt, FiniteSetsExt, Functions

CONSTANT Pages   \* the pages an owner may start from

VARIABLES
  page,      \* the page as published
  analysis,  \* what the last audit found
  audited,   \* the analysis is of the page as it is
  last       \* what happened to the page last

vars == <<page, analysis, audited, last>>

\* How old a date is: less than 30, 90 or 180 days, or more.
Ages == {"fresh", "recent", "stale", "very_stale"}
Dates == Ages \cup {"none", "unreadable"}
Articles == {"Article", "NewsArticle", "BlogPosting"}
Types == Articles \cup {"FAQPage", "HowTo", "Product", "Organization", "LocalBusiness",
                        "Person", "WebPage", "Event"}
Required ==
  [Article |-> {"headline", "author", "datePublished"},
   NewsArticle |-> {"headline", "author", "datePublished", "dateModified"},
   BlogPosting |-> {"headline", "author", "datePublished"},
   FAQPage |-> {"mainEntity"}, HowTo |-> {"name", "step"}, Product |-> {"name", "description"},
   Organization |-> {"name", "url"}, Person |-> {"name"}]
Recommended ==
  [Article |-> {"dateModified", "description", "image", "publisher"},
   NewsArticle |-> {"description", "image", "publisher"},
   BlogPosting |-> {"dateModified", "description", "image"},
   HowTo |-> {"description", "totalTime", "image"},
   Product |-> {"image", "offers", "brand", "review"},
   Organization |-> {"logo", "description", "contactPoint"}]
Worth ==
  [FAQPage |-> 4, Article |-> 3, NewsArticle |-> 3, BlogPosting |-> 2, HowTo |-> 2, Product |-> 2,
   Organization |-> 2, LocalBusiness |-> 2, Person |-> 1, WebPage |-> 1]
FieldsIn(table, type) == IF type \in DOMAIN table THEN table[type] ELSE {}

\* An author with credentials is an object with a job title; empty holds the
\* fields that are there with an empty text.
Schema ==
  [type : Types, fields : SUBSET STRING, empty : SUBSET {"name", "headline", "description"},
   author : {"none", "name", "credentials"}, modified : Dates, qas : Nat]
Page ==
  [schemas : Seq(Schema),
   byline : {"none", "text", "element"}, linked : BOOLEAN, photo : BOOLEAN, social : BOOLEAN,
   areaText : {"short", "long"},   \* the text of all author areas, against 50 characters
   inArea : Nat, inBody : Nat,     \* credentials named there, and elsewhere
   bio : BOOLEAN, areaPhoto : BOOLEAN,
   citations : Nat, authoritative : Nat, data : Nat,
   date : Dates]                   \* the newest visible date

Points(cond, n) == IF cond THEN n ELSE 0
Least(x, y) == IF x < y THEN x ELSE y
Unclipped(x) == x
Clipped(x) == IF x > 0 THEN x ELSE 0
OverSchemas(p, Op(_)) ==
  LET sum[n \in 0..Len(p.schemas)] == IF n = 0 THEN 0 ELSE sum[n - 1] + Op(p.schemas[n])
  IN  sum[Len(p.schemas)]
Some(p, types) == \E i \in DOMAIN p.schemas : p.schemas[i].type \in types
Where(p, Test(_)) == {i \in DOMAIN p.schemas : Test(p.schemas[i])}

-----------------------------------------------------------------------------
(* The structured data *)

Has(s, f) ==
  CASE f = "author" -> s.author # "none"
    [] f = "dateModified" -> s.modified # "none"
    [] f = "mainEntity" -> s.qas > 0
    [] OTHER -> f \in s.fields
Among(s, fields) == Cardinality({f \in fields : Has(s, f)})
Missing(s) == {f \in FieldsIn(Required, s.type) : ~Has(s, f)}

\* In twelfths of a percent; 70 for the required fields, 30 for the others.
Completeness(s) ==
  LET req == FieldsIn(Required, s.type)
      rec == FieldsIn(Recommended, s.type)
  IN  IF req \cup rec = {}
      THEN IF s.fields # {} \/ s.author # "none" \/ s.modified # "none" THEN 600 ELSE 300
      ELSE (IF req = {} THEN 840 ELSE (840 * Among(s, req)) \div Cardinality(req))
             + (IF rec = {} THEN 180 ELSE (360 * Among(s, rec)) \div Cardinality(rec))

FaqCount(p) == OverSchemas(p, LAMBDA s : Points(s.type = "FAQPage", s.qas))
Errors(p) == OverSchemas(p, LAMBDA s : Cardinality(Missing(s)) + Cardinality(s.empty))

\* The last modification date that can be read decides, the first author too.
Freshness(p) ==
  LET dated == Where(p, LAMBDA s : s.modified \in Ages)
  IN  IF dated = {} THEN "unknown" ELSE p.schemas[Max(dated)].modified
Author(p) ==
  LET signed == Where(p, LAMBDA s : s.author # "none")
  IN  IF signed = {} THEN "none" ELSE p.schemas[Min(signed)].author

SchemaScore(p) ==
  LET a == Author(p)
      f == Freshness(p)
      n == FaqCount(p)
  IN  Clipped(Least(12000,
        Points(p.schemas # <<>>, 1200)
          + OverSchemas(p, LAMBDA s :
              IF s.type \in DOMAIN Worth
              THEN Least(1800, Worth[s.type] * Completeness(s)) ELSE 0)
          + Points(Some(p, {"FAQPage"}), 1800 + Points(n >= 3, 600) + Points(n >= 5, 600))
          + Points(Some(p, Articles) /\ a # "none", 1200)
          + Points(Where(p, LAMBDA s : s.modified # "none") # {},
                   600 + Points(f = "fresh", 600) + Points(f = "recent", 360))
          + Points(Some(p, {"Organization", "LocalBusiness"}), 600)
          + Points(Some(p, {"HowTo"}), 600)
          - 120 * Least(20, 3 * Errors(p))))

SchemaAnalysis(p) ==
  [total |-> Len(p.schemas), errors |-> Errors(p),
   faq |-> Some(p, {"FAQPage"}), qas |-> FaqCount(p),
   article |-> Some(p, Articles), author |-> Author(p),
   published |-> Where(p, LAMBDA s : "datePublished" \in s.fields) # {},
   modified |-> Where(p, LAMBDA s : s.modified # "none") # {}, freshness |-> Freshness(p),
   organization |-> Some(p, {"Organization", "LocalBusiness"}), howTo |-> Some(p, {"HowTo"}),
   score |-> SchemaScore(p)]

DateScore(level, oldest) ==
  CASE level = "fresh" -> 100 [] level = "recent" -> 80 [] level = "stale" -> 40
    [] OTHER -> oldest

ValidationScore(a) == IF a.total = 0 THEN 0 ELSE Clipped(100 - 20 * a.errors)

SchemaScores(a) ==
  [faq |-> IF ~a.faq THEN 0 ELSE IF a.qas >= 5 THEN 100 ELSE IF a.qas >= 3 THEN 80
           ELSE IF a.qas >= 1 THEN 50 ELSE 25,
   article |-> IF ~a.article THEN 0 ELSE IF a.author = "credentials" THEN 100
               ELSE IF a.author = "name" THEN 70 ELSE 30,
   date |-> IF a.modified THEN DateScore(a.freshness, 20) ELSE Points(a.published, 30),
   organization |-> Points(a.organization, 100),
   howTo |-> IF a.howTo THEN 100 ELSE 50,
   validation |-> ValidationScore(a)]

SchemaPillar(a) ==
  LET s == SchemaScores(a)
  IN  27 * s.faq + 20 * s.article + 20 * s.date + 13 * s.organization + 13 * s.howTo
        + 7 * s.validation

-----------------------------------------------------------------------------
(* Authority *)

\* Credentials are looked for in the author areas, and in the body only when
\* these say little.
Credentials(p) == Least(10, IF p.areaText = "long" THEN p.inArea ELSE p.inBody + p.inArea)

\* The first author decides; one of the markup comes before one of the text, and
\* only the markup can be linked.  A photo of an author area is his.
Byline(p) ==
  LET markup == p.byline = "element"
  IN  [author |-> p.byline # "none", linked |-> markup /\ p.linked,
       photo |-> (markup /\ p.photo) \/ (p.byline # "none" /\ p.areaPhoto),
       social |-> markup /\ p.social]

\* An author with credentials in the structured data of an article is a person.
AuthorSchema(p) ==
  LET signed == Where(p, LAMBDA s : s.type \in Articles /\ s.author # "none")
  IN  [person |-> \/ Some(p, {"Person"})
                  \/ \E i \in signed : p.schemas[i].author = "credentials",
       inArticle |-> signed # {},
       profiles |-> Where(p, LAMBDA s : s.type = "Person" /\ "sameAs" \in s.fields) # {}]

\* The newest date that can be read.
VisibleFreshness(p) == IF p.date \in Ages THEN p.date ELSE "unknown"

TrustScore(p) ==
  LET b == Byline(p)
      s == AuthorSchema(p)
  IN  Points(b.author, 12 + Points(b.linked, 4) + Points(b.photo, 4))
        + Points(s.person, 8) + Points(s.inArticle, 4) + Points(s.profiles, 3)
        + Points(Credentials(p) > 0, 8 + Points(p.bio, 4) + Points(Credentials(p) >= 2, 3))
        + (IF p.authoritative >= 3 THEN 20
           ELSE IF p.authoritative >= 1 THEN 10 + 3 * p.authoritative
           ELSE Points(p.citations >= 5, 5))
        + Points(p.data > 0, 10 + Points(p.data >= 3, 5))
        + Points(p.date = "fresh", 15) + Points(p.date = "recent", 10)
        + Points(p.date = "stale", 3)

TrustAnalysis(p) ==
  Byline(p) @@
  [credentials |-> Credentials(p), bio |-> p.bio, areaPhoto |-> p.areaPhoto,
   citations |-> p.citations, authoritative |-> p.authoritative, data |-> p.data,
   dated |-> p.date # "none", freshness |-> VisibleFreshness(p), score |-> TrustScore(p)]

CitationScore(a) ==
  IF a.citations = 0 THEN 0 ELSE IF a.authoritative >= 5 THEN 100
  ELSE IF a.authoritative >= 3 THEN 80 ELSE IF a.authoritative >= 1 THEN 50 ELSE 15

TrustScores(a) ==
  [attribution |-> Points(a.author, 50 + Points(a.linked, 20) + Points(a.photo, 15)
                                       + Points(a.social, 15)),
   credentials |-> Points(a.author, Points(a.credentials > 0, 40) + Points(a.bio, 30)
                                      + Points(a.areaPhoto, 20) + Points(a.credentials >= 3, 10)),
   citations |-> CitationScore(a),
   date |-> Points(a.dated, DateScore(a.freshness, 15)),
   data |-> IF a.data >= 5 THEN 100 ELSE IF a.data >= 3 THEN 85
            ELSE IF a.data >= 1 THEN 70 ELSE 40]

TrustPillar(a) ==
  LET s == TrustScores(a)
  IN  27 * s.attribution + 20 * s.credentials + 20 * s.citations + 20 * s.date + 13 * s.data

-----------------------------------------------------------------------------
(* The fixes.  The recommendations of the scores are among them. *)

Few(qas) == qas < 3
Unlinked(a) == a.author /\ ~a.linked
Old(level) == level \in {"stale", "very_stale"}

SchemaFixes(a) ==
  {f \in {"add_faq", "expand_faq", "add_article", "add_author", "add_modified", "update_modified",
          "add_organization", "validation"} :
     CASE f = "add_faq" -> ~a.faq
       [] f = "expand_faq" -> a.faq /\ Few(a.qas)
       [] f = "add_article" -> ~a.article
       [] f = "add_author" -> a.article /\ a.author = "none"
       [] f = "add_modified" -> ~a.modified
       [] f = "update_modified" -> a.modified /\ Old(a.freshness)
       [] f = "add_organization" -> ~a.organization
       [] f = "validation" -> a.errors > 0}

TrustFixes(a) ==
  {f \in {"add_byline", "link", "add_credentials", "add_photo", "cite", "add_date", "update_date",
          "add_data"} :
     CASE f = "add_byline" -> ~a.author
       [] f = "link" -> Unlinked(a)
       [] f = "add_credentials" -> a.author /\ a.credentials = 0
       [] f = "add_photo" -> a.author /\ ~a.areaPhoto
       [] f = "cite" -> a.authoritative < 2
       [] f = "add_date" -> ~a.dated
       [] f = "update_date" -> a.dated /\ Old(a.freshness)
       [] f = "add_data" -> a.data = 0}

Fixes(a) == SchemaFixes(a.schema) \cup TrustFixes(a.trust)

-----------------------------------------------------------------------------
(* What making a fix makes of the page. *)

New(type, fields) ==
  [type |-> type, fields |-> fields, empty |-> {}, author |-> "none", modified |-> "none",
   qas |-> 0]
\* The scaffold for an article; its dates are those of the content.
ArticleScaffold(date) ==
  [New("Article", {"headline", "datePublished", "publisher", "description", "image"})
     EXCEPT !.author = "credentials", !.modified = date]
Add(p, s) == [p EXCEPT !.schemas = Append(@, s)]
Change(p, Test(_), Op(_)) ==
  [p EXCEPT !.schemas = [i \in DOMAIN @ |-> IF Test(@[i]) THEN Op(@[i]) ELSE @[i]]]

\* The fields of a schema filled in that are missing or empty.
Filled(s) ==
  [s EXCEPT !.fields = (@ \cup Missing(s) \cup s.empty) \ {"author", "dateModified", "mainEntity"},
            !.empty = {},
            !.author = IF "author" \in Missing(s) THEN "name" ELSE @,
            !.modified = IF "dateModified" \in Missing(s) THEN "fresh" ELSE @,
            !.qas = IF "mainEntity" \in Missing(s) THEN 3 ELSE @]

IsFaq(s) == s.type = "FAQPage"
IsArticle(s) == s.type \in Articles

Fixed(p, f) ==
  CASE f = "add_faq" -> {Add(p, [New("FAQPage", {}) EXCEPT !.qas = n]) : n \in {2, 5}}
    [] f = "expand_faq" ->
         {Change(p, IsFaq, LAMBDA s : [s EXCEPT !.qas = n]) : n \in {3, 5}}
    [] f = "add_article" -> {Add(p, ArticleScaffold(d)) : d \in {"fresh", "very_stale"}}
    [] f = "add_author" ->
         {Change(p, IsArticle, LAMBDA s : [s EXCEPT !.author = a]) : a \in {"name", "credentials"}}
    [] f = "add_modified" ->
         IF p.schemas = <<>> THEN {Add(p, [New("WebPage", {"name"}) EXCEPT !.modified = "fresh"])}
         ELSE {[p EXCEPT !.schemas = [@ EXCEPT ![i] = [@ EXCEPT !.modified = d]]] :
                 i \in DOMAIN p.schemas, d \in Ages}
    [] f = "update_modified" ->
         {Change(p, LAMBDA s : s.modified # "none", LAMBDA s : [s EXCEPT !.modified = "fresh"])}
    [] f = "add_organization" ->
         {Add(p, New("Organization", {"name", "url", "logo", "description", "contactPoint"}))}
    [] f = "validation" -> {Change(p, LAMBDA s : TRUE, Filled)}
    [] f = "add_byline" ->
         {[p EXCEPT !.byline = b, !.linked = FALSE, !.photo = FALSE, !.social = FALSE,
                    !.areaText = IF b = "text" THEN @ ELSE t] :
            b \in {"text", "element"}, t \in {p.areaText, "long"}}
    [] f = "link" -> {[p EXCEPT !.byline = "element", !.linked = TRUE]}
    [] f = "add_credentials" ->
         {[p EXCEPT !.bio = TRUE, !.inArea = @ + n, !.areaText = "long"] : n \in {1, 3}}
    [] f = "add_photo" -> {[p EXCEPT !.areaPhoto = TRUE]}
    [] f = "cite" ->
         {[p EXCEPT !.authoritative = n, !.citations = @ + n - p.authoritative] : n \in {3, 5}}
    [] f = "add_date" -> {[p EXCEPT !.date = d] : d \in Ages}
    [] f = "update_date" -> {[p EXCEPT !.date = "fresh"]}
    [] f = "add_data" -> {[p EXCEPT !.data = n] : n \in {1, 5}}

Older == [fresh |-> "recent", recent |-> "stale", stale |-> "very_stale"]

-----------------------------------------------------------------------------

Analysis(p) == [schema |-> SchemaAnalysis(p), trust |-> TrustAnalysis(p)]

Init ==
  /\ page \in Pages
  /\ analysis = Analysis(page)
  /\ audited = TRUE
  /\ last = "none"

MakeFix(f) ==
  /\ audited
  /\ page' \in Fixed(page, f)
  /\ audited' = FALSE
  /\ last' = f
  /\ UNCHANGED analysis

\* A date of the page passes the next threshold.
AgeOne ==
  /\ audited
  /\ \/ /\ page.date \in DOMAIN Older
        /\ page' = [page EXCEPT !.date = Older[@]]
     \/ \E i \in DOMAIN page.schemas :
          /\ page.schemas[i].modified \in DOMAIN Older
          /\ page' = [page EXCEPT !.schemas =
                        [@ EXCEPT ![i] = [@ EXCEPT !.modified = Older[@]]]]
  /\ audited' = FALSE
  /\ last' = "aged"
  /\ UNCHANGED analysis

Audit ==
  /\ ~audited
  /\ analysis' = Analysis(page)
  /\ audited' = TRUE
  /\ UNCHANGED <<page, last>>

Next == Audit \/ AgeOne \/ \E f \in Fixes(analysis) : MakeFix(f)

Spec == Init /\ [][Next]_vars

-----------------------------------------------------------------------------
(* Properties *)

\* Components score between 0 and 100, and the scores of the analyses too,
\* however many errors a page has.
TypeOK ==
  /\ Range(SchemaScores(analysis.schema)) \cup Range(TrustScores(analysis.trust)) \subseteq 0..100
  /\ analysis.schema.score \in 0..12000
  /\ analysis.trust.score \in 0..100

\* A fix that was made is not asked for again by the next audit, unless a date
\* has aged since.
FixIsMet == audited => last \notin Fixes(analysis)

SchemaFixNames ==
  {"add_faq", "expand_faq", "add_article", "add_author", "add_modified", "update_modified",
   "add_organization", "validation"}
TrustFixNames ==
  {"add_byline", "link", "add_credentials", "add_photo", "cite", "add_date", "update_date",
   "add_data"}

Lost(before, after) == before.author = "credentials" /\ after.author # "credentials"
Dated(before, after) ==
  SchemaScores(after).date < SchemaScores(before).date


Readable(a) == a.schema.freshness # "unknown" /\ a.trust.freshness # "unknown"

\* When a page has nothing left to fix, both its pillars are full (70 points),
\* if its dates can be read.
DoneIsFull ==
  Fixes(analysis) = {} /\ Readable(analysis) =>
    /\ SchemaPillar(analysis.schema) >= 7000
    /\ TrustPillar(analysis.trust) >= 7000

=============================================================================
