----------------------------- MODULE MCPageTrust -----------------------------
(* Pages for PageTrust: structured data in every state of neglect beside an   *)
(* author who lacks nothing, and the reverse.                                *)
EXTENDS PageTrust

S(type, fields, empty, author, modified, qas) ==
  [type |-> type, fields |-> fields, empty |-> empty, author |-> author,
   modified |-> modified, qas |-> qas]
Org == S("Organization", {"name", "url"}, {}, "none", "none", 0)
Story(author, modified) == S("Article", {"headline", "datePublished"}, {}, author, modified, 0)
Faq(n) == S("FAQPage", {}, {}, "none", "none", n)

MCSchemas ==
  {<<>>, <<Org>>, <<Faq(0)>>, <<Faq(1), Story("none", "none")>>,
   <<Faq(5), Story("name", "none")>>,
   <<S("WebPage", {}, {}, "name", "none", 0), Story("none", "recent")>>,
   <<Story("name", "stale"), S("NewsArticle", {}, {"headline"}, "none", "unreadable", 0)>>,
   <<S("NewsArticle", {}, {"headline", "description"}, "none", "none", 0), S("HowTo", {}, {"name"}, "none", "none", 0)>>,
   <<S("Person", {"name", "sameAs"}, {}, "none", "none", 0), S("Event", {}, {}, "none", "none", 0),
     S("Product", {"name"}, {}, "none", "very_stale", 0)>>,
   <<S("BlogPosting", {"headline"}, {}, "credentials", "fresh", 0), Faq(3), Org>>}

\* Any two of these, in either order: the first author and the last date decide.
MCSome ==
  {Faq(1), Story("none", "none"), Story("name", "fresh"),
   S("WebPage", {}, {}, "name", "fresh", 0),
   S("BlogPosting", {"headline"}, {}, "credentials", "fresh", 0),
   S("NewsArticle", {}, {"headline"}, "none", "unreadable", 0)}

Sound == <<Faq(3), Story("name", "recent"), Org>>
Base ==
  [schemas |-> Sound, byline |-> "element", linked |-> TRUE, photo |-> FALSE, social |-> FALSE,
   areaText |-> "long", inArea |-> 1, inBody |-> 0, bio |-> FALSE, areaPhoto |-> TRUE,
   citations |-> 2, authoritative |-> 2, data |-> 1, date |-> "recent"]
Bylines ==
  {<<"none", FALSE, FALSE, FALSE>>, <<"text", FALSE, FALSE, FALSE>>,
   <<"element", FALSE, TRUE, FALSE>>, <<"element", TRUE, FALSE, TRUE>>}

MCPages ==
  {[Base EXCEPT !.schemas = s] : s \in MCSchemas}
    \cup {[Base EXCEPT !.schemas = <<s, t>>] : s \in MCSome, t \in MCSome}
    \cup {[Base EXCEPT !.byline = b[1], !.linked = b[2], !.photo = b[3], !.social = b[4],
                       !.areaText = t, !.inArea = c[1], !.inBody = c[2], !.bio = t = "long",
                       !.areaPhoto = f, !.date = d] :
            b \in Bylines, t \in {"short", "long"}, c \in {<<0, 0>>, <<0, 3>>, <<1, 0>>},
            f \in BOOLEAN, d \in {"none", "unreadable", "stale"}}
    \cup {[Base EXCEPT !.citations = c[1], !.authoritative = c[2], !.data = n] :
            c \in {<<0, 0>>, <<6, 0>>, <<1, 1>>}, n \in {0, 3}}
=============================================================================
