----------------------------- MODULE MCSiteAudit -----------------------------
(* Sites for SiteAudit, of which one part moves at a time beside others that  *)
(* stand still.                                                              *)
EXTENDS SiteAudit

TM == INSTANCE MCSiteTechnical WITH Sites <- NoSites, site <- tech, report <- techReport
QM == INSTANCE MCSiteQuestions WITH Sites <- NoSites, site <- text, report <- textReport

\* The thresholds of all numbers are passed one after another.
Steps ==
  [page |-> <<0, 1, 1, 1, 1>>, chars |-> <<0, 2000, 2001, 5001, 10001>>,
   citations |-> <<0, 5, 6, 21, 51>>, infobox |-> <<0, 0, 1, 1, 1>>,
   categories |-> <<0, 5, 6, 10, 11>>, fresh |-> <<0, 1, 0, 1, 1>>,
   item |-> <<0, 1, 1, 1, 1>>, properties |-> <<0, 10, 11, 21, 51>>,
   sitelinks |-> <<0, 1, 6, 21, 51>>, registered |-> <<1, 1, 1, 1, 1>>,
   years |-> <<0, 1, 5, 10, 20>>, web |-> <<0, 1, 1, 2, 2>>]
At(i) == [f \in Known |-> Steps[f][i]]
MCBrands ==
  {At(i) : i \in 1..5}
    \cup {[At(1) EXCEPT !.web = 2, !.years = 2], [At(4) EXCEPT !.page = 0, !.item = 0],
          [At(5) EXCEPT !.web = 0, !.sitelinks = 2]}

MCFailures ==
  {{}, {"citations"}, {"wikipedia"}, {"wikidata"}, {"rdap"}, {"rdap", "head"}, {"search"}, Lookups}
MCSkips == {{}, {"technical"}, {"entity_recognition"}, Checks \ {"schema"}, Checks}

Domain(i, tld, letters) == [known |-> At(i), tld |-> tld, letters |-> letters]
SomePages == [structure |-> 72500, schema |-> 41000, authority |-> 0]
FullPages == [structure |-> 100000, schema |-> 100000, authority |-> 100000]

StillTech ==
  TM!S(<<>>, 150, TM!L(TRUE, TRUE, 12), TM!Page(1000, FALSE, FALSE, FALSE, FALSE))
StillText == QM!S({}, <<>>, <<>>)
\* A page for every category.
FullText ==
  QM!S({}, <<>>,
       <<QM!C(1, "identity", 4, TRUE, 500), QM!C(2, "offerings", 4, TRUE, 500),
         QM!C(3, "contact", 4, TRUE, 500), QM!C(4, "trust", 4, TRUE, 500),
         QM!C(5, "differentiation", 4, TRUE, 500)>>)

Site(moving, t, x, p, b) == [moves |-> moving, tech |-> t, text |-> x, pages |-> p, brand |-> b]
MCSites ==
  {Site({"technical"}, t, StillText, SomePages, Domain(3, "com", 6)) : t \in TM!MCSites}
    \cup {Site({"text"}, StillTech, x, SomePages, Domain(1, "dev", 11)) : x \in QM!MCSites}
    \cup {Site({"brand"}, StillTech, StillText, SomePages, Domain(1, d[1], d[2])) :
            d \in {<<"com", 6>>, <<"io", 7>>, <<"uk", 10>>}}
    \cup {Site({"brand"}, StillTech, FullText, FullPages, Domain(1, "com", 6))}

MCTypes == {"FAQPage", "Event"}
MCTopics == {"support"}
=============================================================================
