---------------------------- MODULE MCSiteQuestions ----------------------------
(* Sites for SiteQuestions: without text, of one page, of several with long   *)
(* or weak chunks, and of more chunks than a search finds, each with types    *)
(* and headings of its own.                                                  *)
EXTENDS SiteQuestions

C(page, category, signals, named, chars) ==
  [page |-> page, category |-> category, signals |-> signals, named |-> named, chars |-> chars]
S(types, headings, text) == [types |-> types, headings |-> headings, text |-> text]

MCTexts ==
  {<<>>, <<C(1, "identity", 2, TRUE, 500)>>,
   <<C(1, "identity", 1, TRUE, 2000), C(1, "offerings", 0, TRUE, 500),
     C(1, "identity", 4, FALSE, 500)>>,
   <<C(1, "offerings", 4, FALSE, 2000), C(2, "offerings", 1, FALSE, 500),
     C(2, "contact", 3, TRUE, 500), C(3, "trust", 1, FALSE, 500),
     C(4, "offerings", 4, FALSE, 500)>>}
\* More chunks than a search finds; the words of a question are in the last.
MCLong ==
  <<C(1, "trust", 4, FALSE, 500)>>
    \o [i \in 1..21 |-> C(2 + i \div 3, "offerings", 1, FALSE, 500)]
    \o [i \in 1..3 |-> C(20 + i, "contact", 2, TRUE, 500)]
MCSites ==
  {S({"Product"}, <<"none", "pricing">>, t) : t \in MCTexts}
    \cup {S({}, <<>>, <<C(1, "trust", 1, FALSE, 500), C(1, "contact", 0, FALSE, 500)>>)}
    \cup {S({"Event", "Organization", "FAQPage"}, <<"pricing", "pricing", "team">>,
            [i \in 1..3 |-> C(i, "identity", 2, TRUE, 500)]),
          S({}, <<>>, MCLong)}

MCTypes == {"FAQPage", "Event"}
MCTopics == {"support"}
=============================================================================
