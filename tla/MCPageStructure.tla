--------------------------- MODULE MCPageStructure ---------------------------
(* Pages for PageStructure: variations of Base, one or two areas at a time. *)
EXTENDS PageStructure

H(l, t) == [level |-> l, text |-> t]
Base ==
  [headings |-> <<H(1, "title"), H(2, "part")>>, paras |-> <<Para(0, 3, 0), Para(0, 3, 0)>>,
   rest |-> 10,
   standalone |-> TRUE, topic |-> TRUE, says |-> {"definition"}, above |-> 0,
   earlyList |-> FALSE, lists |-> 0, items |-> 0, tables |-> 0, headed |-> 0, dls |-> 0, dts |-> 0,
   codes |-> 0, details |-> 0, faqSchema |-> FALSE,
   links |-> [internal |-> 6, inContent |-> 2, external |-> 1, empty |-> 0,
              generic |-> 0, good |-> 7]]

MCHeadings ==
  {<<>>, <<H(2, "part")>>, <<H(1, "title"), H(3, "part"), H(6, "more")>>,
   <<H(1, "title"), H(1, "title")>>, <<H(2, "faq"), H(4, "q1?"), H(1, "title"), H(1, "")>>,
   <<H(1, "long"), H(2, "q1?"), H(2, "q1?"), H(3, "q2?")>>}
MCParas ==
  {<<>>, <<Para(1, 0, 0)>>, <<Para(2, 0, 0), Para(0, 0, 4)>>, <<Para(0, 0, 1)>>,
   <<Para(0, 0, 2), Para(0, 0, 3)>>, <<Para(0, 0, 5)>>, <<Para(6, 0, 0), Para(1, 0, 0)>>,
   <<Para(0, 5, 0)>>, <<Para(9, 5, 1), Para(0, 2, 0)>>,
   [i \in 1..10 |-> Para(0, 4, 0)]}
MCLinks ==
  {[internal |-> i, inContent |-> c, external |-> 1, empty |-> e, generic |-> g,
    good |-> IF i + 1 > e + g THEN i + 1 - e - g ELSE 0] :
     i \in {0, 3, 16, 70}, c \in {0}, e \in {0, 4}, g \in {0, 6}}

MCStarts == {<<TRUE, TRUE>>, <<FALSE, TRUE>>, <<TRUE, FALSE>>, <<FALSE, FALSE>>}

MCPages ==
  {[Base EXCEPT !.rest = r, !.paras = <<>>, !.headings = h] : r \in {90, 180}, h \in MCHeadings}
    \cup {[Base EXCEPT !.headings = h, !.paras = p, !.standalone = st[1], !.topic = st[2], !.says = {}] :
            h \in MCHeadings, p \in MCParas, st \in MCStarts}
    \cup {[Base EXCEPT !.links = l, !.headings = h] : l \in MCLinks, h \in MCHeadings}
    \cup {[Base EXCEPT !.paras = p, !.standalone = st[1], !.topic = st[2], !.says = {"number"},
                       !.above = 250, !.details = d] :
            p \in MCParas, st \in MCStarts, d \in {0, 2}}
    \cup {[Base EXCEPT !.details = d, !.faqSchema = f, !.tables = t, !.headed = 0,
                       !.earlyList = l > 0, !.lists = l, !.items = 30 * l, !.codes = l,
                       !.dls = l, !.dts = d, !.headings = h] :
            d \in {0, 2, 4}, f \in BOOLEAN, t \in {0, 4}, l \in {0, 2}, h \in MCHeadings}
=============================================================================
