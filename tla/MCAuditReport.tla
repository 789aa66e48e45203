---------------------------- MODULE MCAuditReport ----------------------------
(* Small instances of AuditReport for TLC. *)
EXTENDS AuditReport

CONSTANTS r1, r2

Text(words, domain, framing, crowd) ==
  [words |-> words, domain |-> domain, framing |-> framing, rivals |-> crowd]

\* Nothing of the company; its name in a list; a guide; a link without the name.
FourTexts(d) ==
  {Text(<<"other">>, d, "passing", 0), Text(<<"other", "name">>, d, "listed", 5),
   Text(<<"name", "url">>, d, "authoritative", 0), Text(<<"suburl">>, d, "passing", 0)}

\* A link that only the parser sees.
Capitals(d) == Text(<<"URL">>, d, "passing", 0)

\* A longer observation alone, without the link; a shorter one with every text; and
\* one or two competitors of a company whose domain starts with its name.
Setup(n, crowd, texts) == [questions |-> n, rivals |-> crowd, texts |-> texts]
FourSetups ==
  {Setup(4, {}, {t \in FourTexts("short") : t.words # <<"suburl">>}),
   Setup(2, {}, FourTexts("short") \cup {Capitals("short")}),
   Setup(2, {r1}, {t \in FourTexts("name") : t.framing # "authoritative"}),
   Setup(1, {r1, r2}, FourTexts("name"))}

TwoPredictions == {"partially", "not"}

RivalReadings ==
  {[got |-> "answered", mentioned |-> m, cited |-> FALSE] : m \in BOOLEAN}
    \cup {[got |-> "answered", mentioned |-> TRUE, cited |-> TRUE]}

\* Too little, and too much, with numbers outside of the scale; no reply counts
\* as one without depths.
SomeReplies == {<<9>>, <<1, -2, 4, 0, 5, 5>>}

\* Universal questions of three categories and a derived one, without a chunk, with
\* few signals or with half of them; a question may have the same reason twice.
D(reasons, category, weight) == [reasons |-> reasons, category |-> category, weight |-> weight]
SixDiagnoses ==
  {D(<<"missing_definition", "missing_definition">>, "identity", 15),
   D(<<"missing_features", "missing_definition">>, "offerings", 12),
   D(<<"missing_pricing">>, "offerings", 10), D(<<"fragmented_info">>, "contact", 8),
   D(<<"trust_gap">>, "trust", 10), D(<<"buried_answer">>, "differentiation", 8)}

\* A site in good order, one with easy and urgent fixes, and one where little works.
ThreeChecks ==
  {<<>>,
   <<"llms", "faq_schema", "anchor_text", "table_headers", "date_modified", "validation", "photo",
     "link_author">>,
   <<"unblock", "ttfb_slow", "llms", "ssr", "https", "missing_h1", "hierarchy",
     "answer_first", "add_faq", "update_content", "validation", "article", "add_author",
     "dates", "citations", "original_data">>}

Raw(t, s, c, a, e, r, v) ==
  [technical |-> t, structure |-> s, schema |-> c, authority |-> a, entity_recognition |-> e,
   retrieval |-> r, coverage |-> v]
Middling == Raw(80000, 62000, 40000, 55000, 20000, 65000, 50000)
Only(f, S) == [p \in S |-> f[p]]
SomeRaws ==
  {Middling, Raw(100000, 90000, 80000, 80000, 60000, 90000, 90000),
   Raw(30000, 40000, 0, 30000, 2000, 14000, 0),
   Only(Middling, {"structure", "retrieval", "coverage"}), Only(Middling, {"retrieval", "coverage"})}

Unobserved == [questions |-> 0, rivals |-> {}, texts |-> {}]
SomeSetups == FourSetups \cup {Unobserved}
\* Observations beside middling scores; plans beside any score, with no observation.
SomeStarts ==
  {[setup |-> s, checks |-> <<>>, raw |-> Middling] : s \in FourSetups}
    \cup {[setup |-> Unobserved, checks |-> c, raw |-> r] : c \in ThreeChecks, r \in SomeRaws}
=============================================================================
