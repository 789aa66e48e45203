---------------------------- MODULE MCPageReport ----------------------------
(* Pages for PageReport: every structure beside a trust that lacks nothing,  *)
(* every trust beside such a structure, and some where both lack what the    *)
(* other reads.                                                             *)
EXTENDS PageReport

SP == INSTANCE MCPageStructure WITH Pages <- OwnPages, page <- structure, analysis <- structureFound
TP == INSTANCE MCPageTrust WITH Pages <- OwnPages, page <- trust, analysis <- trustFound

\* Dates that cannot be read do not age, and bring no advice.
GoodTrust ==
  [TP!Base EXCEPT
     !.schemas = <<TP!Faq(3), TP!Story("name", "unreadable"), TP!Org>>, !.date = "unreadable"]
GoodStructure ==
  [SP!Base EXCEPT
     !.headings = <<SP!H(1, "title"), SP!H(2, "faq"), SP!H(3, "q1?")>>, !.faqSchema = TRUE]

Both(s, t) == [structure |-> s, trust |-> t]
Mixed ==
  {Both([SP!Base EXCEPT !.links = [@ EXCEPT !.internal = i, !.good = g, !.generic = i + 1 - g]],
        [GoodTrust EXCEPT !.schemas = <<TP!Story("name", "unreadable"), TP!Org>>,
                          !.linked = FALSE, !.citations = 0, !.authoritative = 0]) :
     i \in {0, 50, 70}, g \in {0, 1}}
MCPages ==
  {Both(s, GoodTrust) : s \in SP!MCPages}
    \cup {Both(GoodStructure, t) : t \in TP!MCPages}
    \cup Mixed
=============================================================================
