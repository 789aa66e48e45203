------------------------------ MODULE PageReport ------------------------------
(***************************************************************************)
(* One page, audited for its structure (PageStructure) and for its trust     *)
(* (PageTrust) at once, and an owner who follows the advice of both as they  *)
(* please.  Both read the same HTML: structured data for questions counts in *)
(* both pillars, a citation is a link, so is the name of an author, and what   *)
(* is written for trust is text of the page.                                 *)
(***************************************************************************)
EXTENDS Integers, Sequences

CONSTANTS
  Pages,         \* pairs of a structure and a trust to start from
  CharsPerWord,
  OwnPages       \* the pages each of the parts may start from on its own

VARIABLES
  structure, structureFound,   \* as published, and as the last audit saw it
  trust, trustFound,
  audited, last

vars == <<structure, structureFound, trust, trustFound, audited, last>>

S == INSTANCE PageStructure WITH
       Pages <- OwnPages, page <- structure, analysis <- structureFound
T == INSTANCE PageTrust WITH
       Pages <- OwnPages, page <- trust, analysis <- trustFound

-----------------------------------------------------------------------------
(* What the edits of one part are to the other. *)

\* The markup of the questions that the page answers.
WithFaqMarkup(p) == T!Add(p, [T!New("FAQPage", {}) EXCEPT !.qas = 3])

\* The analysis looks for the name of the type anywhere in the HTML.
Marked(p) == [p EXCEPT !.faqSchema = TRUE]
Cited(p, n) == [p EXCEPT !.links = [@ EXCEPT !.external = @ + n, !.good = @ + n]]
Linked(p) ==
  [p EXCEPT !.links = [@ EXCEPT !.internal = @ + 1, !.inContent = @ + 1, !.good = @ + 1]]

\* A name or a date, which is no paragraph, and a paragraph at the end of the
\* page; what they say may fall within the first 500 characters.
Noted(p) == [p EXCEPT !.rest = @ + 2]
Ended(p) == [p EXCEPT !.paras = Append(@, S!Para(0, 1, 0))]
Saying(p) == {p, [p EXCEPT !.says = @ \cup {"number"}]}

-----------------------------------------------------------------------------

Init ==
  /\ \E p \in Pages :
       /\ structure = p.structure
       /\ trust = p.trust
  /\ structureFound = S!Analysis(structure)
  /\ trustFound = T!Analysis(trust)
  /\ audited = TRUE
  /\ last = "none"

Follow(a) ==
  /\ S!Follow(a)
  /\ trust' = IF a = "faq_schema" THEN WithFaqMarkup(trust) ELSE trust
  /\ UNCHANGED trustFound

MakeFix(f) ==
  /\ T!MakeFix(f)
  /\ structure' \in
       CASE f = "add_faq" -> {Marked(structure)}
         [] f = "cite" -> {Cited(Ended(structure), trust'.citations - trust.citations)}
         [] f = "link" -> {Linked(structure)}
         [] f = "add_byline" -> {Noted(structure)}
         [] f = "add_credentials" -> {Ended(structure)}
         [] f = "add_data" -> Saying(Ended(structure))
         [] f = "add_date" -> Saying(Noted(structure))
         [] OTHER -> {structure}
  /\ UNCHANGED structureFound

Aged == T!AgeOne /\ UNCHANGED <<structure, structureFound>>

Audit == S!Audit /\ T!Audit

Next ==
  \/ Audit \/ Aged
  \/ \E a \in S!Advice(structure, structureFound) : Follow(a)
  \/ \E f \in T!Fixes(trustFound) : MakeFix(f)

Spec == Init /\ [][Next]_vars

-----------------------------------------------------------------------------
(* Properties: those of the parts, in company, and one of both. *)

\* Components, and what is made of them, stay within 0 and 100.
TypeOK == S!TypeOK /\ T!TypeOK

\* Advice that was followed is not given again, whatever was done in between
\* for the other part; and with nothing left to fix for trust both its pillars are full.
AdviceIsMet == TypeOK /\ S!AdviceIsMet /\ T!FixIsMet /\ T!DoneIsFull


Overlinked == last = "link" /\ structure.links.internal > 50


=============================================================================
