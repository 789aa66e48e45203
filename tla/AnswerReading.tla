---------------------------- MODULE AnswerReading ----------------------------
(***************************************************************************)
(* What is read out of the text of an answer: by the runner, whose reading   *)
(* the audit uses (worker/observation/runner.py), by the parser              *)
(* (worker/observation/parser.py), and for the depth of the citation         *)
(* (worker/observation/citation_depth.py).                                   *)
(*                                                                         *)
(* An answer is a record: "words", the places that bear on the company, in   *)
(* order, among words that do not; how the name is framed; how many rivals   *)
(* there are.  "domain" tells whether the company's domain starts with its     *)
(* "name", its "short" name, or with neither: it is the same for all answers   *)
(* of an observation.                                                        *)
(***************************************************************************)
EXTENDS Integers, Sequences, FiniteSets, SequencesExt, FiniteSetsExt

Least(x, y) == IF x < y THEN x ELSE y
Greatest(x, y) == IF x > y THEN x ELSE y
Clamp(x) == Greatest(0, Least(5, x))

\* The company's name, a variation of it, its domain, an address on the domain,
\* the same with its scheme in capitals, one on a subdomain, another site's
\* address that contains the domain, a branded term, and any other word.
Words == {"name", "short", "domain", "url", "URL", "suburl", "otherurl", "brand", "other"}

-----------------------------------------------------------------------------
(* The parser: every match has a type and a confidence; of several at one      *)
(* place the most confident stays, of equals the one found first.  It looks in *)
(* the text in small letters.                                                *)

Certainty == [exact |-> 100, partial |-> 50, domain |-> 100, url |-> 100, branded |-> 90]

\* The domain as a text may contain the name or a variation of it.
InDomain(d) == IF d = "name" THEN <<"exact", "partial">>
               ELSE IF d = "short" THEN <<"partial">> ELSE <<>>

\* The places of a word, each with its matches in the order they are found: a
\* url starts at its scheme, its domain comes later.
Places(w, d) ==
  CASE w = "name" -> <<<<"exact", "partial">>>>
    [] w = "short" -> <<<<"partial">>>>
    [] w = "domain" -> <<InDomain(d) \o <<"domain">>>>
    [] w \in {"url", "URL"} -> <<<<"url">>, InDomain(d) \o <<"domain">>>>
    [] w \in {"suburl", "otherurl"} -> <<InDomain(d) \o <<"domain">>>>
    [] w = "brand" -> <<<<"branded">>>>
    [] OTHER -> <<>>

Kept(place) ==
  place[CHOOSE i \in DOMAIN place : \A j \in DOMAIN place :
          \/ Certainty[place[j]] < Certainty[place[i]]
          \/ Certainty[place[j]] = Certainty[place[i]] /\ i <= j]

Mentions(a) ==
  {Kept(place) : place \in UNION {Range(Places(a.words[i], a.domain)) : i \in DOMAIN a.words}}
Mentioned(a, types) == Mentions(a) \cap types # {}

HasCompanyMention(a) == Mentioned(a, {"exact", "partial"})
HasDomainMention(a) == Mentioned(a, {"domain"})
HasUrlCitation(a) == Mentioned(a, {"url"})

-----------------------------------------------------------------------------
(* The runner looks for the whole name and the domain in any letters, and for  *)
(* addresses that contain the domain, with a scheme in small letters.        *)

Holds(a, ws) == \E i \in DOMAIN a.words : a.words[i] \in ws

WithDomain == {"domain", "url", "URL", "suburl", "otherurl"}
MentionsCompany(a) ==
  Holds(a, {"name"} \cup IF a.domain = "name" THEN WithDomain ELSE {})
MentionsDomain(a) == Holds(a, WithDomain)
MentionsUrl(a) == Holds(a, {"url", "suburl", "otherurl"})

-----------------------------------------------------------------------------
(* The signals of depth. *)

MentionPosition(a) ==
  LET bearing == {i \in DOMAIN a.words : MentionsCompany([a EXCEPT !.words = <<a.words[i]>>])}
      before == 100 * (Min(bearing) - 1)
  IN  IF bearing = {} THEN "absent"
      ELSE IF before < 15 * Len(a.words) THEN "opening"
      ELSE IF before < 70 * Len(a.words) THEN "mid" ELSE "closing"

SourceFraming(a) == IF MentionsCompany(a) THEN a.framing ELSE "absent"

FramingScores == [authoritative |-> 4, recommended |-> 3, passing |-> 2, listed |-> 1]

HeuristicDepth(a) ==
  LET framed == FramingScores[SourceFraming(a)]
      linked == IF MentionsUrl(a) THEN Least(5, framed + 1) ELSE framed
  IN  IF SourceFraming(a) = "absent" THEN 0
      ELSE IF a.rivals >= 5 THEN Least(linked, 2)
      ELSE IF a.rivals >= 3 THEN Least(linked, 3) ELSE linked

Texts == [words : Seq(Words), domain : {"name", "short", "neither"},
          framing : DOMAIN FramingScores, rivals : Nat]
=============================================================================
