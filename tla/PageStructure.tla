---------------------------- MODULE PageStructure ----------------------------
(***************************************************************************)
(* The structure of one page, the score it gets and the advice that comes   *)
(* with the score (worker/extraction/structure.py, headings.py, links.py and *)
(* worker/scoring/structure.py), and an owner who follows the advice piece   *)
(* by piece.                                                                 *)
(*                                                                         *)
(* HTML is abstracted to what the analyzers count in it.  Texts are members  *)
(* of small sets, a word and its space are CharsPerWord characters, and a    *)
(* paragraph is its numbers of short, plain and long sentences, of 5, 18 and *)
(* 36 words; the words of lists and of other text outside of paragraphs are   *)
(* counted in rest.  Scores are exact: a component counts half points, a      *)
(* pillar hundredths of them.                                                *)
(***************************************************************************)
EXTENDS Integers, Sequences, FiniteSets, SequencesExt, FiniteSetsExt

CONSTANTS
  Pages,         \* the pages an owner may start from
  CharsPerWord

VARIABLES
  page,    \* the page as published
  analysis,  \* what the last audit found
  audited,   \* the analysis is of the page as it is
  last       \* the piece of advice followed last

vars == <<page, analysis, audited, last>>

FaqTexts == {"faq"}
QuestionList == <<"q1?", "q2?", "q3?", "q4?", "q5?">>
Questions == {"q1?", "q2?", "q3?", "q4?", "q5?"}
Titles == {"title", "name"}
Parts == {"part", "more", "also", "end"}
Texts == {"", "long"} \cup FaqTexts \cup Questions \cup Titles \cup Parts
Links == [internal : Nat, inContent : Nat, external : Nat, empty : Nat, generic : Nat, good : Nat]
Page ==
  [headings : Seq([level : 1..6, text : Texts]),
   paras : Seq([short : Nat, plain : Nat, long : Nat]), rest : Nat,
   standalone : BOOLEAN, topic : BOOLEAN,     \* how the opening paragraph starts
   says : SUBSET {"definition", "number", "direct"},  \* in the first 500 characters
   above : Nat,                               \* characters before the opening
   earlyList : BOOLEAN, lists : Nat, items : Nat,
   tables : Nat, headed : Nat, dls : Nat, dts : Nat, codes : Nat,
   details : Nat, faqSchema : BOOLEAN,
   links : Links]

Half(x) == 2 * x
Least(x, y) == IF x < y THEN x ELSE y
Most(x, y) == IF x > y THEN x ELSE y
Points(cond, n) == IF cond THEN n ELSE 0
Mapped(s, Op(_)) == [i \in DOMAIN s |-> Op(s[i])]
SumOf(s, Op(_)) ==
  LET sum[n \in 0..Len(s)] == IF n = 0 THEN 0 ELSE sum[n - 1] + Op(s[n]) IN sum[Len(s)]

-----------------------------------------------------------------------------
(* Headings *)

LevelCount(p, l) == Len(SelectSeq(p.headings, LAMBDA h : h.level = l))
WithText(p, text) == {i \in 1..Len(p.headings) : p.headings[i].text = text}

H1Penalty(h1) == Points(h1 = 0, 20) + Points(h1 > 1, 10)

HeadingAnalysis(p) ==
  LET h == p.headings
      h1 == LevelCount(p, 1)
      skips == Cardinality({i \in 2..Len(h) : h[i].level > h[i - 1].level + 1})
      duplicates == Cardinality({i \in 1..Len(h) :
                      h[i].text # "" /\ \E j \in 1..i - 1 : h[j].text = h[i].text})
      empty == Cardinality(WithText(p, ""))
      long == Cardinality(WithText(p, "long"))
  IN  [h1 |-> h1, skips |-> skips, number |-> Len(h),
       valid |-> h1 = 1 /\ skips + duplicates + empty + long = 0,
       score |-> IF h = <<>> THEN 0
                 ELSE Half(Most(0, 100 - H1Penalty(h1) - 5 * skips - 2 * duplicates - 2 * empty - long))]

-----------------------------------------------------------------------------
(* Links *)

Density(l) ==
  IF l.internal < 5 THEN "low" ELSE IF l.internal > 15 THEN "high" ELSE "optimal"

WithBonus(score) == Least(200, score + Half(5))

Excess(l) == Most(0, l.internal - 50)

LinkScore(l) ==
  LET total == l.internal + l.external
      base == 200 - Half(5 * Most(0, 5 - l.internal))
                  - Least(40, Excess(l))
                  - Half(Points(l.internal > 0 /\ l.inContent = 0, 15))
                  - Half(Points(l.empty > 3, Least(10, 2 * l.empty)))
                  - Half(Points(l.generic > 5, Least(10, l.generic)))
  IN  Most(0, IF total > 0 /\ 10 * l.good >= 8 * total THEN WithBonus(base) ELSE base)

-----------------------------------------------------------------------------
(* The answer in front *)

Sentences(para) == para.short + para.plain + para.long
Words(para) == 5 * para.short + 18 * para.plain + 36 * para.long
Chars(para) == CharsPerWord * Words(para)
HeadingWords(h) == IF h.text = "" THEN 0 ELSE IF h.text = "long" THEN 12 ELSE 2
WordCount(p) == SumOf(p.paras, Words) + SumOf(p.headings, HeadingWords) + p.rest

\* Of the content, and of the whole body when no content was found: any text at
\* all is worth 50.
AnswerFirst(p) ==
  LET first == p.paras # <<>> /\ Chars(p.paras[1]) >= 50 /\ p.says # {}
  IN  [inFirst |-> first,
       score |-> IF WordCount(p) = 0 THEN 0
                 ELSE Half(Least(100, 50 + Points(first, 30) + Points("definition" \in p.says, 10)
                                  + Points("number" \in p.says, 5) + Points(p.earlyList, 5)))]

-----------------------------------------------------------------------------
(* Questions and answers *)

Faq(p) ==
  LET count == p.details + p.dts + Cardinality({i \in 1..Len(p.headings) :
                 p.headings[i].level \in 2..5 /\ p.headings[i].text \in Questions})
      section == count >= 3 \/ \E i \in 1..Len(p.headings) :
                 p.headings[i].level <= 4 /\ p.headings[i].text \in FaqTexts
  IN  [section |-> section, schema |-> p.faqSchema,
       score |-> IF section
                 THEN Half(Least(100, 50 + Least(30, 5 * count) + Points(p.faqSchema, 20)))
                 ELSE 0]

-----------------------------------------------------------------------------
(* Tables, lists and code *)

FormatScore(p) ==
  Least(200, Half(50 + Least(15, 5 * p.headed) + Least(10, 5 * p.dls) + Least(5, 2 * p.codes))
             + Least(40, p.items))

-----------------------------------------------------------------------------
(* The block of text an answer engine may take: the first paragraph of more   *)
(* than 30 characters, any after the H1, one of the first three without one.  *)
(* How a paragraph starts is known of the opening one.                       *)

Block(p) ==
  LET among == IF LevelCount(p, 1) > 0 THEN Len(p.paras) ELSE Least(3, Len(p.paras))
      candidates == {i \in 1..among : Chars(p.paras[i]) > 30}
      first == Min(candidates)
      words == Words(p.paras[first])
      standalone == first = 1 /\ p.standalone
      topic == first = 1 /\ p.topic
      has == words >= 30 /\ (standalone \/ topic)
      near == p.above + SumOf(SubSeq(p.paras, 1, first - 1), Chars) < 200
  IN  IF candidates = {} THEN [has |-> FALSE, words |-> 0, topic |-> FALSE, score |-> 0]
      ELSE [has |-> has, words |-> words, topic |-> topic,
            score |-> Half(Least(100,
              Points(has, 40)
                + (IF words \in 40..80 THEN 25 ELSE Points(words \in 30..100, 15))
                + Points(standalone, 15) + Points(topic, 10) + Points(near, 10)))]

-----------------------------------------------------------------------------
(* Readability: of the paragraphs of more than 20 characters, and of all the  *)
(* text as one where there are none.  Averages and ratios are compared by     *)
(* cross multiplication.                                                     *)

Run(para) == [words |-> Words(para), sentences |-> Sentences(para), long |-> para.long]
\* A text without full stops is one sentence.
Loose(words) == [words |-> words, sentences |-> 1, long |-> Points(words > 25, 1)]
Runs(p) ==
  LET body == SelectSeq(p.paras, LAMBDA x : Chars(x) > 20)
  IN  IF body # <<>> THEN Mapped(body, Run)
      ELSE IF CharsPerWord * WordCount(p) > 20 THEN <<Loose(WordCount(p))>> ELSE <<>>

Dense(headings, words) == headings >= 20 * words

Readability(p) ==
  LET runs == Runs(p)
      wc == WordCount(p)
      n == Len(runs)
      s == SumOf(runs, LAMBDA x : x.sentences)
      words == SumOf(runs, LAMBDA x : x.words)
      short == SumOf(runs, LAMBDA x : Points(x.words <= 80, 1))
      long == SumOf(runs, LAMBDA x : x.long)
      wall == \E i \in DOMAIN runs : runs[i].words > 150
      headings == 10 * 500 * Len(p.headings)
      score == 50
        + (IF 2 * s >= 3 * n THEN Points(s <= 4 * n, 15) ELSE -5)
        + (IF words > 25 * s THEN -10 ELSE Points(15 * s <= words /\ words <= 22 * s, 15))
        + (IF 10 * short >= 7 * n THEN 10 ELSE Points(2 * short >= n, 5))
        - Points(wall, 15) - Points(10 * long > 3 * s, 10)
        + Points(Dense(headings, wc), 5) + Points(10 * 500 * p.lists >= 5 * wc, 5)
  IN  [wall |-> wall, overlong |-> words > 25 * s,
       fewHeadings |-> n = 0 \/ headings < 15 * wc,
       score |-> IF n = 0 THEN Half(50) ELSE Half(Most(0, Least(100, score)))]

-----------------------------------------------------------------------------
(* The analysis, its score, and the score of the pillar, which takes five of  *)
(* the seven components.                                                     *)

Analysis(p) ==
  [headings |-> HeadingAnalysis(p), links |-> LinkScore(p.links), answer |-> AnswerFirst(p),
   faq |-> Faq(p), formats |-> FormatScore(p), block |-> Block(p),
   readability |-> Readability(p)]

AnalysisScore(a) ==
  20 * a.headings.score + 15 * a.answer.score + 15 * a.block.score
    + 15 * a.readability.score + 15 * a.faq.score + 10 * a.links + 10 * a.formats

PillarScore(a) ==
  25 * a.headings.score + 25 * a.answer.score + 20 * a.faq.score
    + 15 * a.links + 15 * a.formats

-----------------------------------------------------------------------------
(* The advice: the recommendations of the analysis, in their order, and the   *)
(* fixes, by priority.                                                       *)

If(cond, a) == IF cond THEN <<a>> ELSE <<>>

ShortOfSixty(words) == words < 60
TooShort(words) == words < 40

Recommendations(p, a) ==
     If(a.headings.h1 = 0, "add_h1") \o If(a.headings.h1 > 1, "one_h1")
  \o If(Density(p.links) = "low", "links")
  \o If(~a.answer.inFirst, "answer")
  \o If(~a.faq.section, "faq") \o If(a.faq.section /\ ~a.faq.schema, "faq_schema")
  \o If(p.tables > 0 /\ p.headed = 0, "tables")
  \o If(~a.block.has, "block")
  \o If(a.block.has /\ TooShort(a.block.words), "expand")
  \o If(a.block.has /\ a.block.words > 80, "tighten")
  \o If(a.block.has /\ a.block.words \in 40..80 /\ ~a.block.topic, "topic")
  \o If(a.readability.wall, "wall") \o If(a.readability.overlong, "sentences")
  \o If(a.readability.fewHeadings, "headings")

Fixes(p, a) ==
     If(a.headings.h1 = 0, "add_h1") \o If(~a.answer.inFirst, "answer")
  \o If(a.faq.section /\ ~a.faq.schema, "faq_schema")
  \o If(a.headings.h1 > 1, "one_h1") \o If(a.headings.skips > 0, "hierarchy")
  \o If(~a.faq.section, "faq")
  \o If(Density(p.links) = "low", "links") \o If(p.links.generic > 5, "anchors")
  \o If(p.tables > 0 /\ p.headed = 0, "tables")

-----------------------------------------------------------------------------
(* What following a piece of advice makes of the page. *)

Heading(l, t) == [level |-> l, text |-> t]
Para(short, plain, long) == [short |-> short, plain |-> plain, long |-> long]
Opening(para, p) == [p EXCEPT !.paras = <<para>> \o SubSeq(@, 2, Len(@))]
\* Long sentences in two.
Split(para) == Para(para.short, para.plain + 2 * para.long, 0)
\* Two plain sentences to a paragraph, the short ones in the first.
Broken(para) ==
  LET plain == Split(para).plain
  IN  [i \in 1..(plain + 1) \div 2 |-> Para(IF i = 1 THEN para.short ELSE 0,
                                           Least(2, plain - 2 * (i - 1)), 0)]

\* Text that is not in paragraphs, written as one of plain sentences.
Written(p) ==
  IF \E i \in DOMAIN p.paras : Chars(p.paras[i]) > 20 THEN p
  ELSE [p EXCEPT !.paras = <<Para(0, (p.rest + 17) \div 18, 0)>>, !.rest = 0]

\* A text of the set that no heading of the page has.
Fresh(p, texts) == CHOOSE t \in texts : WithText(p, t) = {}
FreshQuestions(p) == SelectSeq(QuestionList, LAMBDA t : WithText(p, t) = {})

OneH1(p) ==
  LET first == Min({i \in DOMAIN p.headings : p.headings[i].level = 1})
  IN  [p EXCEPT !.headings = [i \in DOMAIN @ |->
         IF i > first /\ @[i].level = 1 THEN [@[i] EXCEPT !.level = 2] ELSE @[i]]]

\* Every heading at most one level below the one before it.
Hierarchy(p) ==
  [p EXCEPT !.headings = FoldLeft(LAMBDA done, h :
     Append(done, IF done = <<>> THEN h
                  ELSE [h EXCEPT !.level = Least(@, Last(done).level + 1)]), <<>>, @)]

Followed(p, a) ==
  CASE a = "add_h1" -> {[p EXCEPT !.headings = <<Heading(1, Fresh(p, Titles))>> \o @]}
    [] a = "one_h1" -> {OneH1(p)}
    [] a = "hierarchy" -> {Hierarchy(p)}
    [] a = "links" -> {[p EXCEPT !.links =
         [@ EXCEPT !.internal = n, !.inContent = @ + n - p.links.internal,
                   !.good = @ + n - p.links.internal]] : n \in {5, 15}}
    [] a = "anchors" -> {[p EXCEPT !.links = [@ EXCEPT !.generic = 0, !.good = @ + p.links.generic]]}
    [] a = "answer" ->
         {[(IF p.paras = <<>> THEN Opening(Para(0, 1, 0), p)
            ELSE IF Chars(p.paras[1]) < 50 THEN Opening([p.paras[1] EXCEPT !.plain = @ + 1], p)
            ELSE p) EXCEPT !.says = @ \cup {s}] : s \in {"definition", "number", "direct"}}
    [] a = "faq" -> {[p EXCEPT !.headings = @ \o <<Heading(2, "faq")>> \o
         Mapped(SubSeq(FreshQuestions(p), 1, 3), LAMBDA q : Heading(3, q)),
       !.paras = @ \o [i \in 1..3 |-> Para(0, 2, 0)]]}
    [] a = "faq_schema" -> {[p EXCEPT !.faqSchema = TRUE]}
    [] a = "tables" -> {[p EXCEPT !.headed = p.tables]}
    [] a = "block" -> {[p EXCEPT !.paras = <<Para(0, n, 0)>> \o @, !.topic = TRUE,
                                 !.standalone = s] : n \in {3, 4}, s \in BOOLEAN}
    [] a = "expand" -> {Opening([p.paras[1] EXCEPT !.plain = @ + 1], p)}
    [] a = "tighten" -> {Opening(Para(0, n, 0), p) : n \in {3, 4}}
    [] a = "topic" -> {[p EXCEPT !.topic = TRUE]}
    [] a = "wall" -> {[Written(p) EXCEPT !.paras = FlattenSeq(Mapped(@, LAMBDA x :
                         IF Words(x) > 150 THEN Broken(x) ELSE <<x>>))]}
    [] a = "sentences" -> {[Written(p) EXCEPT !.paras = Mapped(@, Split)]}
    [] a = "headings" -> {[p EXCEPT !.headings = Append(@, Heading(2, Fresh(p, Parts)))] :
                               n \in IF \A t \in Parts : WithText(p, t) # {} THEN {} ELSE {1}}

-----------------------------------------------------------------------------
(* The owner follows a piece of the advice, and the page is audited again.    *)

Advice(p, a) == ToSet(Recommendations(p, a)) \cup ToSet(Fixes(p, a))

Init ==
  /\ page \in Pages
  /\ analysis = Analysis(page)
  /\ audited = TRUE
  /\ last = "none"

Follow(a) ==
  /\ audited
  /\ page' \in Followed(page, a)
  /\ audited' = FALSE
  /\ last' = a
  /\ UNCHANGED analysis

Audit ==
  /\ ~audited
  /\ analysis' = Analysis(page)
  /\ audited' = TRUE
  /\ UNCHANGED <<page, last>>

Next == Audit \/ \E a \in Advice(page, analysis) : Follow(a)

Spec == Init /\ [][Next]_vars

-----------------------------------------------------------------------------
(* Properties *)

Components(a) ==
  {a.headings.score, a.links, a.answer.score, a.faq.score, a.formats, a.block.score,
   a.readability.score}

\* Every component scores between 0 and 100, whatever bonuses and penalties a
\* page collects.
TypeOK == Components(analysis) \subseteq 0..200

\* A piece of advice that was followed is not given again; section headings
\* are, which are counted per 500 words.
AdviceIsMet == audited /\ last # "headings" => last \notin Advice(page, analysis)

FixNames ==
  {"add_h1", "answer", "faq_schema", "one_h1", "hierarchy", "faq", "links", "anchors", "tables"}


=============================================================================
