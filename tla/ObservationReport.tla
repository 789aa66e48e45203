-------------------------- MODULE ObservationReport --------------------------
(***************************************************************************)
(* What becomes of the answers of an observation: they are read              *)
(* (AnswerReading), compared with the simulation (Comparison), rated for the *)
(* depth of the citation by one call to a classifier, and set against those  *)
(* of competitors (worker/observation/benchmark.py).                         *)
(*                                                                         *)
(* Questions are answered one after the other, the company's first; a        *)
(* provider may give no answer.  Then the classifier may be called, whose    *)
(* reply may be anything.  A rate is a pair <<part, whole>>.                 *)
(***************************************************************************)
EXTENDS Comparison, AnswerReading

CONSTANTS
  Setups,      \* [questions, rivals, texts]: how many questions, which competitors,
               \* and the texts a provider may answer with
  Predicted,   \* the answerabilities the simulation may give
  RivalAnswers,\* what is read of a competitor: [got, mentioned, cited]
  Replies      \* what the classifier may reply: sequences of numbers

ASSUME ObservationAssumption ==
  /\ \A s \in Setups :
       s.questions \in Nat /\ IsFiniteSet(s.rivals) /\ s.texts \subseteq Texts
  /\ \A r \in RivalAnswers : r.mentioned \in BOOLEAN /\ r.cited \in BOOLEAN
  /\ Replies \subseteq Seq(Int)

VARIABLES
  setup,
  results,   \* the company's questions so far
  rivals,    \* each competitor's results so far; NoResult for none
  reply      \* the classifier's reply, or NoReply

observationVars == <<setup, results, rivals, reply>>

NoReply == [state |-> "none", depths |-> <<>>]
FailedReply == [state |-> "failed", depths |-> <<>>]
Replied(ds) == [state |-> "replied", depths |-> ds]

ObservationInit ==
  /\ setup \in Setups
  /\ results = <<>>
  /\ rivals = [c \in setup.rivals |-> <<>>]
  /\ reply = NoReply

\* A question with what the runner read in its answer; a result without an
\* answer keeps the defaults.
Result(ans, a) ==
  [ans |-> ans, got |-> "answered", mentioned |-> MentionsCompany(a),
   cited |-> MentionsUrl(a), refused |-> FALSE, text |-> a]
NoAnswer(ans, got) ==
  [ans |-> ans, got |-> got, mentioned |-> FALSE, cited |-> FALSE, refused |-> FALSE]

AnswerQuestion ==
  /\ Len(results) < setup.questions
  /\ \E ans \in Predicted :
       \/ \E a \in setup.texts : results' = Append(results, Result(ans, a))
       \/ \E got \in {"none", "failed"} : results' = Append(results, NoAnswer(ans, got))
  /\ UNCHANGED <<setup, rivals, reply>>

NoResult == [got |-> "none", mentioned |-> FALSE, cited |-> FALSE]

\* The next question, put for every competitor.
AnswerRivals ==
  /\ Len(results) = setup.questions
  /\ \E c \in setup.rivals : Len(rivals[c]) < setup.questions
  /\ \E r \in [setup.rivals -> RivalAnswers \cup {NoResult}] :
       rivals' = [c \in setup.rivals |-> Append(rivals[c], r[c])]
  /\ UNCHANGED <<setup, results, reply>>

-----------------------------------------------------------------------------
(* The depth of the citations. *)

Completed == {i \in DOMAIN results : results[i].got = "answered"}

\* Called at most once, for a run with an answer when every question is done; not
\* without a key, and only where it is turned on: the settings of an audit leave it
\* off, the scripts of studies turn it on.
Classify ==
  /\ reply = NoReply
  /\ Len(results) = setup.questions
  /\ \A c \in setup.rivals : rivals[c] = <<>>
  /\ Completed # {}
  /\ reply' \in {Replied(ds) : ds \in Replies} \cup {FailedReply}
  /\ UNCHANGED <<setup, results, rivals>>

\* The answers are rated in their order: one depth for each, whatever came back.
Rank(i) == Cardinality({j \in Completed : j <= i})

\* The depth of an answer, without the floor for a link and with it.  Where the
\* classifier is not called every depth keeps its default of 0, that of a link too.
RawDepth(i) == IF Rank(i) > Len(reply.depths) THEN 0 ELSE Clamp(reply.depths[Rank(i)])
Depth(i) == IF reply # NoReply /\ results[i].cited THEN Greatest(3, RawDepth(i)) ELSE RawDepth(i)

OfAnswers(part) == Rate(part, Cardinality(Completed))
Deep(n) == OfAnswers(Cardinality({i \in Completed : Depth(i) >= n}))
AvgDepth == OfAnswers(FoldFunction(+, 0, [i \in Completed |-> Depth(i)]))

Gap(i) ==
  LET d == Depth(i) - HeuristicDepth(results[i].text)
  IN  IF d < 0 THEN -d ELSE d
Divergence == OfAnswers(FoldFunction(+, 0, [i \in Completed |-> Gap(i)]))
Confidence ==
  IF AtLeast(Divergence, 200) THEN "low" ELSE IF AtLeast(Divergence, 100) THEN "medium" ELSE "high"

-----------------------------------------------------------------------------
(* The benchmark: the company against each competitor, question by question.   *)
(* The company's questions without a result are not in it.                    *)

Asked == {i \in DOMAIN results : results[i].got # "none"}

VisibleIn(r) == r.mentioned \/ r.cited

Matchup(i, c) ==
  LET you == results[i]
      them == rivals[c][i]
  IN  CASE VisibleIn(you) /\ VisibleIn(them) ->
             IF you.cited /\ ~them.cited THEN "win"
             ELSE IF them.cited /\ ~you.cited THEN "loss" ELSE "mutual win"
        [] VisibleIn(you) /\ ~VisibleIn(them) -> "win"
        [] ~VisibleIn(you) /\ VisibleIn(them) -> "loss"
        [] OTHER -> "mutual loss"

\* A competitor's head to head counts every question.
HeadToHead(c) ==
  LET having(os) == Cardinality({i \in Asked : Matchup(i, c) \in os})
  IN  [wins |-> having({"win"}), losses |-> having({"loss"}),
       ties |-> having({"mutual win", "mutual loss"})]

\* The totals of a question count the competitors with a result for it.
Counted(i) == {c \in setup.rivals : rivals[c][i] # NoResult}

Overall ==
  LET having(os) == Cardinality({m \in Asked \X setup.rivals :
                       m[2] \in Counted(m[1]) /\ Matchup(m[1], m[2]) \in os})
  IN  [wins |-> having({"win"}), losses |-> having({"loss"}),
       ties |-> having({"mutual win", "mutual loss"})]

UniqueWins == {i \in Asked : setup.rivals # {} /\ \A c \in setup.rivals : Matchup(i, c) = "win"}
UniqueLosses == {i \in Asked : setup.rivals # {} /\ \A c \in setup.rivals : Matchup(i, c) = "loss"}

\* A competitor's rates are over its results; the company's over its answers.
RivalRate(c, P(_)) ==
  LET there == {i \in DOMAIN rivals[c] : rivals[c][i] # NoResult}
  IN  Rate(Cardinality({i \in there : P(rivals[c][i])}), Cardinality(there))
RivalMentions(c) == RivalRate(c, LAMBDA r : r.mentioned)
RivalCitations(c) == RivalRate(c, LAMBDA r : r.cited)

\* The company's rate less the average of the competitors' is over m / 100.
Plus(x, y) == <<x[1] * y[2] + y[1] * x[2], x[2] * y[2]>>
Average(f(_)) ==
  LET total == FoldSet(LAMBDA c, x : Plus(f(c), x), <<0, 1>>, setup.rivals)
  IN  IF setup.rivals = {} THEN <<0, 1>> ELSE <<total[1], total[2] * Cardinality(setup.rivals)>>
Lead(x, y) == <<x[1] * y[2] - y[1] * x[2], x[2] * y[2]>>

MentionLead == Lead(MentionRate(results), Average(RivalMentions))
CitationLead == Lead(CitationRate(results), Average(RivalCitations))

Matchups == Overall.wins + Overall.losses + Overall.ties
WinRate == Rate(Overall.wins, Matchups)

Position ==
  Named([strong |-> Over(WinRate, 60),
         weak |-> ~AtLeast(WinRate, 40),
         mention_lead |-> Over(MentionLead, 15),
         mention_gap |-> ~AtLeast(MentionLead, -15),
         citation_lead |-> Over(CitationLead, 10),
         citation_gap |-> ~AtLeast(CitationLead, -10),
         dominating |-> Cardinality(UniqueWins) > 3,
         missing |-> Cardinality(UniqueLosses) > 3,
         close_gap |-> UniqueLosses # {},
         cite |-> ~AtLeast(CitationLead, 0),
         audit |-> ~AtLeast(WinRate, 50)])
Ahead(c) ==
  LET h == HeadToHead(c)
      rate == Rate(h.wins, Cardinality(Asked))
  IN  IF Over(rate, 70) THEN "outperforming" ELSE IF ~AtLeast(rate, 30) THEN "trailing" ELSE "level"
Studied(c) == ~AtLeast(Lead(MentionRate(results), RivalMentions(c)), -20)

-----------------------------------------------------------------------------

ObservationNext ==
  \/ AnswerQuestion
  \/ AnswerRivals
  \/ Classify

ObservationSpec == ObservationInit /\ [][ObservationNext]_observationVars

Compared == Len(results) = setup.questions
Benchmarked == Compared /\ \A c \in setup.rivals : Len(rivals[c]) = setup.questions

PlainAnswers ==
  \A i \in DOMAIN results :
    results[i].got = "answered" /\ (results[i].cited => results[i].mentioned)

\* Where every question is answered and whoever is cited is mentioned, the words
\* on the leaning of the simulation agree with the difference of the rates.
InsightsAgree ==
  Compared /\ PlainAnswers =>
    /\ ~({"optimistic", "higher"} \subseteq Insights(results))
    /\ ~({"pessimistic", "lower"} \subseteq Insights(results))

\* "Prevents 'linked yet not citable' contradictions" (citation_depth.py:646):
\* whatever the classifier replies, the citable share is at least the citation
\* rate, once it is called; and a rating that is called certain has a text to rest on, or is close to
\* nothing.
LinkedIsCitable ==
  reply # NoReply =>
    /\ ~Above(CitationRate(results), Deep(3))
    /\ Confidence = "high" =>
         ~AtLeast(AvgDepth, 100) \/ \E i \in Completed : HeuristicDepth(results[i].text) > 0

\* The totals are those of the head to heads: a competitor without a result adds
\* wins to its head to head only, never a loss.
HeadToHeadsAddUp ==
  Benchmarked =>
    LET total(f) == FoldFunction(+, 0, [c \in setup.rivals |-> HeadToHead(c)[f]])
    IN  /\ Overall.losses = total("losses")
        /\ Overall.wins <= total("wins") /\ Overall.ties <= total("ties")
        /\ (\A c \in setup.rivals, i \in Asked : rivals[c][i] # NoResult) =>
             Overall.wins = total("wins") /\ Overall.ties = total("ties")

\* Where every competitor has a result for every question, the company is not in a
\* strong position while it trails everyone, nor in a weak one while it outperforms
\* everyone.
PositionIsEarned ==
  Benchmarked /\ setup.rivals # {} /\ (\A c \in setup.rivals, i \in Asked : rivals[c][i] # NoResult) =>
    /\ "strong" \in Position => \E c \in setup.rivals : Ahead(c) # "trailing"
    /\ "weak" \in Position => \E c \in setup.rivals : Ahead(c) # "outperforming"

\* A company behind each competitor is told of the gap.
GapIsTold ==
  Benchmarked /\ setup.rivals # {} /\ (\A c \in setup.rivals : Studied(c)) => "mention_gap" \in Position

\* Of the three readings of an answer, the parser finds each name the runner finds; the
\* domain it finds, or a link, has a domain the runner finds; a link the runner misses
\* has its scheme in capitals (runner.py:422 against parser.py:418); and an answer has
\* no depth where the place of the name is not found.
ReadingsNest ==
  \A i \in DOMAIN results : results[i].got = "answered" =>
    LET text == results[i].text
    IN  /\ results[i].mentioned => HasCompanyMention(text)
        /\ HasDomainMention(text) \/ HasUrlCitation(text) => MentionsDomain(text)
        /\ HasUrlCitation(text) => results[i].cited \/ Holds(text, {"URL"})
        /\ MentionPosition(text) = "absent" => HeuristicDepth(text) = 0

\* What is derived from the same answers by the comparison, the benchmark, the runner
\* and the parser does not contradict itself (worker/observation).
ObservationAgrees == InsightsAgree /\ HeadToHeadsAddUp /\ PositionIsEarned /\ GapIsTold /\ ReadingsNest
=============================================================================
