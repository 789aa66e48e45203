------------------------------- MODULE Chunking -------------------------------
(***************************************************************************)
(* How the text of a page is cut into chunks                                 *)
(* (worker/chunking/splitter.py, worker/chunking/chunker.py).                *)
(*                                                                         *)
(* A text is a sequence of words, each a record:                            *)
(*   sym     what the word says                                            *)
(*   gap     what is before it: "space", "line" or "blank" (an empty line)   *)
(*   starts  it begins a sentence                                          *)
(*   mark    it begins a "heading" or a list or table "item", or "none"      *)
(* A piece of a text is what is between two words, <<first, last>>.           *)
(***************************************************************************)
EXTENDS Integers, Sequences, FiniteSets, SequencesExt, FiniteSetsExt

CONSTANTS MaxSize, MinSize, Overlap   \* tokens, tokens and words

ASSUME SizesAssumption == MaxSize \in Nat \ {0} /\ MinSize \in 0..MaxSize /\ Overlap \in Nat

Tokens(words) == (13 * words) \div 10
Length(piece) == piece[2] - piece[1] + 1
Fits(piece) == Tokens(Length(piece)) <= MaxSize

\* A piece cut before every word with a property.
Cut(piece, text, P(_)) ==
  LET starts == {piece[1]} \cup {i \in piece[1]..piece[2] : P(text[i])}
      ends == {s - 1 : s \in starts \ {piece[1]}} \cup {piece[2]}
  IN  {<<s, Min({e \in ends : e >= s})>> : s \in starts}
InOrder(pieces) == SetToSortSeq(pieces, LAMBDA p, q : p[1] < q[1])

Sections(text) == InOrder(Cut(<<1, Len(text)>>, text, LAMBDA w : w.mark = "heading"))
Paragraphs(piece, text) == InOrder(Cut(piece, text, LAMBDA w : w.gap = "blank"))
LinesOf(piece, text) == InOrder(Cut(piece, text, LAMBDA w : w.gap # "space"))
SentencesOf(piece, text) == InOrder(Cut(piece, text, LAMBDA w : w.starts))
WordsOf(piece) == [i \in 1..Length(piece) |-> <<piece[1] + i - 1, piece[1] + i - 1>>]

\* A list or a table: two lines or more, most of them items.
IsStructured(piece, text) ==
  LET lines == LinesOf(piece, text)
      items == {i \in DOMAIN lines : text[lines[i][1]].mark = "item"}
  IN  Len(lines) >= 2 /\ 2 * Cardinality(items) > Len(lines)

-----------------------------------------------------------------------------
(* Cutting down to size.  A piece is told with how it is joined to the text    *)
(* before it.                                                               *)

\* The units, one after the other, are put together as long as their tokens, each
\* rounded down, are not too many; the state is the pieces so far, the open one,
\* and its tokens.
Opened == [done |-> <<>>, open |-> <<>>, tokens |-> 0]
Closed(s) == IF s.open = <<>> THEN s.done ELSE Append(s.done, s.open)
Joined(s, unit) ==
  LET tokens == Tokens(Length(unit))
  IN  IF s.tokens + tokens <= MaxSize
      THEN [s EXCEPT !.open = IF @ = <<>> THEN unit ELSE <<@[1], unit[2]>>, !.tokens = @ + tokens]
      ELSE [done |-> Closed(s), open |-> unit, tokens |-> tokens]
Grouped(units) == Closed(FoldLeft(Joined, Opened, units))

\* A sentence that is too long is cut between words.
SentenceJoined(s, sentence) ==
  IF Fits(sentence) THEN Joined(s, sentence)
  ELSE [Opened EXCEPT !.done = Closed(s) \o Grouped(WordsOf(sentence))]
BySentences(piece, text) == Closed(FoldLeft(SentenceJoined, Opened, SentencesOf(piece, text)))

\* A line that is too long stays whole.
ByParagraph(piece, text) ==
  IF Fits(piece) THEN <<piece>>
  ELSE IF IsStructured(piece, text) THEN Grouped(LinesOf(piece, text))
  ELSE BySentences(piece, text)
BySection(piece, text) ==
  IF Fits(piece) THEN <<piece>>
  ELSE FlattenSeq([i \in DOMAIN Paragraphs(piece, text) |->
                     ByParagraph(Paragraphs(piece, text)[i], text)])
Hierarchical(text) ==
  FlattenSeq([i \in DOMAIN Sections(text) |-> BySection(Sections(text)[i], text)])

\* Mutant: the last one is forgotten.
ForgottenLast(pieces) ==
  LET small(p) == Tokens(Length(p)) < MinSize
      merge(s, p) ==
        IF s.open = <<>> THEN [s EXCEPT !.open = p]
        ELSE IF small(s.open) /\ Fits(<<s.open[1], p[2]>>) THEN [s EXCEPT !.open[2] = p[2]]
        ELSE [s EXCEPT !.done = Append(@, s.open), !.open = p]
      merged == FoldLeft(merge, Opened, pieces)
  IN  IF merged.done = <<>> THEN Closed(merged) ELSE merged.done
\* A small piece takes in the next one if both fit.
Merged(pieces) ==
  LET small(p) == Tokens(Length(p)) < MinSize
      merge(s, p) ==
        IF s.open = <<>> THEN [s EXCEPT !.open = p]
        ELSE IF small(s.open) /\ Fits(<<s.open[1], p[2]>>) THEN [s EXCEPT !.open[2] = p[2]]
        ELSE [s EXCEPT !.done = Append(@, s.open), !.open = p]
  IN  Closed(FoldLeft(merge, Opened, pieces))

\* The last words of the piece before are repeated, if that is not much too long.
WithOverlap(before, piece) ==
  LET more == <<Max({before[1], before[2] - Overlap + 1}), piece[2]>>
  IN  IF Overlap > 0 /\ 10 * Tokens(Length(more)) <= 12 * MaxSize THEN more ELSE piece

\* The pieces, without and with the repeated words.
Pieces(text) ==
  IF text = <<>> THEN <<>>
  ELSE IF Fits(<<1, Len(text)>>) THEN <<<<1, Len(text)>>>>
  ELSE Merged(Hierarchical(text))
Overlapped(pieces) ==
  [i \in DOMAIN pieces |-> IF i = 1 THEN pieces[1] ELSE WithOverlap(pieces[i - 1], pieces[i])]

-----------------------------------------------------------------------------
(* The chunks of a page.  A chunk is told by what it says: its hash leaves out   *)
(* the case of letters and what is between the words.                         *)

Says(piece, text) == [i \in 1..Length(piece) |-> text[piece[1] + i - 1].sym]

\* What says the same as a chunk before it is left out.
Chunks(text) ==
  LET take(chunks, piece) ==
        IF Says(piece, text) \in Range(chunks) THEN chunks
        ELSE Append(chunks, Says(piece, text))
  IN  FoldLeft(take, <<>>, Overlapped(Pieces(text)))

-----------------------------------------------------------------------------
(* What is asked of the chunks of a text *)

\* Words that are together in one of a set of chunks.
Together(piece, text, chunks) ==
  \E chunk \in chunks : \E from \in DOMAIN chunk :
    /\ from + Length(piece) - 1 <= Len(chunk)
    /\ SubSeq(chunk, from, from + Length(piece) - 1) = Says(piece, text)

\* Every word is in a chunk, and a sentence that fits is whole in one, unless it is
\* part of a list or a table (SplitConfig.preserve_sentences).
KeptIn(text, chunks) ==
  /\ \A i \in DOMAIN text : Together(<<i, i>>, text, chunks)
  /\ text # <<>> =>
       \A s \in Range(Sections(text)) : \A p \in Range(Paragraphs(s, text)) :
         \/ IsStructured(p, text)
         \/ \A q \in Range(SentencesOf(p, text)) : Fits(q) => Together(q, text, chunks)

\* Chunks are not much larger than they may be: rounding each part down lets one
\* grow by three tenths; only a line of a list may be longer.  The pieces follow one
\* another, and what a chunk repeats is in the one before.
Sized(text) ==
  \A pieces \in {Pieces(text)} : \A overlapped \in {Overlapped(pieces)} :
    \A i \in DOMAIN pieces :
      /\ \/ Tokens(Length(pieces[i])) <= Tokens(MaxSize)
         \/ Len(LinesOf(pieces[i], text)) = 1
      /\ i > 1 =>
           /\ pieces[i][1] = pieces[i - 1][2] + 1
           /\ overlapped[i][1] >= pieces[i - 1][1]
           /\ overlapped[i] # pieces[i] => 10 * Tokens(Length(overlapped[i])) <= 12 * MaxSize
=============================================================================
