----------------------------- MODULE ContentStore -----------------------------
(***************************************************************************)
(* The chunks of the pages of a site, kept by its audits                     *)
(* (worker/tasks/audit.py, steps 3 to 5; worker/embeddings/storage.py;          *)
(* worker/embeddings/embedder.py).                                           *)
(*                                                                         *)
(* An audit cuts every page, embeds the chunks and then stores them one after   *)
(* the other, page by page, in one transaction.  A site has one row for what     *)
(* a chunk says (content_hash, site_id): the second chunk that says so gives the  *)
(* row its vector and leaves its page.  Nothing deletes a row.  Audits of one     *)
(* site may run at the same time: one that comes to a row the other one has       *)
(* written waits for its transaction to end, and the database (not part of the     *)
(* repository) ends one of two that wait for each other.                         *)
(***************************************************************************)
EXTENDS Chunking

CONSTANTS
  Audits,
  Starts          \* the pages that each audit finds (none: there is no such audit)

VARIABLES
  found,          \* found[a]: the texts of the pages, in the order of the crawl
  phase,          \* "read", "storing", "done", "failed" or "aborted" (by the database)
  chunks,         \* the chunks to store, in their order: the page and what it says
  todo,           \* the places of those that are not yet stored
  written,        \* the rows of the open transaction, by what they say
  index,          \* the documents of the audit's own retriever, by what they say
  rows            \* the rows that are committed, by what they say

vars == <<found, phase, chunks, todo, written, index, rows>>

Nothing == [h \in {} |-> 0]
\* What two tables hold; where both have a row, that of the first.
Over(f, g) == [h \in DOMAIN f \cup DOMAIN g |-> IF h \in DOMAIN f THEN f[h] ELSE g[h]]

\* The chunks of the pages, in the order in which they are stored.
ChunksOf(pages) ==
  FlattenSeq([p \in DOMAIN pages |->
    [i \in DOMAIN Chunks(pages[p]) |-> [page |-> p, says |-> Chunks(pages[p])[i]]]])

Init ==
  /\ found \in Starts
  /\ phase = [a \in Audits |-> IF found[a] = <<>> THEN "failed" ELSE "read"]
  /\ chunks = [a \in Audits |-> <<>>]
  /\ todo = [a \in Audits |-> {}]
  /\ written = [a \in Audits |-> Nothing]
  /\ index = [a \in Audits |-> Nothing]
  /\ rows = Nothing

\* The pages are cut and embedded before the first row is written.
ChunkAndEmbed(a) ==
  /\ phase[a] = "read"
  /\ phase' = [phase EXCEPT ![a] = "storing"]
  /\ chunks' = [chunks EXCEPT ![a] = ChunksOf(found[a])]
  /\ todo' = [todo EXCEPT ![a] = 1..Len(chunks'[a])]
  /\ UNCHANGED <<found, written, index, rows>>

\* Mutant: any chunk of the rest is the next one.
AnyNext(a) == todo[a]
NextToStore(a) == {i \in todo[a] : \A j \in todo[a] : i <= j}

\* The transaction of an audit has written the row.
Holds(a, says) == phase[a] = "storing" /\ says \in DOMAIN written[a]
Waits(a, b) ==
  /\ a # b /\ phase[a] = "storing"
  /\ \E i \in NextToStore(a) : Holds(b, chunks[a][i].says)

Kept(a) == Over(written[a], rows)

\* The row a chunk leaves: that of its own transaction, or of the site, or a new one.
Upserted(a, chunk) ==
  LET mine == <<a, chunk.page>>
  IN  IF chunk.says \in DOMAIN Kept(a) THEN [Kept(a)[chunk.says] EXCEPT !.vector = mine]
      ELSE [page |-> mine, vector |-> mine]

\* A chunk is stored, and given to the audit's own retriever, where the last page
\* that says so counts.
Store(a) ==
  /\ phase[a] = "storing"
  /\ \E i \in NextToStore(a) :
       LET chunk == chunks[a][i] IN
       /\ \A b \in Audits \ {a} : ~Holds(b, chunk.says)
       /\ written' = [written EXCEPT ![a] = Over([h \in {chunk.says} |-> Upserted(a, chunk)], @)]
       /\ index' = [index EXCEPT ![a] = Over([h \in {chunk.says} |-> chunk.page], @)]
       /\ todo' = [todo EXCEPT ![a] = @ \ {i}]
  /\ UNCHANGED <<found, phase, chunks, rows>>

Commit(a) ==
  /\ phase[a] = "storing" /\ todo[a] = {}
  /\ rows' = Kept(a)
  /\ written' = [written EXCEPT ![a] = Nothing]
  /\ phase' = [phase EXCEPT ![a] = "done"]
  /\ UNCHANGED <<found, chunks, todo, index>>

\* The worker ends, or the database fails, before the commit.
Crash(a) ==
  /\ phase[a] \in {"read", "storing"}
  /\ phase' = [phase EXCEPT ![a] = "failed"]
  /\ written' = [written EXCEPT ![a] = Nothing]
  /\ UNCHANGED <<found, chunks, todo, index, rows>>

\* The database ends one of two audits that wait for each other.
Abort(a) ==
  /\ \E b \in Audits : Waits(a, b) /\ Waits(b, a)
  /\ phase' = [phase EXCEPT ![a] = "aborted"]
  /\ written' = [written EXCEPT ![a] = Nothing]
  /\ UNCHANGED <<found, chunks, todo, index, rows>>

Next == \E a \in Audits :
  ChunkAndEmbed(a) \/ Store(a) \/ Commit(a) \/ Crash(a) \/ Abort(a)

Spec == Init /\ [][Next]_vars

-----------------------------------------------------------------------------
(* Properties *)

\* Whatever else is stored, crashes or is stored again, every word of every page of an
\* audit that committed is in a row of the site, and a sentence that fits in a chunk
\* is whole in one; its chunks are not much too large, follow one another and repeat
\* only what the one before says; and what the audit itself searches is stored.
CommittedIsSearchable ==
  \A a \in Audits : phase[a] = "done" =>
    /\ \A p \in DOMAIN found[a] : KeptIn(found[a][p], DOMAIN rows) /\ Sized(found[a][p])
    /\ DOMAIN index[a] \subseteq DOMAIN rows

\* Where an audit first stores what is said.
Said(a) == {chunks[a][i].says : i \in 1..Len(chunks[a])}
FirstPlace(a, says) == Min({i \in 1..Len(chunks[a]) : chunks[a][i].says = says})

\* The database ends an audit only when another one of the site stores two chunks in
\* the other order: audits that find the same pages in the same order never block
\* each other for good.
OneOrderPasses ==
  \A a \in Audits : phase[a] = "aborted" =>
    \E b \in Audits \ {a}, x, y \in Said(a) :
      /\ FirstPlace(a, x) < FirstPlace(a, y)
      /\ {x, y} \subseteq Said(b) /\ FirstPlace(b, y) < FirstPlace(b, x)

=============================================================================
