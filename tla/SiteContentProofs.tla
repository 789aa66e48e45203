--------------------------- MODULE SiteContentProofs ---------------------------
(***************************************************************************)
(* What an audit reads of a site and keeps of it.  Crawl: for any set of     *)
(* URLs, links, sitemaps and rules, and every limit of pages, depth and      *)
(* tries.  ContentStore: for any number of audits, whatever pages they find   *)
(* and however the pages are cut; the proofs know a chunk only by its place   *)
(* and by what it says, because what the cutting computes from a text is      *)
(* folded over it (TLC checks that).                                         *)
(***************************************************************************)
EXTENDS Crawl, ContentStore, SequenceTheorems, FiniteSetTheorems, NaturalsInduction,
        WellFoundedInduction, TLAPS

Fetching == IF pc = "fetch" THEN {current.url} ELSE {}
Distinct(entries) ==
  \A i, j \in DOMAIN entries : entries[i].url = entries[j].url => i = j

\* Where the URLs are that were seen: EachUrlOnce without counting.
Placed ==
  /\ IsFiniteSet(seen)
  /\ seen = UrlsIn(queue) \cup Fetching \cup UrlsIn(pages) \cup failed \cup skipped
  /\ Distinct(queue) /\ Distinct(pages)
  /\ UrlsIn(queue) \cap (Fetching \cup UrlsIn(pages) \cup failed \cup skipped) = {}
  /\ Fetching \cap (UrlsIn(pages) \cup failed \cup skipped) = {}
  /\ UrlsIn(pages) \cap (failed \cup skipped) = {}
  /\ failed \cap skipped = {}

\* What robots.txt forbids is not asked for.
Obeyed == robots \cap (Fetching \cup UrlsIn(pages) \cup failed) = {}

\* Nothing has happened before the seeds are known.
Fresh ==
  /\ pc \in {"idle", "robots"} =>
       /\ pages = <<>> /\ failed = {} /\ skipped = {} /\ robots = {}
       /\ seeds = seen
       /\ \A i \in DOMAIN queue : queue[i].depth = 0
  /\ pc = "idle" => queue = <<>> /\ seen = {}

\* The URLs that d links lead to, told from the depths of the pages.
Near(d) ==
  seeds \cup {u \in Urls : \E i \in DOMAIN pages : pages[i].depth < d /\ u \in Links(pages[i].url)}

\* The links of every page above the limit were seen, and nothing else.
Searched == seen = Near(MaxDepth)

\* An entry is at its distance.
AtDistance(e) == e.url \in Near(e.depth) /\ (e.depth > 0 => e.url \notin Near(e.depth - 1))
Listed == Range(queue) \cup Range(pages) \cup (IF pc = "fetch" THEN {current} ELSE {})
AllAtDistance == \A e \in Listed : AtDistance(e)

\* The search is breadth first: the queue holds at most two depths, in order, and
\* what was taken from it is no deeper.
DepthsInOrder ==
  /\ \A i, j \in DOMAIN queue : queue[i].depth <= queue[j].depth + 1
  /\ \A i, j \in DOMAIN queue : i < j => queue[i].depth <= queue[j].depth
  /\ \A i \in DOMAIN pages, j \in DOMAIN queue : pages[i].depth <= queue[j].depth
  /\ pc = "fetch" =>
       /\ \A j \in DOMAIN queue : /\ current.depth <= queue[j].depth
                                  /\ queue[j].depth <= current.depth + 1
       /\ \A i \in DOMAIN pages : pages[i].depth <= current.depth

\* The inductive invariant.
IInv ==
  /\ TypeOK
  /\ Placed
  /\ Obeyed
  /\ Fresh
  /\ Searched
  /\ AllAtDistance
  /\ DepthsInOrder

-----------------------------------------------------------------------------
(* The least number of a set.  The induction theorems of the library take operators, *)
(* which no prover here instantiates: induction goes by a least counterexample.       *)

LEMMA NatOrder == IsWellFoundedOn({p \in Nat \X Nat : p[1] < p[2]}, Nat)
BY NatLessThanWellFounded, SMT DEF OpToRel

\* Every set of numbers that is not empty has a least one.
LEMMA LeastNat ==
  ASSUME NEW T \in SUBSET Nat, T # {}
  PROVE  \E n \in T : \A m \in T : n <= m
<1> DEFINE R == {p \in Nat \X Nat : p[1] < p[2]}
<1>1. IsWellFoundedOn(R, Nat)
  BY NatOrder
<1> HIDE DEF R
<1>2. PICK x \in T : \A y \in T : ~(<<y, x>> \in R)
  BY <1>1, WFMin
<1>3. \A y \in T : ~(y < x)
  BY <1>2 DEF R
<1> QED
  BY <1>3

-----------------------------------------------------------------------------
(* Lists of entries. *)

LEMMA EntryTypes ==
  ASSUME NEW s \in Seq(Entries)
  PROVE  \A i \in DOMAIN s : /\ s[i] \in Entries
                             /\ s[i].url \in Urls /\ s[i].url \in UrlsIn(s)
                             /\ s[i].depth \in 0..MaxDepth /\ s[i].depth \in Nat
<1> TAKE i \in DOMAIN s
<1>1. s[i] \in Entries
  OBVIOUS
<1>2. s[i].url \in Urls /\ s[i].depth \in 0..MaxDepth
  BY <1>1 DEF Entries
<1>3. s[i].url \in UrlsIn(s)
  BY DEF UrlsIn
<1> QED
  BY <1>1, <1>2, <1>3, CrawlAssumption

\* The URLs of a list of entries that is one longer.
LEMMA AppendUrls ==
  ASSUME NEW S, NEW s \in Seq(S), NEW e \in S
  PROVE  /\ Append(s, e) \in Seq(S)
         /\ UrlsIn(Append(s, e)) = UrlsIn(s) \cup {e.url}
         /\ Distinct(s) /\ e.url \notin UrlsIn(s) => Distinct(Append(s, e))
<1>1. /\ Append(s, e) \in Seq(S) /\ DOMAIN Append(s, e) = 1..(Len(s) + 1)
      /\ Len(s) \in Nat /\ DOMAIN s = 1..Len(s)
      /\ \A i \in 1..Len(s) : Append(s, e)[i] = s[i]
      /\ Append(s, e)[Len(s) + 1] = e
  OBVIOUS
<1>2. UrlsIn(Append(s, e)) = UrlsIn(s) \cup {e.url}
  BY <1>1 DEF UrlsIn
<1>3. ASSUME Distinct(s), e.url \notin UrlsIn(s) PROVE Distinct(Append(s, e))
  BY <1>1, <1>3 DEF UrlsIn, Distinct
<1> QED
  BY <1>1, <1>2, <1>3

\* Where an entry of a list that is one longer comes from.
LEMMA AppendParts ==
  ASSUME NEW S, NEW s \in Seq(S), NEW e \in S, NEW longer, longer = Append(s, e)
  PROVE  /\ \A i \in DOMAIN s : i \in DOMAIN longer /\ longer[i] = s[i]
         /\ \A i \in DOMAIN longer : (i \in DOMAIN s /\ longer[i] = s[i]) \/ longer[i] = e
         /\ \E i \in DOMAIN longer : longer[i] = e
<1>1. /\ DOMAIN longer = 1..(Len(s) + 1)
      /\ Len(s) \in Nat /\ DOMAIN s = 1..Len(s)
      /\ \A i \in 1..Len(s) : longer[i] = s[i]
      /\ longer[Len(s) + 1] = e
  OBVIOUS
<1> QED
  BY <1>1

\* Where an entry of two lists, one after the other, comes from.
LEMMA ConcatParts ==
  ASSUME NEW S, NEW s \in Seq(S), NEW t \in Seq(S), NEW i \in DOMAIN (s \o t)
  PROVE  \/ i \in DOMAIN s /\ (s \o t)[i] = s[i]
         \/ /\ i \notin DOMAIN s
            /\ \E k \in DOMAIN t : i = Len(s) + k /\ (s \o t)[i] = t[k]
<1>1. PICK m \in Nat, n \in Nat : m = Len(s) /\ n = Len(t)
  OBVIOUS
<1>2. PICK st : st = s \o t
  OBVIOUS
<1>3. /\ DOMAIN st = 1..(m + n) /\ DOMAIN s = 1..m /\ DOMAIN t = 1..n
      /\ \A j \in 1..m : st[j] = s[j]
      /\ \A j \in 1..n : st[m + j] = t[j]
  BY <1>1, <1>2
<1>4. CASE i \in 1..m
  BY <1>2, <1>3, <1>4
<1>5. CASE i \notin 1..m
  <2>1. i - m \in 1..n /\ m + (i - m) = i
    BY <1>2, <1>3, <1>5
  <2> QED
    BY <1>1, <1>2, <1>3, <1>5, <2>1
<1> QED
  BY <1>4, <1>5

\* The URLs of two lists of entries, one after the other.
LEMMA ConcatUrls ==
  ASSUME NEW S, NEW s \in Seq(S), NEW t \in Seq(S)
  PROVE  /\ s \o t \in Seq(S)
         /\ UrlsIn(s \o t) = UrlsIn(s) \cup UrlsIn(t)
         /\ Distinct(s) /\ Distinct(t) /\ UrlsIn(s) \cap UrlsIn(t) = {} => Distinct(s \o t)
<1>1. PICK m \in Nat, n \in Nat : m = Len(s) /\ n = Len(t)
  OBVIOUS
<1> DEFINE st == s \o t
<1>2. /\ st \in Seq(S) /\ DOMAIN st = 1..(m + n) /\ DOMAIN s = 1..m /\ DOMAIN t = 1..n
      /\ \A i \in 1..m : st[i] = s[i]
  BY <1>1
<1>3. \A i \in 1..n : st[m + i] = t[i]
  BY <1>1
<1> HIDE DEF st
<1>4. ASSUME NEW i \in 1..(m + n), i \notin 1..m
      PROVE  i - m \in 1..n /\ st[i] = t[i - m]
  <2>1. i - m \in 1..n /\ m + (i - m) = i
    BY <1>4
  <2> QED
    BY <1>3, <2>1
<1>5. UrlsIn(st) = UrlsIn(s) \cup UrlsIn(t)
  <2>1. UrlsIn(st) \subseteq UrlsIn(s) \cup UrlsIn(t)
    BY <1>2, <1>4 DEF UrlsIn
  <2>2. UrlsIn(s) \subseteq UrlsIn(st)
    <3>1. \A i \in 1..m : i \in 1..(m + n)
      OBVIOUS
    <3> QED
      BY <1>2, <3>1 DEF UrlsIn
  <2>3. UrlsIn(t) \subseteq UrlsIn(st)
    <3>1. \A i \in 1..n : m + i \in 1..(m + n)
      OBVIOUS
    <3> SUFFICES ASSUME NEW i \in 1..n PROVE t[i].url \in UrlsIn(st)
      BY <1>2 DEF UrlsIn
    <3>2. m + i \in DOMAIN st /\ st[m + i] = t[i]
      BY <1>2, <1>3, <3>1
    <3> QED
      BY <3>2 DEF UrlsIn
  <2> QED
    BY <2>1, <2>2, <2>3
<1>6. ASSUME Distinct(s), Distinct(t), UrlsIn(s) \cap UrlsIn(t) = {} PROVE Distinct(st)
  <2> SUFFICES ASSUME NEW i \in 1..(m + n), NEW j \in 1..(m + n), st[i].url = st[j].url
               PROVE  i = j
    BY <1>2 DEF Distinct
  <2>1. CASE i \in 1..m /\ j \in 1..m
    BY <1>2, <1>6, <2>1 DEF Distinct
  <2>2. CASE i \notin 1..m /\ j \notin 1..m
    <3>1. PICK k \in 1..n, l \in 1..n : /\ k = i - m /\ l = j - m
                                        /\ st[i] = t[k] /\ st[j] = t[l]
      BY <1>4, <2>2
    <3>2. k = l
      BY <1>2, <1>6, <3>1 DEF Distinct
    <3> QED
      BY <3>1, <3>2
  <2>3. CASE i \in 1..m /\ j \notin 1..m
    BY <1>2, <1>4, <1>6, <2>3 DEF UrlsIn
  <2>4. CASE i \notin 1..m /\ j \in 1..m
    BY <1>2, <1>4, <1>6, <2>4 DEF UrlsIn
  <2> QED
    BY <2>1, <2>2, <2>3, <2>4
<1> QED
  BY <1>2, <1>5, <1>6 DEF st

\* The URLs of a list of entries without its first one.
LEMMA TailUrls ==
  ASSUME NEW S, NEW s \in Seq(S), s # <<>>, Distinct(s)
  PROVE  /\ Tail(s) \in Seq(S) /\ Head(s) \in S /\ Head(s) = s[1]
         /\ UrlsIn(s) = UrlsIn(Tail(s)) \cup {Head(s).url}
         /\ Head(s).url \notin UrlsIn(Tail(s))
         /\ Distinct(Tail(s))
<1>1. /\ Tail(s) \in Seq(S) /\ Head(s) \in S /\ Head(s) = s[1]
      /\ Len(s) \in Nat \ {0} /\ DOMAIN s = 1..Len(s)
      /\ DOMAIN Tail(s) = 1..(Len(s) - 1)
      /\ \A i \in 1..(Len(s) - 1) : Tail(s)[i] = s[i + 1]
  <2>1. Len(s) \in Nat \ {0} /\ DOMAIN s = 1..Len(s)
    BY EmptySeq
  <2>2. /\ Tail(s) \in Seq(S) /\ Head(s) \in S /\ Len(Tail(s)) = Len(s) - 1
        /\ \A i \in 1..Len(Tail(s)) : Tail(s)[i] = s[i + 1]
    BY HeadTailProperties
  <2>3. DOMAIN Tail(s) = 1..(Len(s) - 1)
    BY <2>2, LenProperties
  <2>4. Head(s) = s[1]
    BY <2>1
  <2> QED
    BY <2>1, <2>2, <2>3, <2>4
<1>2. \A i \in 1..Len(s) : i = 1 \/ (i - 1 \in 1..(Len(s) - 1) /\ Tail(s)[i - 1] = s[i])
  BY <1>1
<1>3. \A i \in 1..(Len(s) - 1) : i + 1 \in 1..Len(s) /\ i + 1 # 1 /\ 1 \in 1..Len(s)
  BY <1>1
<1>4. UrlsIn(s) = UrlsIn(Tail(s)) \cup {Head(s).url}
  <2>1. ASSUME NEW i \in 1..Len(s) PROVE s[i].url \in UrlsIn(Tail(s)) \cup {Head(s).url}
    <3>1. CASE i = 1
      BY <1>1, <3>1
    <3>2. CASE i # 1
      <4>1. PICK j \in DOMAIN Tail(s) : Tail(s)[j] = s[i]
        BY <1>1, <1>2, <3>2
      <4> QED
        BY <4>1 DEF UrlsIn
    <3> QED
      BY <3>1, <3>2
  <2>2. ASSUME NEW i \in 1..(Len(s) - 1) PROVE Tail(s)[i].url \in UrlsIn(s)
    <3>1. i + 1 \in DOMAIN s /\ Tail(s)[i] = s[i + 1]
      BY <1>1, <1>3
    <3> QED
      BY <3>1 DEF UrlsIn
  <2>3. UrlsIn(s) \subseteq UrlsIn(Tail(s)) \cup {Head(s).url}
    BY <1>1, <2>1 DEF UrlsIn
  <2>4. UrlsIn(Tail(s)) \subseteq UrlsIn(s)
    BY <1>1, <2>2 DEF UrlsIn
  <2>5. Head(s).url \in UrlsIn(s)
    BY <1>1 DEF UrlsIn
  <2> QED
    BY <2>3, <2>4, <2>5
<1>5. Head(s).url \notin UrlsIn(Tail(s))
  BY <1>1, <1>3 DEF UrlsIn, Distinct
<1>6. Distinct(Tail(s))
  BY <1>1, <1>3 DEF Distinct
<1> QED
  BY <1>1, <1>4, <1>5, <1>6

\* Entries of different URLs are as many as their URLs.
LEMMA CountUrls ==
  ASSUME NEW S, NEW s \in Seq(S)
  PROVE  /\ IsFiniteSet(UrlsIn(s))
         /\ Distinct(s) => Cardinality(UrlsIn(s)) = Len(s)
<1> DEFINE f == [i \in 1..Len(s) |-> s[i].url]
<1>1. Len(s) \in Nat /\ DOMAIN s = 1..Len(s)
  OBVIOUS
<1>2. f \in Surjection(1..Len(s), UrlsIn(s))
  BY <1>1 DEF Surjection, UrlsIn
<1>3. Distinct(s) => f \in Injection(1..Len(s), UrlsIn(s))
  BY <1>1 DEF Injection, IsInjective, UrlsIn, Distinct
<1> HIDE DEF f
<1>4. IsFiniteSet(1..Len(s)) /\ Cardinality(1..Len(s)) = Len(s)
  <2>1. Len(s) \in Int /\ ~ (1 > Len(s)) => Len(s) - 1 + 1 = Len(s)
    BY <1>1
  <2> QED
    BY <1>1, FS_Interval
<1> QED
  BY <1>2, <1>3, <1>4, FS_Surjection

\* Sets without a common element are as many as both together.
LEMMA DisjointSum ==
  ASSUME NEW S, NEW T, IsFiniteSet(S), IsFiniteSet(T), S \cap T = {}
  PROVE  /\ IsFiniteSet(S \cup T) /\ Cardinality(S) \in Nat /\ Cardinality(T) \in Nat
         /\ Cardinality(S \cup T) = Cardinality(S) + Cardinality(T)
<1>1. Cardinality(S \cap T) = 0
  BY FS_EmptySet
<1>2. Cardinality(S) \in Nat /\ Cardinality(T) \in Nat
  BY FS_CardinalityType
<1>3. /\ IsFiniteSet(S \cup T)
      /\ Cardinality(S \cup T) = Cardinality(S) + Cardinality(T) - Cardinality(S \cap T)
  BY FS_Union
<1> QED
  BY <1>1, <1>2, <1>3

\* What a list of URLs adds: each internal one that is not known, once, at the
\* given depth.
LEMMA NewEntriesSound ==
  ASSUME NEW list \in Seq(Urls \cup Outside), NEW known, NEW depth \in 0..MaxDepth,
         NEW new, new = NewEntries(list, known, depth)
  PROVE  /\ new \in Seq(Entries)
         /\ UrlsIn(new) = {list[i] : i \in DOMAIN list} \cap (Urls \ known)
         /\ Distinct(new)
         /\ \A k \in DOMAIN new : new[k].depth = depth
<1> DEFINE places == {i \in DOMAIN list : /\ list[i] \in Urls \ known
                                          /\ \A j \in 1..(i - 1) : list[j] # list[i]}
           upto(i) == {j \in places : j <= i}
           rank == [i \in places |-> Cardinality(upto(i))]
           n == Cardinality(places)
<1>1. Len(list) \in Nat /\ DOMAIN list = 1..Len(list)
  OBVIOUS
<1>2. /\ IsFiniteSet(places) /\ n \in Nat
      /\ \A i \in places : i \in 1..Len(list)
  <2>1. IsFiniteSet(1..Len(list))
    BY <1>1, FS_Interval
  <2>2. places \in SUBSET (1..Len(list))
    BY <1>1
  <2> QED
    BY <2>1, <2>2, FS_Subset, FS_CardinalityType
<1>3. \A i, j \in places : list[i] = list[j] => i = j
  <2> SUFFICES ASSUME NEW i \in places, NEW j \in places, list[i] = list[j], i < j PROVE FALSE
    BY <1>1, <1>2
  <2> QED
    BY <1>1
<1>4. \A i \in places : list[i] \in Urls \ known
  OBVIOUS
<1>5. \A u \in {list[i] : i \in DOMAIN list} \cap (Urls \ known) : \E i \in places : list[i] = u
  <2> TAKE u \in {list[i] : i \in DOMAIN list} \cap (Urls \ known)
  <2> DEFINE T == {i \in DOMAIN list : list[i] = u}
  <2>1. T \in SUBSET Nat /\ T # {}
    BY <1>1
  <2>2. PICK i \in T : \A j \in T : i <= j
    <3> HIDE DEF T
    <3> QED
      BY <2>1, LeastNat
  <2>3. \A j \in 1..(i - 1) : list[j] # list[i]
    BY <1>1, <2>2
  <2> QED
    BY <2>2, <2>3
<1> HIDE DEF places
<1>6. new = [k \in 1..n |-> Entry(list[CHOOSE i \in places : rank[i] = k], depth)]
  BY DEF NewEntries, places
<1>7. \A i \in places : /\ upto(i) \in SUBSET places /\ IsFiniteSet(upto(i))
                        /\ i \in upto(i) /\ Cardinality(upto(i)) \in 1..n
  <2> TAKE i \in places
  <2>1. upto(i) \in SUBSET places /\ i \in upto(i)
    BY <1>2
  <2> HIDE DEF upto
  <2>2. IsFiniteSet(upto(i)) /\ Cardinality(upto(i)) <= n /\ Cardinality(upto(i)) \in Nat
    BY <1>2, <2>1, FS_Subset, FS_CardinalityType
  <2>3. Cardinality(upto(i)) # 0
    BY <2>1, <2>2, FS_EmptySet
  <2> QED
    BY <1>2, <2>1, <2>2, <2>3
<1>8. \A i, j \in places : i < j => Cardinality(upto(i)) # Cardinality(upto(j))
  <2> SUFFICES ASSUME NEW i \in places, NEW j \in places, i < j
               PROVE  Cardinality(upto(i)) # Cardinality(upto(j))
    OBVIOUS
  <2>1. upto(i) \in SUBSET upto(j) /\ j \notin upto(i)
    BY <1>2
  <2>2. upto(i) # upto(j) /\ IsFiniteSet(upto(j))
    BY <1>7, <2>1
  <2> HIDE DEF upto
  <2> QED
    BY <2>1, <2>2, FS_Subset
<1>9. rank \in Injection(places, 1..n)
  <2>1. rank \in [places -> 1..n]
    BY <1>7
  <2>2. \A i, j \in places : rank[i] = rank[j] => i = j
    <3> SUFFICES ASSUME NEW i \in places, NEW j \in places, rank[i] = rank[j], i # j PROVE FALSE
      OBVIOUS
    <3>1. i < j \/ j < i
      BY <1>2
    <3> QED
      BY <1>8, <3>1
  <2> HIDE DEF rank
  <2> QED
    BY <2>1, <2>2 DEF Injection, IsInjective
<1>10. rank \in Surjection(places, 1..n)
  <2>1. IsFiniteSet(1..n) /\ Cardinality(1..n) = n
    <3>1. n = 0 \/ n - 1 + 1 = n
      BY <1>2
    <3> QED
      BY <1>2, <3>1, FS_Interval
  <2> HIDE DEF rank
  <2> QED
    BY <1>9, <2>1, FS_Injection
<1> HIDE DEF rank, n
<1> DEFINE nth(k) == CHOOSE i \in places : rank[i] = k
<1>11. \A k \in 1..n : nth(k) \in places /\ rank[nth(k)] = k
  BY <1>10 DEF Surjection
<1>12. \A i \in places : rank[i] \in 1..n /\ nth(rank[i]) = i
  <2>1. \A i \in places : rank[i] \in 1..n
    BY <1>9 DEF Injection
  <2>2. \A i, j \in places : rank[i] = rank[j] => i = j
    BY <1>9 DEF Injection, IsInjective
  <2> QED
    BY <1>11, <2>1, <2>2
<1>13. new = [k \in 1..n |-> Entry(list[nth(k)], depth)]
  BY <1>6
<1> HIDE DEF nth
<1>14. \A k \in 1..n : new[k] = Entry(list[nth(k)], depth) /\ new[k] \in Entries
  BY <1>4, <1>11, <1>13 DEF Entry, Entries
<1>15. new \in Seq(Entries) /\ DOMAIN new = 1..n
  BY <1>2, <1>13, <1>14 DEF n
<1>16. \A k \in 1..n : new[k].url = list[nth(k)] /\ new[k].depth = depth
  <2> TAKE k \in 1..n
  <2>1. new[k] = Entry(list[nth(k)], depth)
    BY <1>14
  <2> QED
    BY <2>1 DEF Entry
<1>17. UrlsIn(new) = {list[i] : i \in DOMAIN list} \cap (Urls \ known)
  <2>1. UrlsIn(new) = {list[nth(k)] : k \in 1..n}
    BY <1>15, <1>16 DEF UrlsIn
  <2>2. \A k \in 1..n : nth(k) \in DOMAIN list /\ list[nth(k)] \in Urls \ known
    BY <1>1, <1>2, <1>4, <1>11
  <2>3. \A u \in {list[i] : i \in DOMAIN list} \cap (Urls \ known) : \E k \in 1..n : list[nth(k)] = u
    BY <1>5, <1>12
  <2> QED
    BY <2>1, <2>2, <2>3
<1>18. Distinct(new)
  BY <1>3, <1>11, <1>15, <1>16 DEF Distinct
<1> QED
  BY <1>15, <1>16, <1>17, <1>18

-----------------------------------------------------------------------------
(* The initial state, and steps that leave the search alone. *)

LEMMA InitIInv == CrawlInit => IInv
<1> SUFFICES ASSUME CrawlInit PROVE IInv
  OBVIOUS
<1> USE CrawlAssumption
<1>1. Unknown \in Answers \cup {Unknown} /\ NoEntry \in Entries
  BY DEF NoEntry, Entry, Entries
<1>2. TypeOK
  <2>1. queue \in Seq(Entries) /\ pages \in Seq(Entries) /\ current \in Entries
    BY <1>1 DEF CrawlInit
  <2>2. web \in [Urls -> Answers \cup {Unknown}]
    BY <1>1 DEF CrawlInit
  <2>3. attempt \in 0..MaxRetries /\ audits \in 0..MaxAudits /\ invalidations \in 0..MaxInvalidations
    BY DEF CrawlInit
  <2> QED
    BY <2>1, <2>2, <2>3 DEF CrawlInit, TypeOK
<1>3. UrlsIn(<<>>) = {} /\ Range(<<>>) = {} /\ Distinct(<<>>)
  BY DEF UrlsIn, Range, Distinct
<1>4. Placed
  BY <1>3, FS_EmptySet DEF CrawlInit, Placed, Fetching
<1>5. Obeyed /\ Fresh
  BY <1>3 DEF CrawlInit, Obeyed, Fresh, Fetching
<1>6. Searched
  BY DEF CrawlInit, Searched, Near
<1>7. AllAtDistance
  BY <1>3 DEF CrawlInit, AllAtDistance, Listed
<1>8. DepthsInOrder
  BY DEF CrawlInit, DepthsInOrder
<1> QED
  BY <1>2, <1>4, <1>5, <1>6, <1>7, <1>8 DEF IInv

\* The rest of the invariant reads only the search.
Search == Placed /\ Obeyed /\ Fresh /\ Searched /\ AllAtDistance /\ DepthsInOrder

LEMMA RestKeepsSearch ==
  ASSUME Search, UNCHANGED <<pc, frontier, web>>
  PROVE  Search'
<1> USE DEF frontier
<1>1. Placed' /\ Obeyed'
  BY DEF Search, Placed, Obeyed, Fetching
<1>2. Fresh' /\ DepthsInOrder'
  BY DEF Search, Fresh, DepthsInOrder
<1>3. ASSUME NEW d PROVE Near(d)' = Near(d)
  BY DEF Near, Links
<1>4. Searched'
  BY <1>3 DEF Search, Searched
<1>5. ASSUME NEW e PROVE AtDistance(e)' = AtDistance(e)
  BY <1>3 DEF AtDistance
<1>6. AllAtDistance'
  BY <1>5 DEF Search, AllAtDistance, Listed
<1> QED
  BY <1>1, <1>2, <1>4, <1>6 DEF Search

\* Pages that keep their answers keep the distances.
LEMMA SamePages ==
  ASSUME seeds' = seeds, pages' = pages,
         \A i \in DOMAIN pages : web'[pages[i].url] = web[pages[i].url]
  PROVE  /\ \A d : Near(d)' = Near(d)
         /\ \A e : AtDistance(e)' = AtDistance(e)
<1>1. ASSUME NEW d PROVE Near(d)' = Near(d)
  BY DEF Near, Links
<1>2. ASSUME NEW e PROVE AtDistance(e)' = AtDistance(e)
  BY <1>1 DEF AtDistance
<1> QED
  BY <1>1, <1>2

\* Before the first page, what is near are the seeds.
LEMMA NoPagesYet ==
  ASSUME pages = <<>>, NEW d
  PROVE  Near(d) = seeds
BY DEF Near

-----------------------------------------------------------------------------
(* The seeds. *)

LEMMA StartKeepsIInv ==
  ASSUME IInv, StartCrawl
  PROVE  IInv'
<1> USE CrawlAssumption
<1> DEFINE usual == NewEntries(PriorityPaths, {Root}, 0)
<1>1. PICK new : new = usual
  OBVIOUS
<1>2. PriorityPaths \in Seq(Urls \cup Outside)
  <2>1. PriorityPaths \in Seq(Urls) /\ Urls \subseteq Urls \cup Outside
    OBVIOUS
  <2> HIDE CrawlAssumption
  <2> QED
    BY <2>1
<1>3. /\ new \in Seq(Entries) /\ UrlsIn(new) \subseteq Urls \ {Root} /\ Distinct(new)
      /\ \A k \in DOMAIN new : new[k].depth = 0
  <2>1. 0 \in 0..MaxDepth
    OBVIOUS
  <2> QED
    BY <1>1, <1>2, <2>1, NewEntriesSound
<1>4. PICK first : first = <<Entry(Root, 0)>>
  OBVIOUS
<1>5. /\ first \in Seq(Entries) /\ UrlsIn(first) = {Root} /\ Distinct(first)
      /\ DOMAIN first = {1} /\ first[1].depth = 0
  <2>1. Entry(Root, 0) \in Entries /\ Entry(Root, 0).url = Root /\ Entry(Root, 0).depth = 0
    BY DEF Entry, Entries
  <2>2. DOMAIN first = {1} /\ first[1] = Entry(Root, 0) /\ first \in Seq(Entries)
    BY <1>4, <2>1
  <2> QED
    BY <2>1, <2>2 DEF UrlsIn, Distinct
<1>6. queue' = first \o new
  BY <1>1, <1>4 DEF StartCrawl
<1>7. /\ queue' \in Seq(Entries) /\ UrlsIn(queue') = {Root} \cup UrlsIn(new) /\ Distinct(queue')
  <2>1. UrlsIn(first) \cap UrlsIn(new) = {}
    BY <1>3, <1>5
  <2> QED
    BY <1>3, <1>5, <1>6, <2>1, ConcatUrls
<1>8. \A i \in DOMAIN queue' : queue'[i].depth = 0
  <2> TAKE i \in DOMAIN queue'
  <2> QED
    BY <1>3, <1>5, <1>6, ConcatParts
<1>9. /\ pc = "idle" /\ pc' = "robots" /\ seen' = UrlsIn(queue') /\ seeds' = UrlsIn(queue')
      /\ audits' = audits + 1 /\ audits < MaxAudits
      /\ UNCHANGED <<pages, failed, skipped, current, attempt, robots, web, cache, invalidations>>
  BY DEF StartCrawl
<1>10. pages = <<>> /\ failed = {} /\ skipped = {} /\ robots = {}
  BY <1>9 DEF IInv, Fresh
<1>11. TypeOK'
  <2>1. seen' \subseteq Urls /\ seeds' \subseteq Urls
    BY <1>3, <1>7, <1>9
  <2>2. audits' \in 0..MaxAudits
    BY <1>9 DEF IInv, TypeOK
  <2> QED
    BY <1>7, <1>9, <2>1, <2>2 DEF IInv, TypeOK
<1>12. UrlsIn(<<>>) = {} /\ Range(<<>>) = {} /\ Distinct(<<>>)
  BY DEF UrlsIn, Range, Distinct
<1>13. Placed'
  <2>1. IsFiniteSet(seen')
    BY <1>7, <1>9, CountUrls
  <2> QED
    BY <1>7, <1>9, <1>10, <1>12, <2>1 DEF Placed, Fetching
<1>14. Obeyed' /\ Fresh'
  BY <1>8, <1>9, <1>10 DEF Obeyed, Fresh
<1>15. ASSUME NEW d PROVE Near(d)' = seeds'
  BY <1>9, <1>10 DEF Near
<1>16. Searched'
  BY <1>9, <1>15 DEF Searched
<1>17. AllAtDistance'
  <2> SUFFICES ASSUME NEW e \in Listed' PROVE AtDistance(e)'
    BY DEF AllAtDistance
  <2>1. PICK i \in DOMAIN queue' : e = queue'[i]
    BY <1>9, <1>10, <1>12 DEF Listed, Range
  <2>2. e.depth = 0 /\ e.url \in seeds'
    BY <1>8, <1>9, <2>1 DEF UrlsIn
  <2> QED
    BY <1>15, <2>2 DEF AtDistance
<1>18. DepthsInOrder'
  BY <1>8, <1>9, <1>10 DEF DepthsInOrder
<1> QED
  BY <1>11, <1>13, <1>14, <1>16, <1>17, <1>18 DEF IInv

LEMMA SeedKeepsIInv ==
  ASSUME IInv, NEW forbidden \in Disallowed, NEW sitemap \in Sitemaps,
         SeedFromSitemap(forbidden, sitemap)
  PROVE  IInv'
<1> USE CrawlAssumption
<1>1. PICK new : new = NewEntries(sitemap, seen, 0)
  OBVIOUS
<1>2. /\ new \in Seq(Entries) /\ UrlsIn(new) \subseteq Urls \ seen /\ Distinct(new)
      /\ \A k \in DOMAIN new : new[k].depth = 0
  <2>1. 0 \in 0..MaxDepth /\ sitemap \in Seq(Urls \cup Outside)
    OBVIOUS
  <2> QED
    BY <1>1, <2>1, NewEntriesSound
<1>3. /\ pc = "robots" /\ pc' = "loop" /\ robots' = forbidden /\ queue' = queue \o new
      /\ seen' = seen \cup UrlsIn(new) /\ seeds' = seen \cup UrlsIn(new)
      /\ UNCHANGED <<pages, failed, skipped, current, attempt, web, cache, audits, invalidations>>
  BY <1>1 DEF SeedFromSitemap
<1>4. /\ pages = <<>> /\ failed = {} /\ skipped = {} /\ seeds = seen
      /\ \A i \in DOMAIN queue : queue[i].depth = 0
  BY <1>3 DEF IInv, Fresh
<1>5. UrlsIn(<<>>) = {} /\ Range(<<>>) = {} /\ Distinct(<<>>)
  BY DEF UrlsIn, Range, Distinct
<1>6. seen = UrlsIn(queue) /\ Distinct(queue) /\ IsFiniteSet(seen)
  BY <1>3, <1>4, <1>5 DEF IInv, Placed, Fetching
<1>7. queue \in Seq(Entries)
  BY DEF IInv, TypeOK
<1>8. queue' \in Seq(Entries) /\ UrlsIn(queue') = seen' /\ Distinct(queue')
  <2>1. UrlsIn(queue) \cap UrlsIn(new) = {}
    BY <1>2, <1>6
  <2> QED
    BY <1>2, <1>3, <1>6, <1>7, <2>1, ConcatUrls
<1>9. \A i \in DOMAIN queue' : queue'[i].depth = 0
  <2> TAKE i \in DOMAIN queue'
  <2> QED
    BY <1>2, <1>3, <1>4, <1>7, ConcatParts
<1>10. TypeOK'
  <2>1. seen' \subseteq Urls /\ seeds' \subseteq Urls
    BY <1>2, <1>3 DEF IInv, TypeOK
  <2>2. robots' \subseteq Urls
    BY <1>3
  <2> QED
    BY <1>3, <1>8, <2>1, <2>2 DEF IInv, TypeOK
<1>11. Placed'
  <2>1. IsFiniteSet(seen')
    BY <1>8, CountUrls
  <2> QED
    BY <1>3, <1>4, <1>5, <1>8, <2>1 DEF Placed, Fetching
<1>12. Obeyed' /\ Fresh'
  BY <1>3, <1>4, <1>5 DEF Obeyed, Fresh, Fetching
<1>13. ASSUME NEW d PROVE Near(d)' = seeds'
  BY <1>3, <1>4 DEF Near
<1>14. Searched'
  BY <1>3, <1>13 DEF Searched
<1>15. AllAtDistance'
  <2> SUFFICES ASSUME NEW e \in Listed' PROVE AtDistance(e)'
    BY DEF AllAtDistance
  <2>1. PICK i \in DOMAIN queue' : e = queue'[i]
    BY <1>3, <1>4, <1>5 DEF Listed, Range
  <2>2. e.depth = 0 /\ e.url \in seeds'
    BY <1>3, <1>8, <1>9, <2>1 DEF UrlsIn
  <2> QED
    BY <1>13, <2>2 DEF AtDistance
<1>16. DepthsInOrder'
  <2>1. pages' = <<>> /\ pc' # "fetch"
    BY <1>3, <1>4
  <2> QED
    BY <1>9, <2>1 DEF DepthsInOrder
<1> QED
  BY <1>10, <1>11, <1>12, <1>14, <1>15, <1>16 DEF IInv

-----------------------------------------------------------------------------
(* The search. *)

LEMMA TakeKeepsIInv ==
  ASSUME IInv, TakeNext
  PROVE  IInv'
<1> USE CrawlAssumption
<1>1. PICK e : e = Head(queue)
  OBVIOUS
<1>2. PICK rest : rest = Tail(queue)
  OBVIOUS
<1>3. queue \in Seq(Entries) /\ queue # <<>> /\ Distinct(queue)
  BY DEF TakeNext, Looping, IInv, TypeOK, Placed
<1>4. /\ rest \in Seq(Entries) /\ e \in Entries /\ e = queue[1]
      /\ UrlsIn(queue) = UrlsIn(rest) \cup {e.url}
      /\ e.url \notin UrlsIn(rest)
      /\ Distinct(rest)
  BY <1>1, <1>2, <1>3, TailUrls
<1>5. /\ 1 \in DOMAIN queue
      /\ \A i \in DOMAIN rest : /\ i \in Nat \ {0} /\ i + 1 \in DOMAIN queue
                                /\ rest[i] = queue[i + 1]
  BY <1>2, <1>3, HeadTailProperties, EmptySeq
<1>6. e.url \in Urls /\ e.depth \in 0..MaxDepth /\ ~(e.depth > MaxDepth)
  BY <1>4 DEF Entries
<1>7. /\ pc = "loop" /\ queue' = rest
      /\ UNCHANGED <<seen, seeds, pages, failed, robots, web, cache, audits, invalidations>>
  BY <1>2 DEF TakeNext, Looping
<1>8. \/ /\ e.url \in robots /\ skipped' = skipped \cup {e.url}
         /\ UNCHANGED <<pc, current, attempt>>
      \/ /\ e.url \notin robots /\ pc' = "fetch" /\ current' = e /\ attempt' = 0
         /\ UNCHANGED skipped
  BY <1>1, <1>6 DEF TakeNext
<1>9. TypeOK'
  <2>1. skipped' \subseteq Urls /\ current' \in Entries /\ attempt' \in 0..MaxRetries
        /\ pc' \in {"loop", "fetch"}
    BY <1>4, <1>6, <1>7, <1>8 DEF IInv, TypeOK
  <2> QED
    BY <1>4, <1>7, <2>1 DEF IInv, TypeOK
<1>10. Placed'
  <2> DEFINE others == UrlsIn(pages) \cup failed \cup skipped
  <2>0. /\ seen = UrlsIn(rest) \cup {e.url} \cup others
        /\ e.url \notin others /\ UrlsIn(rest) \cap others = {}
        /\ IsFiniteSet(seen) /\ Distinct(pages)
        /\ UrlsIn(pages) \cap (failed \cup skipped) = {} /\ failed \cap skipped = {}
    BY <1>4, <1>7 DEF IInv, Placed, Fetching
  <2>1. CASE pc' = "fetch"
    <3>1. Fetching' = {e.url} /\ skipped' = skipped
      BY <1>7, <1>8, <2>1 DEF Fetching
    <3> QED
      BY <1>4, <1>7, <2>0, <3>1 DEF Placed
  <2>2. CASE pc' = "loop"
    <3>1. Fetching' = {} /\ skipped' = skipped \cup {e.url}
      BY <1>7, <1>8, <2>2 DEF Fetching
    <3> QED
      BY <1>4, <1>7, <2>0, <3>1 DEF Placed
  <2> QED
    BY <1>7, <1>8, <2>1, <2>2
<1>11. Obeyed'
  BY <1>7, <1>8 DEF IInv, Obeyed, Fetching
<1>12. Fresh'
  BY <1>7, <1>8 DEF Fresh
<1>13. /\ \A d : Near(d)' = Near(d)
       /\ \A x : AtDistance(x)' = AtDistance(x)
  BY <1>7, SamePages
<1>14. Searched'
  BY <1>7, <1>13 DEF IInv, Searched
<1>15. AllAtDistance'
  <2>1. Listed' \subseteq Listed
    BY <1>4, <1>5, <1>7, <1>8 DEF Listed, Range
  <2> QED
    BY <1>13, <2>1 DEF IInv, AllAtDistance
<1>16. DepthsInOrder'
  <2>1. /\ \A i \in DOMAIN queue : queue[i].depth \in Nat
        /\ \A i \in DOMAIN pages : pages[i].depth \in Nat
    BY <1>3, EntryTypes DEF IInv, TypeOK
  <2>2. /\ \A i, j \in DOMAIN rest : rest[i].depth <= rest[j].depth + 1
        /\ \A i \in DOMAIN pages, j \in DOMAIN rest : pages[i].depth <= rest[j].depth
    BY <1>5 DEF IInv, DepthsInOrder
  <2>3. ASSUME NEW i \in DOMAIN rest, NEW j \in DOMAIN rest, i < j
        PROVE  rest[i].depth <= rest[j].depth
    BY <1>5, <2>3 DEF IInv, DepthsInOrder
  <2>4. /\ \A j \in DOMAIN rest : e.depth <= rest[j].depth /\ rest[j].depth <= e.depth + 1
        /\ \A i \in DOMAIN pages : pages[i].depth <= e.depth
    <3>1. ASSUME NEW j \in DOMAIN rest
          PROVE  e.depth <= rest[j].depth /\ rest[j].depth <= e.depth + 1
      <4>1. 1 < j + 1 /\ j + 1 \in DOMAIN queue /\ 1 \in DOMAIN queue
        BY <1>5
      <4> QED
        BY <1>4, <1>5, <4>1 DEF IInv, DepthsInOrder
    <3>2. \A i \in DOMAIN pages : pages[i].depth <= e.depth
      BY <1>4, <1>5 DEF IInv, DepthsInOrder
    <3> QED
      BY <3>1, <3>2
  <2> QED
    BY <1>7, <1>8, <2>2, <2>3, <2>4 DEF DepthsInOrder
<1> QED
  BY <1>9, <1>10, <1>11, <1>12, <1>14, <1>15, <1>16 DEF IInv

\* A URL that gives no page leaves the fetch for one of the two sets.
LEMMA NoPageKeepsIInv ==
  ASSUME IInv, pc = "fetch", pc' = "loop", TypeOK',
         UNCHANGED <<queue, seen, seeds, pages, current, robots>>,
         \A u \in Urls : u # current.url => web'[u] = web[u],
         \/ failed' = failed \cup {current.url} /\ skipped' = skipped
         \/ skipped' = skipped \cup {current.url} /\ failed' = failed
  PROVE  IInv'
<1>1. current.url \in Urls /\ current.url \notin UrlsIn(pages)
  BY DEF IInv, TypeOK, Entries, Placed, Fetching
<1>2. Placed'
  BY DEF IInv, Placed, Fetching
<1>3. Obeyed' /\ Fresh'
  BY DEF IInv, Obeyed, Fresh, Fetching
<1>4. \A i \in DOMAIN pages : web'[pages[i].url] = web[pages[i].url]
  <2> TAKE i \in DOMAIN pages
  <2>1. pages[i].url \in Urls /\ pages[i].url # current.url
    BY <1>1, EntryTypes DEF IInv, TypeOK
  <2> QED
    BY <2>1
<1>5. /\ \A d : Near(d)' = Near(d)
      /\ \A e : AtDistance(e)' = AtDistance(e)
  BY <1>4, SamePages
<1>6. Searched'
  BY <1>5 DEF IInv, Searched
<1>7. AllAtDistance'
  BY <1>5 DEF IInv, AllAtDistance, Listed
<1>8. DepthsInOrder'
  BY DEF IInv, DepthsInOrder
<1> QED
  BY <1>2, <1>3, <1>6, <1>7, <1>8 DEF IInv

LEMMA RaiseKeepsIInv ==
  ASSUME IInv, FetchRaises
  PROVE  IInv'
<1> USE CrawlAssumption
<1>1. CASE attempt < MaxRetries
  <2>1. /\ attempt' = attempt + 1
        /\ UNCHANGED <<pc, failed, queue, seen, seeds, pages, skipped, current, robots, web,
                       cache, audits, invalidations>>
    BY <1>1 DEF FetchRaises
  <2>2. attempt' \in 0..MaxRetries
    BY <1>1, <2>1 DEF IInv, TypeOK
  <2>3. TypeOK'
    BY <2>1, <2>2 DEF IInv, TypeOK
  <2>4. Placed' /\ Obeyed' /\ Fresh' /\ DepthsInOrder'
    BY <2>1 DEF IInv, Placed, Obeyed, Fresh, DepthsInOrder, Fetching
  <2>5. /\ \A d : Near(d)' = Near(d)
        /\ \A e : AtDistance(e)' = AtDistance(e)
    BY <2>1, SamePages
  <2>6. Searched' /\ AllAtDistance'
    BY <2>1, <2>5 DEF IInv, Searched, AllAtDistance, Listed
  <2> QED
    BY <2>3, <2>4, <2>6 DEF IInv
<1>2. CASE ~(attempt < MaxRetries)
  <2>1. /\ pc = "fetch" /\ pc' = "loop" /\ failed' = failed \cup {current.url}
        /\ UNCHANGED <<attempt, queue, seen, seeds, pages, skipped, current, robots, web, cache,
                       audits, invalidations>>
    BY <1>2 DEF FetchRaises
  <2>2. TypeOK'
    BY <2>1 DEF IInv, TypeOK, Entries
  <2> QED
    BY <2>1, <2>2, NoPageKeepsIInv
<1> QED
  BY <1>1, <1>2

LEMMA AnswerType ==
  ASSUME TypeOK, NEW answer \in Answers, Answered(answer)
  PROVE  /\ web' \in [Urls -> Answers \cup {Unknown}]
         /\ current.url \in Urls /\ web'[current.url] = answer
         /\ \A u \in Urls : u # current.url => web'[u] = web[u]
<1>1. current.url \in Urls /\ web \in [Urls -> Answers \cup {Unknown}]
  BY DEF TypeOK, Entries
<1>2. web' = [web EXCEPT ![current.url] = answer]
  BY DEF Answered
<1> HIDE DEF Answers, Unknown
<1> QED
  BY <1>1, <1>2

LEMMA RefusalKeepsIInv ==
  ASSUME IInv, NEW answer \in Answers, NoPage(answer) \/ EmptyPage(answer)
  PROVE  IInv'
<1>1. /\ Answered(answer) /\ pc = "fetch" /\ pc' = "loop"
      /\ UNCHANGED <<queue, seen, pages, seeds, current, attempt, robots, cache, audits,
                     invalidations>>
      /\ \/ failed' = failed \cup {current.url} /\ skipped' = skipped
         \/ skipped' = skipped \cup {current.url} /\ failed' = failed
  BY DEF NoPage, EmptyPage, Answered
<1>2. /\ web' \in [Urls -> Answers \cup {Unknown}] /\ current.url \in Urls
      /\ \A u \in Urls : u # current.url => web'[u] = web[u]
  BY <1>1, AnswerType DEF IInv
<1>3. TypeOK'
  BY <1>1, <1>2 DEF IInv, TypeOK
<1> QED
  BY <1>1, <1>2, <1>3, NoPageKeepsIInv

\* What the links of a page add to the queue.
LEMMA FoundSound ==
  ASSUME IInv, pc = "fetch", NEW links \in Seq(Urls \cup Outside), NEW new, new = Found(links)
  PROVE  /\ new \in Seq(Entries) /\ Distinct(new)
         /\ UrlsIn(new) =
              (IF current.depth < MaxDepth THEN {links[i] : i \in DOMAIN links} \cap (Urls \ seen)
               ELSE {})
         /\ \A k \in DOMAIN new : new[k].depth = current.depth + 1
<1>1. current.depth \in Nat /\ MaxDepth \in Nat
  BY CrawlAssumption DEF IInv, TypeOK, Entries
<1>2. PICK d \in Nat : d = current.depth + 1
  BY <1>1
<1>3. CASE d <= MaxDepth
  <2>1. new = NewEntries(links, seen, d)
    BY <1>2, <1>3 DEF Found
  <2>2. d \in 0..MaxDepth /\ current.depth < MaxDepth
    BY <1>1, <1>2, <1>3
  <2> QED
    BY <1>2, <2>1, <2>2, NewEntriesSound
<1>4. CASE ~(d <= MaxDepth)
  <2>1. new = <<>>
    BY <1>2, <1>4 DEF Found
  <2>2. ~(current.depth < MaxDepth)
    BY <1>1, <1>2, <1>4
  <2> QED
    BY <2>1, <2>2 DEF UrlsIn, Distinct
<1> QED
  BY <1>3, <1>4

LEMMA PageKeepsIInv ==
  ASSUME IInv, NEW answer \in Answers, Page(answer)
  PROVE  IInv'
<1> USE CrawlAssumption
<1>1. PICK c \in Entries : c = current
  BY DEF IInv, TypeOK
<1>2. answer.links \in Seq(Urls \cup Outside)
  BY DEF Page, Answers
<1>3. PICK links \in Seq(Urls \cup Outside) : links = answer.links
  BY <1>2
<1>4. PICK new : new = Found(links)
  OBVIOUS
<1> DEFINE linked == {links[i] : i \in DOMAIN links}
<1>5. /\ Answered(answer) /\ pc = "fetch" /\ pc' = "loop"
      /\ pages' = Append(pages, c) /\ queue' = queue \o new /\ seen' = seen \cup UrlsIn(new)
      /\ UNCHANGED <<failed, skipped, seeds, current, attempt, robots, cache, audits, invalidations>>
  BY <1>1, <1>3, <1>4 DEF Page, Answered
<1>6. /\ new \in Seq(Entries) /\ Distinct(new)
      /\ UrlsIn(new) = (IF c.depth < MaxDepth THEN linked \cap (Urls \ seen) ELSE {})
      /\ \A k \in DOMAIN new : new[k].depth = c.depth + 1
  BY <1>1, <1>4, <1>5, FoundSound
<1>7. /\ web' \in [Urls -> Answers \cup {Unknown}] /\ web'[c.url] = answer
      /\ \A u \in Urls : u # c.url => web'[u] = web[u]
  BY <1>1, <1>5, AnswerType DEF IInv
<1>8. queue \in Seq(Entries) /\ pages \in Seq(Entries) /\ seen \subseteq Urls
  BY DEF IInv, TypeOK
<1>9. /\ c.url \in Urls /\ c.depth \in Nat /\ MaxDepth \in Nat
  BY <1>1 DEF Entries
<1>10. /\ seen = UrlsIn(queue) \cup {c.url} \cup UrlsIn(pages) \cup failed \cup skipped
       /\ Distinct(queue) /\ Distinct(pages) /\ IsFiniteSet(seen)
       /\ UrlsIn(queue) \cap ({c.url} \cup UrlsIn(pages) \cup failed \cup skipped) = {}
       /\ c.url \notin UrlsIn(pages) \cup failed \cup skipped
       /\ UrlsIn(pages) \cap (failed \cup skipped) = {} /\ failed \cap skipped = {}
  BY <1>1, <1>5 DEF IInv, Placed, Fetching
<1>11. UrlsIn(new) \subseteq Urls \ seen
  BY <1>6
<1>12. /\ queue' \in Seq(Entries) /\ UrlsIn(queue') = UrlsIn(queue) \cup UrlsIn(new)
       /\ Distinct(queue')
  <2>1. UrlsIn(queue) \cap UrlsIn(new) = {}
    BY <1>10, <1>11
  <2> QED
    BY <1>5, <1>6, <1>8, <1>10, <2>1, ConcatUrls
<1>13. /\ pages' \in Seq(Entries) /\ UrlsIn(pages') = UrlsIn(pages) \cup {c.url}
       /\ Distinct(pages')
  BY <1>1, <1>5, <1>8, <1>10, AppendUrls
<1>14. /\ \A i \in DOMAIN pages : i \in DOMAIN pages' /\ pages'[i] = pages[i]
       /\ \A i \in DOMAIN pages' : (i \in DOMAIN pages /\ pages'[i] = pages[i]) \/ pages'[i] = c
       /\ \E i \in DOMAIN pages' : pages'[i] = c
  <2>1. PICK longer : longer = Append(pages, c)
    OBVIOUS
  <2>2. /\ \A i \in DOMAIN pages : i \in DOMAIN longer /\ longer[i] = pages[i]
        /\ \A i \in DOMAIN longer : (i \in DOMAIN pages /\ longer[i] = pages[i]) \/ longer[i] = c
        /\ \E i \in DOMAIN longer : longer[i] = c
    BY <1>8, <2>1, AppendParts
  <2>3. pages' = longer
    BY <1>5, <2>1
  <2> QED
    BY <2>2, <2>3
<1>15. TypeOK'
  <2>1. seen' \subseteq Urls
    BY <1>5, <1>8, <1>11
  <2> QED
    BY <1>5, <1>7, <1>12, <1>13, <2>1 DEF IInv, TypeOK
<1>16. Placed'
  <2>1. IsFiniteSet(seen')
    BY <1>5, <1>6, <1>10, CountUrls, FS_Union
  <2>2. Fetching' = {}
    BY <1>5 DEF Fetching
  <2> QED
    BY <1>5, <1>10, <1>11, <1>12, <1>13, <2>1, <2>2 DEF Placed
<1>17. Obeyed' /\ Fresh'
  <2>1. c.url \notin robots /\ robots \cap (UrlsIn(pages) \cup failed) = {}
    BY <1>1, <1>5 DEF IInv, Obeyed, Fetching
  <2> QED
    BY <1>5, <1>13, <2>1 DEF Obeyed, Fresh, Fetching
<1>18. \A i \in DOMAIN pages : web'[pages[i].url] = web[pages[i].url]
  <2> TAKE i \in DOMAIN pages
  <2>1. pages[i].url \in Urls /\ pages[i].url # c.url
    BY <1>8, <1>10, EntryTypes
  <2> QED
    BY <1>7, <2>1
<1>19. ASSUME NEW d \in Nat
       PROVE  Near(d)' = Near(d) \cup (IF c.depth < d THEN linked \cap Urls ELSE {})
  <2> DEFINE leads(i, u) ==
        pages'[i].depth < d /\ \E k \in DOMAIN web'[pages'[i].url].links :
                                  u = web'[pages'[i].url].links[k]
  <2>1. Near(d)' = seeds \cup {u \in Urls : \E i \in DOMAIN pages' : leads(i, u)}
    BY <1>5 DEF Near, Links
  <2>2. ASSUME NEW u, NEW i \in DOMAIN pages
        PROVE  leads(i, u) <=> pages[i].depth < d /\ u \in Links(pages[i].url)
    BY <1>14, <1>18 DEF Links
  <2>3. ASSUME NEW u, NEW i \in DOMAIN pages', pages'[i] = c
        PROVE  leads(i, u) <=> c.depth < d /\ u \in linked
    BY <1>3, <1>7, <2>3
  <2> HIDE DEF leads, linked
  <2>4. ASSUME NEW u
        PROVE  (\E i \in DOMAIN pages' : leads(i, u))
                 <=> \/ \E i \in DOMAIN pages : pages[i].depth < d /\ u \in Links(pages[i].url)
                     \/ c.depth < d /\ u \in linked
    BY <1>14, <2>2, <2>3
  <2> QED
    BY <2>1, <2>4 DEF Near
<1> HIDE DEF linked
<1>20. Searched'
  <2>1. seen = Near(MaxDepth)
    BY DEF IInv, Searched
  <2>2. Near(MaxDepth)' = Near(MaxDepth) \cup (IF c.depth < MaxDepth THEN linked \cap Urls ELSE {})
    BY <1>9, <1>19
  <2>3. UrlsIn(new) = (IF c.depth < MaxDepth THEN linked \cap (Urls \ seen) ELSE {})
    BY <1>6 DEF linked
  <2> QED
    BY <1>5, <2>1, <2>2, <2>3 DEF Searched
<1>21. /\ \A j \in DOMAIN queue : /\ queue[j].depth \in Nat /\ c.depth <= queue[j].depth
                                  /\ queue[j].depth <= c.depth + 1
       /\ \A i \in DOMAIN pages : pages[i].depth \in Nat /\ pages[i].depth <= c.depth
  <2>1. /\ \A j \in DOMAIN queue : queue[j].depth \in Nat
        /\ \A i \in DOMAIN pages : pages[i].depth \in Nat
    BY <1>8, EntryTypes
  <2> QED
    BY <1>1, <1>5, <2>1 DEF IInv, DepthsInOrder
<1>22. AllAtDistance'
  <2> SUFFICES ASSUME NEW e \in Listed' PROVE AtDistance(e)'
    BY DEF AllAtDistance
  <2>1. e \in Range(queue) \cup Range(pages) \cup {c} \/ e \in Range(new)
    <3>1. Range(pages') \subseteq Range(pages) \cup {c}
      BY <1>14 DEF Range
    <3>2. Range(queue') \subseteq Range(queue) \cup Range(new)
      BY <1>5, <1>6, <1>8, ConcatParts DEF Range
    <3> QED
      BY <1>5, <3>1, <3>2 DEF Listed
  <2>2. CASE e \in Range(queue) \cup Range(pages) \cup {c}
    <3>1. AtDistance(e)
      BY <1>1, <1>5, <2>2 DEF IInv, AllAtDistance, Listed
    <3>2. e.depth \in Nat /\ e.depth <= c.depth + 1
      BY <1>9, <1>21, <2>2 DEF Range
    <3>3. e.url \in Near(e.depth)'
      BY <1>19, <3>1, <3>2 DEF AtDistance
    <3>4. ASSUME e.depth > 0 PROVE e.url \notin Near(e.depth - 1)'
      <4>1. PICK d \in Nat : d = e.depth - 1
        BY <3>2, <3>4
      <4>2. Near(d)' = Near(d)
        <5>1. ~(c.depth < d)
          BY <1>9, <3>2, <4>1
        <5>2. Near(d)' = Near(d) \cup (IF c.depth < d THEN linked \cap Urls ELSE {})
          BY <1>19
        <5> QED
          BY <5>1, <5>2
      <4>3. e.url \notin Near(d)
        BY <3>1, <3>4, <4>1 DEF AtDistance
      <4> QED
        BY <4>1, <4>2, <4>3
    <3> QED
      BY <3>3, <3>4 DEF AtDistance
  <2>3. CASE e \in Range(new)
    <3>1. e.depth = c.depth + 1 /\ e.url \in UrlsIn(new)
      BY <1>6, <2>3 DEF Range, UrlsIn
    <3>2. c.depth < MaxDepth /\ e.url \in linked \cap (Urls \ seen)
      BY <1>6, <3>1 DEF linked
    <3>3. PICK d \in Nat : d = c.depth
      BY <1>9
    <3>4. e.depth = d + 1 /\ e.depth - 1 = d /\ d + 1 \in Nat
      BY <3>1, <3>3
    <3>5. e.url \in Near(e.depth)'
      <4>1. PICK n \in Nat : n = e.depth
        BY <3>4
      <4>2. Near(n)' = Near(n) \cup (IF c.depth < n THEN linked \cap Urls ELSE {})
        BY <1>19
      <4>3. c.depth < n
        BY <3>3, <3>4, <4>1
      <4> QED
        BY <3>2, <4>1, <4>2, <4>3
    <3>6. Near(d)' = Near(d)
      <4>1. Near(d)' = Near(d) \cup (IF c.depth < d THEN linked \cap Urls ELSE {})
        BY <1>19
      <4>2. ~(c.depth < d)
        BY <3>3
      <4> QED
        BY <4>1, <4>2
    <3>7. Near(d) \subseteq seen
      <4>1. \A i \in DOMAIN pages : pages[i].depth < d => pages[i].depth < MaxDepth
        BY <1>9, <1>21, <3>2, <3>3
      <4>2. seen = Near(MaxDepth)
        BY DEF IInv, Searched
      <4> QED
        BY <4>1, <4>2 DEF Near
    <3> QED
      BY <3>2, <3>4, <3>5, <3>6, <3>7 DEF AtDistance
  <2> QED
    BY <2>1, <2>2, <2>3
<1>23. DepthsInOrder'
  <2>0. ASSUME NEW j \in DOMAIN queue'
        PROVE  \/ j \in DOMAIN queue /\ queue'[j] = queue[j]
               \/ j \notin DOMAIN queue /\ \E k \in DOMAIN new : queue'[j] = new[k]
    BY <1>5, <1>6, <1>8, ConcatParts
  <2>1. ASSUME NEW j \in DOMAIN queue'
        PROVE  /\ queue'[j].depth \in Nat /\ c.depth <= queue'[j].depth
               /\ queue'[j].depth <= c.depth + 1
    BY <1>6, <1>9, <1>21, <2>0
  <2>2. ASSUME NEW i \in DOMAIN pages' PROVE pages'[i].depth \in Nat /\ pages'[i].depth <= c.depth
    BY <1>9, <1>14, <1>21
  <2>3. ASSUME NEW i \in DOMAIN queue', NEW j \in DOMAIN queue', i < j
        PROVE  queue'[i].depth <= queue'[j].depth
    <3>1. CASE \E k \in DOMAIN new : queue'[j] = new[k]
      BY <1>6, <1>9, <2>1, <3>1
    <3>2. CASE j \in DOMAIN queue /\ queue'[j] = queue[j]
      <4>1. i \in DOMAIN queue /\ queue'[i] = queue[i]
        <5>1. i \in Nat /\ j \in Nat /\ (i \notin DOMAIN queue => i > j)
          <6>1. DOMAIN queue = 1..Len(queue) /\ Len(queue) \in Nat
            BY <1>8
          <6>2. DOMAIN queue' = 1..Len(queue') /\ Len(queue') \in Nat
            BY <1>12
          <6> QED
            BY <3>2, <6>1, <6>2
        <5> QED
          BY <2>0, <2>3, <5>1
      <4> QED
        BY <2>3, <3>2, <4>1 DEF IInv, DepthsInOrder
    <3> QED
      BY <2>0, <3>1, <3>2
  <2>4. ASSUME NEW i \in DOMAIN queue', NEW j \in DOMAIN queue'
        PROVE  queue'[i].depth <= queue'[j].depth + 1
    BY <1>9, <2>1
  <2>5. ASSUME NEW i \in DOMAIN pages', NEW j \in DOMAIN queue'
        PROVE  pages'[i].depth <= queue'[j].depth
    BY <1>9, <2>1, <2>2
  <2> QED
    BY <1>5, <2>3, <2>4, <2>5 DEF DepthsInOrder
<1> QED
  BY <1>15, <1>16, <1>17, <1>20, <1>22, <1>23 DEF IInv

LEMMA FinishKeepsIInv ==
  ASSUME IInv, Finish
  PROVE  IInv'
<1> USE CrawlAssumption
<1>1. /\ pc' = "idle" /\ queue' = <<>> /\ seen' = {} /\ seeds' = {} /\ pages' = <<>>
      /\ failed' = {} /\ skipped' = {} /\ current' = NoEntry /\ attempt' = 0 /\ robots' = {}
      /\ web' = [u \in Urls |-> Unknown] /\ cache' = TRUE /\ UNCHANGED <<audits, invalidations>>
  BY DEF Finish, NewFrontier
<1>2. NoEntry \in Entries /\ 0 \in 0..MaxRetries
  BY DEF NoEntry, Entry, Entries
<1>3. TypeOK'
  <2>1. web' \in [Urls -> Answers \cup {Unknown}]
    BY <1>1
  <2>2. queue' \in Seq(Entries) /\ pages' \in Seq(Entries)
    BY <1>1
  <2> QED
    BY <1>1, <1>2, <2>1, <2>2 DEF IInv, TypeOK
<1>4. UrlsIn(<<>>) = {} /\ Range(<<>>) = {} /\ Distinct(<<>>)
  BY DEF UrlsIn, Range, Distinct
<1>5. Placed'
  BY <1>1, <1>4, FS_EmptySet DEF Placed, Fetching
<1>6. Obeyed' /\ Fresh' /\ DepthsInOrder'
  BY <1>1, <1>4 DEF Obeyed, Fresh, DepthsInOrder
<1>7. Searched'
  BY <1>1 DEF Searched, Near
<1>8. AllAtDistance'
  BY <1>1, <1>4 DEF AllAtDistance, Listed
<1> QED
  BY <1>3, <1>5, <1>6, <1>7, <1>8 DEF IInv

-----------------------------------------------------------------------------
(* The invariant holds. *)

CrawlSpec == CrawlInit /\ [][CrawlNext]_crawlVars

LEMMA NextKeepsIInv == IInv /\ [CrawlNext]_crawlVars => IInv'
<1> SUFFICES ASSUME IInv, [CrawlNext]_crawlVars PROVE IInv'
  OBVIOUS
<1> USE CrawlAssumption
<1>1. ASSUME UNCHANGED <<pc, frontier, web>>, cache' \in BOOLEAN, audits' \in 0..MaxAudits,
             invalidations' \in 0..MaxInvalidations
      PROVE  IInv'
  <2>1. Search'
    BY <1>1, RestKeepsSearch DEF IInv, Search
  <2>2. TypeOK'
    BY <1>1 DEF IInv, TypeOK, frontier
  <2> QED
    BY <2>1, <2>2 DEF IInv, Search
<1>2. CASE StartFromCache
  <2>1. audits' \in 0..MaxAudits
    BY <1>2 DEF StartFromCache, IInv, TypeOK
  <2> QED
    BY <1>1, <1>2, <2>1 DEF StartFromCache, IInv, TypeOK
<1>3. CASE Expire
  BY <1>1, <1>3 DEF Expire, IInv, TypeOK
<1>4. CASE Invalidate
  <2>1. invalidations' \in 0..MaxInvalidations
    BY <1>4 DEF Invalidate, IInv, TypeOK
  <2> QED
    BY <1>1, <1>4, <2>1 DEF Invalidate, IInv, TypeOK
<1>5. CASE UNCHANGED crawlVars
  BY <1>1, <1>5 DEF crawlVars, IInv, TypeOK
<1>6. CASE CrawlStep
  BY <1>6, SeedKeepsIInv, TakeKeepsIInv, RaiseKeepsIInv, RefusalKeepsIInv, PageKeepsIInv,
     FinishKeepsIInv DEF CrawlStep
<1> QED
  BY <1>2, <1>3, <1>4, <1>5, <1>6, StartKeepsIInv DEF CrawlNext

\* The search keeps its types, its places, its distances and its order, whatever the
\* site answers (Crawler.crawl).
THEOREM CrawlInvariance == CrawlSpec => []IInv
<1>1. CrawlInit => IInv
  BY InitIInv
<1>2. IInv /\ [CrawlNext]_crawlVars => IInv'
  BY NextKeepsIInv
<1> QED
  BY <1>1, <1>2, PTL DEF CrawlSpec

-----------------------------------------------------------------------------
(* The frontier. *)

\* What the reference definition finds link by link is what the depths tell.
LEMMA WithinIsNear ==
  ASSUME IInv, NEW d \in 0..MaxDepth
  PROVE  Within[d] = Near(d)
<1> USE CrawlAssumption
<1>1. pages \in Seq(Entries)
  BY DEF IInv, TypeOK
<1>2. \A i \in DOMAIN pages : AtDistance(pages[i])
  BY DEF IInv, AllAtDistance, Listed, Range
<1>3. \A m, n \in Nat : m <= n => Near(m) \subseteq Near(n)
  <2> SUFFICES ASSUME NEW m \in Nat, NEW n \in Nat, m <= n, NEW i \in DOMAIN pages, pages[i].depth < m
               PROVE  pages[i].depth < n
    BY DEF Near
  <2>1. pages[i].depth \in Nat
    BY <1>1, EntryTypes
  <2> QED
    BY <2>1
\* A page is within d links exactly if its depth says so.
<1>4. ASSUME NEW n \in Nat, NEW i \in DOMAIN pages
      PROVE  pages[i].url \in Near(n) <=> pages[i].depth <= n
  <2>1. PICK e \in Nat : e = pages[i].depth
    BY <1>1, EntryTypes
  <2>2. pages[i].url \in Near(e) /\ (e > 0 => pages[i].url \notin Near(e - 1))
    BY <1>2, <2>1 DEF AtDistance
  <2>3. CASE e <= n
    BY <1>3, <2>1, <2>2, <2>3
  <2>4. CASE ~(e <= n)
    <3>1. PICK k \in Nat : k = e - 1 /\ n <= k
      BY <2>4
    <3> QED
      BY <1>3, <2>1, <2>2, <2>4, <3>1
  <2> QED
    BY <2>3, <2>4
<1>5. ASSUME NEW n \in Nat
      PROVE  Near(n + 1) = Near(n) \cup UNION {Links(u) \cap Urls : u \in Near(n) \cap UrlsIn(pages)}
  <2> DEFINE further == UNION {Links(u) \cap Urls : u \in Near(n) \cap UrlsIn(pages)}
  <2>1. \A i \in DOMAIN pages : pages[i].depth < n + 1 <=> pages[i].depth <= n
    BY <1>1, EntryTypes
  <2>2. further \subseteq Near(n + 1)
    <3> SUFFICES ASSUME NEW i \in DOMAIN pages, pages[i].url \in Near(n),
                        NEW v \in Links(pages[i].url) \cap Urls
                 PROVE  v \in Near(n + 1)
      BY DEF UrlsIn
    <3> QED
      BY <1>4, <2>1 DEF Near
  <2>3. ASSUME NEW i \in DOMAIN pages, pages[i].depth < n + 1, NEW v \in Links(pages[i].url) \cap Urls
        PROVE  v \in further
    <3>1. pages[i].url \in Near(n) \cap UrlsIn(pages)
      BY <1>4, <2>1, <2>3 DEF UrlsIn
    <3> QED
      BY <3>1
  <2>4. Near(n) \subseteq Near(n + 1) /\ seeds \subseteq Near(n)
    <3>1. n + 1 \in Nat /\ n <= n + 1
      OBVIOUS
    <3> QED
      BY <1>3, <3>1 DEF Near
  <2> HIDE DEF further
  <2>5. Near(n + 1) \subseteq Near(n) \cup further
    BY <2>3, <2>4 DEF Near
  <2> QED
    BY <2>2, <2>4, <2>5 DEF further
<1> DEFINE step(f, e) == IF e = 0 THEN seeds
                         ELSE f[e - 1] \cup UNION {Links(u) \cap Urls : u \in f[e - 1] \cap UrlsIn(pages)}
           near == [e \in 0..MaxDepth |-> Near(e)]
<1>6. near = [e \in 0..MaxDepth |-> step(near, e)]
  <2> SUFFICES ASSUME NEW e \in 0..MaxDepth PROVE Near(e) = step(near, e)
    OBVIOUS
  <2>1. CASE e = 0
    <3>1. \A i \in DOMAIN pages : ~(pages[i].depth < 0)
      BY <1>1, EntryTypes
    <3> QED
      BY <2>1, <3>1 DEF Near
  <2>2. CASE e # 0
    <3>1. PICK n \in Nat : n = e - 1 /\ e = n + 1 /\ n \in 0..MaxDepth
      BY <2>2
    <3>2. near[n] = Near(n)
      BY <3>1
    <3> QED
      BY <1>5, <2>2, <3>1, <3>2
  <2> QED
    BY <2>1, <2>2
<1>7. Within = [e \in 0..MaxDepth |-> step(Within, e)]
  BY <1>6 DEF Within
<1>8. ASSUME NEW e \in 0..MaxDepth PROVE Within[e] = step(Within, e) /\ Near(e) = step(near, e)
  <2> HIDE DEF step
  <2>1. near[e] = step(near, e)
    BY <1>6
  <2> QED
    BY <1>7, <2>1
<1> DEFINE T == {e \in 0..MaxDepth : Within[e] # Near(e)}
<1> SUFFICES ASSUME T # {} PROVE FALSE
  OBVIOUS
<1>9. PICK e \in T : \A k \in T : e <= k
  <2>1. T \in SUBSET Nat
    OBVIOUS
  <2> HIDE DEF T
  <2> QED
    BY <2>1, LeastNat
<1>10. e # 0
  BY <1>8, <1>9
<1>11. PICK k \in 0..MaxDepth : k = e - 1
  BY <1>9, <1>10
<1>12. Within[k] = near[k]
  <2>1. k \notin T
    BY <1>9, <1>11
  <2> QED
    BY <2>1
<1>13. step(Within, e) = step(near, e)
  BY <1>10, <1>11, <1>12
<1> QED
  BY <1>8, <1>9, <1>13

\* Whatever a site answers, a URL that was seen is in one place, counted once, and
\* the depth of an entry is its distance from the nearest seed (Crawler.crawl).
THEOREM OnePlaceEach == CrawlSpec => []FrontierIsSound
<1>1. IInv => EachUrlOnce
  <2> SUFFICES ASSUME IInv PROVE EachUrlOnce
    OBVIOUS
  <2>1. seen = UrlsIn(queue) \cup Fetching \cup UrlsIn(pages) \cup failed \cup skipped
    BY DEF IInv, Placed
  <2>2. queue \in Seq(Entries) /\ pages \in Seq(Entries)
    BY DEF IInv, TypeOK
  <2>3. /\ IsFiniteSet(UrlsIn(queue)) /\ Cardinality(UrlsIn(queue)) = Len(queue)
        /\ IsFiniteSet(UrlsIn(pages)) /\ Cardinality(UrlsIn(pages)) = Len(pages)
        /\ Len(queue) \in Nat /\ Len(pages) \in Nat
    BY <2>2, CountUrls DEF IInv, Placed
  <2>4. IsFiniteSet(seen) /\ failed \subseteq seen /\ skipped \subseteq seen /\ Fetching \subseteq seen
    BY <2>1 DEF IInv, Placed
  <2>5. IsFiniteSet(failed) /\ IsFiniteSet(skipped) /\ IsFiniteSet(Fetching)
    BY <2>4, FS_Subset
  <2> DEFINE A == UrlsIn(queue) \cup Fetching
             B == A \cup UrlsIn(pages)
             C == B \cup failed
  <2>6. IsFiniteSet(A) /\ Cardinality(A) = Len(queue) + Cardinality(Fetching)
    BY <2>3, <2>5, DisjointSum DEF IInv, Placed
  <2>7. IsFiniteSet(B) /\ Cardinality(B) = Len(queue) + Cardinality(Fetching) + Len(pages)
    <3>1. A \cap UrlsIn(pages) = {}
      BY DEF IInv, Placed
    <3> HIDE DEF A
    <3>2. IsFiniteSet(B) /\ Cardinality(B) = Cardinality(A) + Cardinality(UrlsIn(pages))
      BY <2>3, <2>6, <3>1, DisjointSum
    <3> QED
      BY <2>3, <2>6, <3>2
  <2>8. IsFiniteSet(C)
        /\ Cardinality(C) = Len(queue) + Cardinality(Fetching) + Len(pages) + Cardinality(failed)
    <3>1. B \cap failed = {}
      BY DEF IInv, Placed
    <3> HIDE DEF B
    <3> QED
      BY <2>5, <2>7, <3>1, DisjointSum
  <2>9. Cardinality(seen) = Len(queue) + Cardinality(Fetching) + Len(pages) + Cardinality(failed)
                              + Cardinality(skipped)
    <3>1. C \cap skipped = {} /\ seen = C \cup skipped
      BY <2>1 DEF IInv, Placed
    <3> HIDE DEF C
    <3> QED
      BY <2>5, <2>8, <3>1, DisjointSum
  <2> QED
    BY <2>1, <2>9 DEF EachUrlOnce, Fetching, IInv
<1>2. IInv => DepthIsDistance
  <2> SUFFICES ASSUME IInv, NEW entries \in {queue, pages}, NEW i \in DOMAIN entries
               PROVE  /\ entries[i].url \in Within[entries[i].depth]
                      /\ entries[i].depth > 0 => entries[i].url \notin Within[entries[i].depth - 1]
    BY DEF DepthIsDistance
  <2>1. AtDistance(entries[i])
    BY DEF IInv, AllAtDistance, Listed, Range
  <2>2. entries \in Seq(Entries)
    BY DEF IInv, TypeOK
  <2>3. PICK d \in 0..MaxDepth : d = entries[i].depth
    BY <2>2, EntryTypes
  <2>4. Within[d] = Near(d) /\ (d > 0 => d - 1 \in 0..MaxDepth /\ Within[d - 1] = Near(d - 1))
    BY WithinIsNear, CrawlAssumption
  <2> QED
    BY <2>1, <2>3, <2>4 DEF AtDistance
<1>3. IInv => FrontierIsSound
  BY <1>1, <1>2 DEF FrontierIsSound
<1> QED
  BY <1>3, CrawlInvariance, PTL

\* A crawl that ended below its limit of pages has seen exactly what lies within
\* MaxDepth links of a seed, and asked for all of it but what robots.txt forbids.
THEOREM CrawlIsComplete == CrawlSpec => []NothingMissed
<1>1. IInv => NothingMissed
  <2> SUFFICES ASSUME IInv, pc = "loop", queue = <<>>
               PROVE  /\ seen = Within[MaxDepth]
                      /\ robots \cap seen \subseteq skipped
                      /\ robots \cap (UrlsIn(pages) \cup failed) = {}
    BY DEF NothingMissed
  <2>1. seen = Within[MaxDepth]
    <3>1. MaxDepth \in 0..MaxDepth
      BY CrawlAssumption
    <3> QED
      BY <3>1, WithinIsNear DEF IInv, Searched
  <2>2. robots \cap (UrlsIn(pages) \cup failed) = {}
    BY DEF IInv, Obeyed
  <2>3. seen = UrlsIn(pages) \cup failed \cup skipped
    BY DEF IInv, Placed, Fetching, UrlsIn
  <2> QED
    BY <2>1, <2>2, <2>3
<1> QED
  BY <1>1, CrawlInvariance, PTL

-----------------------------------------------------------------------------
(* ContentStore *)

Phases == {"read", "storing", "done", "failed", "aborted"}

Table(f) == f = [h \in DOMAIN f |-> f[h]]

StoreTyping ==
  /\ phase \in [Audits -> Phases]
  /\ DOMAIN chunks = Audits /\ Table(chunks)
  /\ DOMAIN todo = Audits /\ Table(todo)
  /\ DOMAIN written = Audits /\ Table(written)
  /\ DOMAIN index = Audits /\ Table(index)

\* The places of a list of chunks, and what is said at some of them.
Places(a) == 1..Len(chunks[a])
SaidAt(a, places) == {chunks[a][i].says : i \in places}

\* An audit has stored nothing yet.
Untold(a) == Said(a) = {} /\ DOMAIN index[a] = {}

\* An audit that is storing has come to a place of its list: it has written, and
\* given to its retriever, what is said before it and nothing else.
Halfway(a) ==
  /\ chunks[a] = ChunksOf(found[a])
  /\ todo[a] \subseteq Places(a)
  /\ \A i \in todo[a], j \in Places(a) : i <= j => j \in todo[a]
  /\ DOMAIN written[a] = SaidAt(a, Places(a) \ todo[a])
  /\ DOMAIN index[a] = SaidAt(a, Places(a) \ todo[a])

\* An audit that is done has left a row for all that it says and searches.
Stored(a) ==
  /\ chunks[a] = ChunksOf(found[a])
  /\ Said(a) \subseteq DOMAIN rows
  /\ DOMAIN index[a] \subseteq DOMAIN rows

\* No two open transactions have written the same row.
Apart == \A a, b \in Audits : a # b => DOMAIN written[a] \cap DOMAIN written[b] = {}

StoreIInv ==
  /\ StoreTyping
  /\ \A a \in Audits : /\ phase[a] = "read" => Untold(a)
                       /\ phase[a] = "storing" => Halfway(a)
                       /\ phase[a] = "done" => Stored(a)
                       /\ phase[a] # "storing" => DOMAIN written[a] = {}
  /\ Apart
  /\ OneOrderPasses

-----------------------------------------------------------------------------
(* Numbers and tables *)

\* A set of numbers that is not empty has a minimum.
LEMMA MinIsLeast ==
  ASSUME NEW T \in SUBSET Nat, T # {}
  PROVE  Min(T) \in T /\ \A m \in T : Min(T) <= m
BY LeastNat DEF Min

LEMMA OneChanged ==
  ASSUME NEW f, Table(f), NEW a, NEW v
  PROVE  DOMAIN [f EXCEPT ![a] = v] = DOMAIN f /\ Table([f EXCEPT ![a] = v])
BY DEF Table

LEMMA DomainOver ==
  ASSUME NEW f, NEW g
  PROVE  DOMAIN Over(f, g) = DOMAIN f \cup DOMAIN g
BY DEF Over

LEMMA DomainNothing == DOMAIN Nothing = {}
BY DEF Nothing

-----------------------------------------------------------------------------
(* Two audits that wait for each other *)

\* Where an audit first says something is a place where it says so, and no later
\* than any other such place.
LEMMA FirstIsLeast ==
  ASSUME NEW a, NEW i \in Places(a)
  PROVE  /\ FirstPlace(a, chunks[a][i].says) \in Nat
         /\ FirstPlace(a, chunks[a][i].says) \in Places(a)
         /\ chunks[a][FirstPlace(a, chunks[a][i].says)].says = chunks[a][i].says
         /\ FirstPlace(a, chunks[a][i].says) <= i
<1> DEFINE T == {k \in 1..Len(chunks[a]) : chunks[a][k].says = chunks[a][i].says}
<1>1. T \in SUBSET Nat /\ i \in T
  BY DEF Places
<1>2. \A k \in T : k \in Places(a) /\ chunks[a][k].says = chunks[a][i].says
  BY DEF Places
<1>3. FirstPlace(a, chunks[a][i].says) = Min(T)
  BY DEF FirstPlace
<1> HIDE DEF T
<1>4. Min(T) \in T /\ Min(T) <= i
  BY <1>1, MinIsLeast
<1> QED
  BY <1>1, <1>2, <1>3, <1>4

\* What an audit waits for, it says for the first time, and after all that it has
\* written.
LEMMA WrittenBefore ==
  ASSUME StoreIInv, NEW a \in Audits, NEW b \in Audits, a # b, phase[a] = "storing",
         NEW i \in NextToStore(a), Holds(b, chunks[a][i].says),
         NEW says \in DOMAIN written[a]
  PROVE  /\ i \in Places(a)
         /\ says \in Said(a) /\ chunks[a][i].says \in Said(a)
         /\ FirstPlace(a, says) < FirstPlace(a, chunks[a][i].says)
<1>1. Halfway(a)
  BY DEF StoreIInv
<1>2. /\ i \in todo[a] /\ i \in Places(a) /\ i \in Nat
      /\ \A k \in todo[a] : i <= k
  BY <1>1 DEF NextToStore, Halfway, Places
<1>3. PICK k \in Places(a) \ todo[a] : chunks[a][k].says = says
  BY <1>1 DEF Halfway, SaidAt
<1>4. k \in Nat /\ k < i
  <2>1. k \in Nat
    BY DEF Places
  <2>2. ~(i <= k)
    BY <1>1, <1>2, <1>3 DEF Halfway
  <2> QED
    BY <1>2, <2>1, <2>2
<1>5. FirstPlace(a, says) <= k /\ FirstPlace(a, says) \in Nat
  BY <1>3, FirstIsLeast
<1> DEFINE first == FirstPlace(a, chunks[a][i].says)
<1>6. first \in Nat /\ first \in Places(a) /\ chunks[a][first].says = chunks[a][i].says
  BY <1>2, FirstIsLeast
<1>7. first \in todo[a]
  <2> SUFFICES ASSUME first \notin todo[a]
               PROVE  FALSE
    OBVIOUS
  <2>1. chunks[a][first].says \in DOMAIN written[a]
    BY <1>1, <1>6 DEF Halfway, SaidAt
  <2>2. chunks[a][i].says \in DOMAIN written[b]
    BY DEF Holds
  <2> HIDE DEF first
  <2> QED
    BY <1>6, <2>1, <2>2 DEF StoreIInv, Apart
<1>8. FirstPlace(a, says) < first
  <2> HIDE DEF first
  <2> QED
    BY <1>2, <1>4, <1>5, <1>6, <1>7
<1>9. says \in Said(a) /\ chunks[a][i].says \in Said(a)
  BY <1>2, <1>3 DEF Said, Places
<1> QED
  BY <1>2, <1>8, <1>9

\* Each of the two has written what the other waits for: they found it in opposite
\* orders.
LEMMA OppositeOrders ==
  ASSUME StoreIInv, NEW a \in Audits, NEW b \in Audits, Waits(a, b), Waits(b, a)
  PROVE  /\ b \in Audits \ {a}
         /\ \E x, y \in Said(a) :
              /\ FirstPlace(a, x) < FirstPlace(a, y)
              /\ {x, y} \subseteq Said(b) /\ FirstPlace(b, y) < FirstPlace(b, x)
<1>1. a # b /\ phase[a] = "storing" /\ phase[b] = "storing"
  BY DEF Waits
<1>2. PICK i \in NextToStore(a) : Holds(b, chunks[a][i].says)
  BY DEF Waits
<1>3. PICK j \in NextToStore(b) : Holds(a, chunks[b][j].says)
  BY DEF Waits
<1> DEFINE x == chunks[b][j].says
           y == chunks[a][i].says
<1>4. x \in DOMAIN written[a] /\ y \in DOMAIN written[b]
  BY <1>2, <1>3 DEF Holds
<1>5. x \in Said(a) /\ y \in Said(a) /\ FirstPlace(a, x) < FirstPlace(a, y)
  BY <1>1, <1>2, <1>4, WrittenBefore
<1>6. x \in Said(b) /\ y \in Said(b) /\ FirstPlace(b, y) < FirstPlace(b, x)
  BY <1>1, <1>3, <1>4, WrittenBefore
<1> HIDE DEF x, y
<1> QED
  BY <1>1, <1>5, <1>6

-----------------------------------------------------------------------------
(* Every step keeps the invariant *)

LEMMA StoreInitInv == Init => StoreIInv
<1> SUFFICES ASSUME Init
             PROVE  StoreIInv
  OBVIOUS
<1> USE DEF Init
<1>1. StoreTyping
  BY DEF StoreTyping, Table, Phases
<1>2. \A a \in Audits : Said(a) = {} /\ DOMAIN written[a] = {} /\ DOMAIN index[a] = {}
  BY DomainNothing DEF Said
<1>3. \A a \in Audits : phase[a] \in {"read", "failed"}
  OBVIOUS
<1> QED
  BY <1>1, <1>2, <1>3 DEF StoreIInv, Untold, Apart, OneOrderPasses

\* An audit that a step leaves alone.
Untouched(a) ==
  /\ phase'[a] = phase[a] /\ chunks'[a] = chunks[a] /\ todo'[a] = todo[a]
  /\ written'[a] = written[a] /\ index'[a] = index[a]

\* A step of one audit: nothing it found, and nothing of the others, changes; no row
\* of the site is lost.
Alone(a) ==
  /\ found' = found
  /\ \A b \in Audits \ {a} : Untouched(b)
  /\ DOMAIN rows \subseteq DOMAIN rows'

LEMMA OthersStay ==
  ASSUME StoreIInv, NEW a \in Audits, Alone(a), NEW b \in Audits \ {a}
  PROVE  /\ phase'[b] = "read" => Untold(b)'
         /\ phase'[b] = "storing" => Halfway(b)'
         /\ phase'[b] = "done" => Stored(b)'
         /\ phase'[b] # "storing" => DOMAIN written'[b] = {}
         /\ Said(b)' = Said(b)
         /\ \A says : FirstPlace(b, says)' = FirstPlace(b, says)
<1>1. Untouched(b) /\ found' = found /\ DOMAIN rows \subseteq DOMAIN rows'
  BY DEF Alone
<1>2. Said(b)' = Said(b)
  BY <1>1 DEF Untouched, Said
<1>3. \A says : FirstPlace(b, says)' = FirstPlace(b, says)
  BY <1>1 DEF Untouched, FirstPlace
<1>4. phase'[b] = "read" => Untold(b)'
  BY <1>1, <1>2 DEF StoreIInv, Untouched, Untold
<1>5. phase'[b] = "storing" => Halfway(b)'
  <2> SUFFICES ASSUME phase'[b] = "storing"
               PROVE  Halfway(b)'
    OBVIOUS
  <2>1. Halfway(b)
    BY <1>1 DEF StoreIInv, Untouched
  <2>2. Places(b)' = Places(b) /\ todo'[b] = todo[b]
    BY <1>1 DEF Untouched, Places
  <2>3. SaidAt(b, Places(b) \ todo[b])' = SaidAt(b, Places(b) \ todo[b])
    BY <1>1, <2>2 DEF Untouched, SaidAt
  <2>4. chunks'[b] = ChunksOf(found[b])' <=> chunks[b] = ChunksOf(found[b])
    BY <1>1 DEF Untouched, ChunksOf
  <2> QED
    BY <1>1, <2>1, <2>2, <2>3, <2>4 DEF Untouched, Halfway
<1>6. phase'[b] = "done" => Stored(b)'
  BY <1>1, <1>2 DEF StoreIInv, Untouched, Stored, ChunksOf
<1>7. phase'[b] # "storing" => DOMAIN written'[b] = {}
  BY <1>1 DEF StoreIInv, Untouched
<1> QED
  BY <1>2, <1>3, <1>4, <1>5, <1>6, <1>7

\* Rows of different audits stay apart if a step writes none that another has.
LEMMA ApartStays ==
  ASSUME StoreIInv, NEW a \in Audits, Alone(a),
         \A b \in Audits \ {a} : DOMAIN written'[a] \cap DOMAIN written[b] = {}
  PROVE  Apart'
<1> SUFFICES ASSUME NEW b \in Audits, NEW c \in Audits, b # c
             PROVE  DOMAIN written'[b] \cap DOMAIN written'[c] = {}
  BY DEF Apart
<1>1. \A d \in Audits \ {a} : written'[d] = written[d]
  BY DEF Alone, Untouched
<1>2. CASE b = a
  BY <1>1, <1>2
<1>3. CASE c = a
  BY <1>1, <1>3
<1>4. CASE b # a /\ c # a
  BY <1>1, <1>4 DEF StoreIInv, Apart
<1> QED
  BY <1>2, <1>3, <1>4

\* The list of an audit is kept from the moment it is made, so what was in another
\* order stays so.
LEMMA OrdersStay ==
  ASSUME StoreIInv, NEW a \in Audits, Alone(a),
         chunks'[a] = chunks[a] \/ phase[a] = "read",
         phase'[a] = "aborted" =>
           /\ chunks'[a] = chunks[a]
           /\ \E b \in Audits \ {a}, x, y \in Said(a) :
                /\ FirstPlace(a, x) < FirstPlace(a, y)
                /\ {x, y} \subseteq Said(b) /\ FirstPlace(b, y) < FirstPlace(b, x)
  PROVE  OneOrderPasses'
<1>1. \A b \in Audits : chunks'[b] = chunks[b] =>
        /\ Said(b)' = Said(b)
        /\ \A says : FirstPlace(b, says)' = FirstPlace(b, says)
  BY DEF Said, FirstPlace
<1>2. \A b \in Audits : Said(b) # {} => chunks'[b] = chunks[b]
  BY DEF StoreIInv, Untold, Alone, Untouched
<1>3. ASSUME NEW c \in Audits, phase'[c] = "aborted"
      PROVE  /\ chunks'[c] = chunks[c]
             /\ \E b \in Audits \ {c}, x, y \in Said(c) :
                  /\ FirstPlace(c, x) < FirstPlace(c, y)
                  /\ {x, y} \subseteq Said(b) /\ FirstPlace(b, y) < FirstPlace(b, x)
  <2>1. CASE c = a
    BY <1>3, <2>1
  <2>2. CASE c # a
    BY <1>3, <2>2 DEF StoreIInv, OneOrderPasses, Alone, Untouched
  <2> QED
    BY <2>1, <2>2
<1>4. SUFFICES ASSUME NEW c \in Audits, phase'[c] = "aborted"
               PROVE  \E b \in Audits \ {c}, x, y \in Said(c)' :
                        /\ FirstPlace(c, x)' < FirstPlace(c, y)'
                        /\ {x, y} \subseteq Said(b)' /\ FirstPlace(b, y)' < FirstPlace(b, x)'
  BY DEF OneOrderPasses
<1>5. PICK b \in Audits \ {c}, x \in Said(c), y \in Said(c) :
        /\ FirstPlace(c, x) < FirstPlace(c, y)
        /\ {x, y} \subseteq Said(b) /\ FirstPlace(b, y) < FirstPlace(b, x)
  BY <1>3, <1>4
<1>6. chunks'[c] = chunks[c] /\ chunks'[b] = chunks[b]
  BY <1>2, <1>3, <1>4, <1>5
<1> QED
  BY <1>1, <1>5, <1>6

\* An audit that has not committed makes its list; it has written nothing.
LEMMA ChunkInv ==
  ASSUME StoreIInv, NEW a \in Audits, ChunkAndEmbed(a)
  PROVE  StoreIInv'
<1> USE DEF ChunkAndEmbed
<1>1. StoreTyping'
  BY DEF StoreIInv, StoreTyping, Table, Phases
<1>2. Alone(a)
  BY DEF StoreIInv, StoreTyping, Alone, Untouched
<1>3. /\ phase'[a] = "storing" /\ chunks'[a] = ChunksOf(found[a])
      /\ todo'[a] = 1..Len(chunks'[a])
      /\ written'[a] = written[a] /\ DOMAIN written[a] = {}
      /\ index'[a] = index[a] /\ DOMAIN index[a] = {}
  BY DEF StoreIInv, StoreTyping, Untold
<1>4. Halfway(a)'
  <2>1. chunks'[a] = ChunksOf(found[a])'
    BY <1>3 DEF ChunksOf
  <2>2. Places(a)' = todo'[a]
    BY <1>3 DEF Places
  <2>3. SaidAt(a, Places(a) \ todo[a])' = {}
    BY <2>2 DEF SaidAt
  <2> QED
    BY <1>3, <2>1, <2>2, <2>3 DEF Halfway
<1>5. Apart'
  BY <1>2, <1>3, ApartStays
<1>6. OneOrderPasses'
  BY <1>2, <1>3, OrdersStay
<1>7. \A b \in Audits \ {a} : /\ phase'[b] = "read" => Untold(b)'
                              /\ phase'[b] = "storing" => Halfway(b)'
                              /\ phase'[b] = "done" => Stored(b)'
                              /\ phase'[b] # "storing" => DOMAIN written'[b] = {}
  BY <1>2, OthersStay
<1> QED
  BY <1>1, <1>3, <1>4, <1>5, <1>6, <1>7 DEF StoreIInv

\* The next chunk is stored: what is said before the place of the audit grows by it.
LEMMA StoreInv ==
  ASSUME StoreIInv, NEW a \in Audits, Store(a)
  PROVE  StoreIInv'
<1> USE DEF Store
<1>1. PICK i \in NextToStore(a) :
        /\ \A b \in Audits \ {a} : ~Holds(b, chunks[a][i].says)
        /\ written' = [written EXCEPT ![a] =
             Over([h \in {chunks[a][i].says} |-> Upserted(a, chunks[a][i])], @)]
        /\ index' = [index EXCEPT ![a] = Over([h \in {chunks[a][i].says} |-> chunks[a][i].page], @)]
        /\ todo' = [todo EXCEPT ![a] = @ \ {i}]
  OBVIOUS
<1>2. StoreTyping'
  <2>1. /\ DOMAIN written' = Audits /\ Table(written')
        /\ DOMAIN index' = Audits /\ Table(index')
        /\ DOMAIN todo' = Audits /\ Table(todo')
    BY <1>1, OneChanged DEF StoreIInv, StoreTyping
  <2> QED
    BY <2>1 DEF StoreIInv, StoreTyping, Table
<1>3. Alone(a)
  BY <1>1 DEF StoreIInv, StoreTyping, Alone, Untouched
<1>4. /\ phase[a] = "storing" /\ phase'[a] = "storing" /\ Halfway(a)
      /\ chunks'[a] = chunks[a] /\ todo'[a] = todo[a] \ {i}
  BY <1>1 DEF StoreIInv, StoreTyping
<1>5. /\ DOMAIN written'[a] = {chunks[a][i].says} \cup DOMAIN written[a]
      /\ DOMAIN index'[a] = {chunks[a][i].says} \cup DOMAIN index[a]
  <2> DEFINE row == [h \in {chunks[a][i].says} |-> Upserted(a, chunks[a][i])]
             document == [h \in {chunks[a][i].says} |-> chunks[a][i].page]
  <2>1. written'[a] = Over(row, written[a]) /\ index'[a] = Over(document, index[a])
    BY <1>1 DEF StoreIInv, StoreTyping
  <2>2. DOMAIN row = {chunks[a][i].says} /\ DOMAIN document = {chunks[a][i].says}
    OBVIOUS
  <2> HIDE DEF row, document
  <2>3. /\ DOMAIN Over(row, written[a]) = DOMAIN row \cup DOMAIN written[a]
        /\ DOMAIN Over(document, index[a]) = DOMAIN document \cup DOMAIN index[a]
    BY DomainOver
  <2> QED
    BY <2>1, <2>2, <2>3
<1>6. i \in todo[a] /\ i \in Places(a) /\ \A k \in todo[a] : i <= k
  BY <1>4 DEF NextToStore, Halfway
<1>7. Halfway(a)'
  <2>1. Places(a)' = Places(a) /\ chunks'[a] = ChunksOf(found[a])'
    BY <1>4 DEF Places, Halfway, ChunksOf
  <2>2. todo'[a] \subseteq Places(a)
    BY <1>4 DEF Halfway
  <2>3. \A k \in todo'[a], l \in Places(a) : k <= l => l \in todo'[a]
    <3> SUFFICES ASSUME NEW k \in todo'[a], NEW l \in Places(a), k <= l
                 PROVE  l \in todo[a] /\ l # i
      BY <1>4
    <3>1. k \in todo[a] /\ k # i /\ i <= k /\ k \in Places(a)
      BY <1>4, <1>6 DEF Halfway
    <3>2. l \in todo[a]
      BY <1>4, <3>1 DEF Halfway
    <3>3. i \in Nat /\ k \in Nat /\ l \in Nat
      BY <1>6, <3>1 DEF Places
    <3> QED
      BY <3>1, <3>2, <3>3
  <2>4. Places(a) \ todo'[a] = (Places(a) \ todo[a]) \cup {i}
    BY <1>4, <1>6
  <2>5. SaidAt(a, Places(a) \ todo[a])' = SaidAt(a, Places(a) \ todo[a]) \cup {chunks[a][i].says}
    BY <1>4, <2>1, <2>4 DEF SaidAt
  <2> QED
    BY <1>4, <1>5, <2>1, <2>2, <2>3, <2>5 DEF Halfway
<1>8. \A b \in Audits \ {a} : DOMAIN written'[a] \cap DOMAIN written[b] = {}
  <2> SUFFICES ASSUME NEW b \in Audits \ {a}
               PROVE  DOMAIN written'[a] \cap DOMAIN written[b] = {}
    OBVIOUS
  <2>1. chunks[a][i].says \notin DOMAIN written[b]
    BY <1>1 DEF Holds, StoreIInv
  <2>2. DOMAIN written[a] \cap DOMAIN written[b] = {}
    BY DEF StoreIInv, Apart
  <2> QED
    BY <1>5, <2>1, <2>2
<1>9. Apart'
  BY <1>3, <1>8, ApartStays
<1>10. OneOrderPasses'
  BY <1>3, <1>4, OrdersStay
<1>11. \A b \in Audits \ {a} : /\ phase'[b] = "read" => Untold(b)'
                               /\ phase'[b] = "storing" => Halfway(b)'
                               /\ phase'[b] = "done" => Stored(b)'
                               /\ phase'[b] # "storing" => DOMAIN written'[b] = {}
  BY <1>3, OthersStay
<1> QED
  BY <1>2, <1>4, <1>7, <1>9, <1>10, <1>11 DEF StoreIInv

\* All that the audit says is written, and stays.
LEMMA CommitInv ==
  ASSUME StoreIInv, NEW a \in Audits, Commit(a)
  PROVE  StoreIInv'
<1> USE DEF Commit
<1>1. StoreTyping'
  BY DEF StoreIInv, StoreTyping, Table, Phases
<1>2. DOMAIN rows' = DOMAIN written[a] \cup DOMAIN rows
  BY DomainOver DEF Kept
<1>3. Alone(a)
  BY <1>2 DEF StoreIInv, StoreTyping, Alone, Untouched
<1>4. /\ phase'[a] = "done" /\ chunks'[a] = chunks[a] /\ written'[a] = Nothing
      /\ index'[a] = index[a] /\ todo[a] = {} /\ Halfway(a)
  BY DEF StoreIInv, StoreTyping
<1>5. DOMAIN written'[a] = {}
  BY <1>4, DomainNothing
<1>6. Stored(a)'
  <2>1. Said(a)' = Said(a) /\ chunks'[a] = ChunksOf(found[a])'
    BY <1>4 DEF Said, Halfway, ChunksOf
  <2>2. Said(a) = DOMAIN written[a] /\ DOMAIN index[a] = DOMAIN written[a]
    BY <1>4 DEF Said, Halfway, SaidAt, Places
  <2> QED
    BY <1>2, <1>4, <2>1, <2>2 DEF Stored
<1>7. Apart'
  BY <1>3, <1>5, ApartStays
<1>8. OneOrderPasses'
  BY <1>3, <1>4, OrdersStay
<1>9. \A b \in Audits \ {a} : /\ phase'[b] = "read" => Untold(b)'
                              /\ phase'[b] = "storing" => Halfway(b)'
                              /\ phase'[b] = "done" => Stored(b)'
                              /\ phase'[b] # "storing" => DOMAIN written'[b] = {}
  BY <1>3, OthersStay
<1> QED
  BY <1>1, <1>4, <1>5, <1>6, <1>7, <1>8, <1>9 DEF StoreIInv

\* An audit that stops, by itself or because the database ends it, leaves nothing.
LEMMA StopInv ==
  ASSUME StoreIInv, NEW a \in Audits, Crash(a) \/ Abort(a)
  PROVE  StoreIInv'
<1>1. /\ phase' = [phase EXCEPT ![a] = "failed"] \/ phase' = [phase EXCEPT ![a] = "aborted"]
      /\ written' = [written EXCEPT ![a] = Nothing]
      /\ UNCHANGED <<found, chunks, todo, index, rows>>
  BY DEF Crash, Abort
<1>2. StoreTyping'
  <2>1. DOMAIN written' = Audits /\ Table(written')
    BY <1>1, OneChanged DEF StoreIInv, StoreTyping
  <2>2. phase' \in [Audits -> Phases]
    BY <1>1 DEF StoreIInv, StoreTyping, Phases
  <2> QED
    BY <1>1, <2>1, <2>2 DEF StoreIInv, StoreTyping, Table
<1>3. Alone(a)
  BY <1>1 DEF StoreIInv, StoreTyping, Alone, Untouched
<1>4. phase'[a] \in {"failed", "aborted"} /\ chunks'[a] = chunks[a] /\ written'[a] = Nothing
  BY <1>1 DEF StoreIInv, StoreTyping
<1>5. DOMAIN written'[a] = {}
  BY <1>4, DomainNothing
<1>6. Apart'
  BY <1>3, <1>5, ApartStays
<1>7. OneOrderPasses'
  <2>1. CASE Abort(a)
    BY <1>3, <1>4, <2>1, OppositeOrders, OrdersStay DEF Abort
  <2>2. CASE Crash(a)
    <3>1. phase'[a] = "failed"
      BY <2>2 DEF Crash, StoreIInv, StoreTyping
    <3> QED
      BY <1>3, <1>4, <3>1, OrdersStay
  <2> QED
    BY <2>1, <2>2
<1>8. \A b \in Audits \ {a} : /\ phase'[b] = "read" => Untold(b)'
                              /\ phase'[b] = "storing" => Halfway(b)'
                              /\ phase'[b] = "done" => Stored(b)'
                              /\ phase'[b] # "storing" => DOMAIN written'[b] = {}
  BY <1>3, OthersStay
<1> QED
  BY <1>2, <1>4, <1>5, <1>6, <1>7, <1>8 DEF StoreIInv

LEMMA StoreStutterInv ==
  ASSUME StoreIInv, UNCHANGED vars
  PROVE  StoreIInv'
<1>1. StoreTyping'
  BY DEF StoreIInv, vars, StoreTyping, Table
<1>2. \A a \in Audits : /\ Untold(a)' <=> Untold(a)
                        /\ Halfway(a)' <=> Halfway(a)
                        /\ Stored(a)' <=> Stored(a)
  BY DEF vars, Untold, Halfway, Stored, Said, SaidAt, Places, ChunksOf
<1>3. Apart'
  BY DEF StoreIInv, vars, Apart
<1>4. OneOrderPasses'
  <2>1. \A a \in Audits : Said(a)' = Said(a) /\ \A says : FirstPlace(a, says)' = FirstPlace(a, says)
    BY DEF vars, Said, FirstPlace
  <2> QED
    BY <2>1 DEF StoreIInv, vars, OneOrderPasses
<1> QED
  BY <1>1, <1>2, <1>3, <1>4 DEF StoreIInv, vars

LEMMA ContentInvariance == Spec => []StoreIInv
<1>1. StoreIInv /\ [Next]_vars => StoreIInv'
  BY ChunkInv, StoreInv, CommitInv, StopInv, StoreStutterInv DEF Next
<1> QED
  BY StoreInitInv, <1>1, PTL DEF Spec

-----------------------------------------------------------------------------

\* The database ends an audit only when another one of the site found two chunks in
\* the other order: audits that find the same pages in the same order never block
\* each other for good (worker/embeddings/storage.py).
THEOREM SameOrderNeverDeadlocks == Spec => []OneOrderPasses
<1>1. StoreIInv => OneOrderPasses
  BY DEF StoreIInv
<1> QED
  BY <1>1, ContentInvariance, PTL

\* Every list of pages an audit may find is cut so that no word is lost and no chunk
\* is much too large: what the cutting alone, without any storing, has to do.
CutWell ==
  \A texts \in UNION {{start[a] : a \in Audits} : start \in Starts} : \A p \in DOMAIN texts :
    /\ KeptIn(texts[p], {ChunksOf(texts)[i].says : i \in 1..Len(ChunksOf(texts))})
    /\ Sized(texts[p])

LEMMA KeptInMore ==
  ASSUME NEW text, NEW some, NEW more, some \subseteq more, KeptIn(text, some)
  PROVE  KeptIn(text, more)
<1>1. \A piece : Together(piece, text, some) => Together(piece, text, more)
  BY DEF Together
<1> QED
  BY <1>1 DEF KeptIn

LEMMA FoundStarts == Spec => [](found \in Starts)
<1>1. Init => found \in Starts
  BY DEF Init
<1>2. found \in Starts /\ [Next]_vars => (found \in Starts)'
  BY DEF Next, ChunkAndEmbed, Store, Commit, Crash, Abort, vars
<1> QED
  BY <1>1, <1>2, PTL DEF Spec

\* Whatever else is stored, crashes or is stored again, an audit that committed has left
\* a row for all that it says, and what it searches is stored; so if its texts are cut
\* well, all of them can be found in the rows of the site (worker/tasks/audit.py, steps
\* 3 to 5).
THEOREM CommittedStays ==
  ASSUME CutWell
  PROVE  Spec => []CommittedIsSearchable
<1>1. found \in Starts /\ StoreIInv => CommittedIsSearchable
  <2> SUFFICES ASSUME found \in Starts, StoreIInv, NEW a \in Audits, phase[a] = "done"
               PROVE  /\ \A p \in DOMAIN found[a] :
                           KeptIn(found[a][p], DOMAIN rows) /\ Sized(found[a][p])
                      /\ DOMAIN index[a] \subseteq DOMAIN rows
    BY DEF CommittedIsSearchable
  <2>1. Stored(a)
    BY DEF StoreIInv
  <2>2. {ChunksOf(found[a])[i].says : i \in 1..Len(ChunksOf(found[a]))} \subseteq DOMAIN rows
    BY <2>1 DEF Stored, Said
  <2>3. \A p \in DOMAIN found[a] :
          /\ KeptIn(found[a][p], {ChunksOf(found[a])[i].says : i \in 1..Len(ChunksOf(found[a]))})
          /\ Sized(found[a][p])
    BY DEF CutWell
  <2> QED
    BY <2>1, <2>2, <2>3, KeptInMore DEF Stored
<1> QED
  BY <1>1, ContentInvariance, FoundStarts, PTL
=============================================================================
