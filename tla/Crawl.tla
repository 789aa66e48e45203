------------------------------- MODULE Crawl -------------------------------
(***************************************************************************)
(* The crawl of a site and its cache (worker/crawler/crawler.py, robots.py, *)
(* fetcher.py, cache.py): a breadth-first search from the start page, a     *)
(* list of usual paths and the sitemap, under limits of pages and depth,    *)
(* one URL at a time; and audits one after another that share the crawls    *)
(* of a domain through Redis, which a user may clear at any moment          *)
(* (api/routers/sites.py: invalidate_cache).                                *)
(*                                                                         *)
(* The site is external: what a URL answers is chosen when it is asked.  A  *)
(* URL is a normalised one (worker/crawler/url.py): two spellings of a page  *)
(* are one URL, and normalize_url has dropped what no link may lead to.      *)
(***************************************************************************)
EXTENDS Naturals, Sequences, FiniteSets

CONSTANTS
  Urls,            \* internal URLs
  Root,            \* the start URL
  Outside,         \* URLs of other domains
  PriorityPaths,   \* DEFAULT_PRIORITY_PATHS on this site: a sequence
  LinkLists,       \* the lists of links a page may have
  Sitemaps,        \* the lists the sitemaps may give
  Disallowed,      \* the sets of URLs robots.txt may forbid
  MaxPages,        \* crawler_max_pages
  MaxDepth,        \* crawler_max_depth
  MaxRetries,      \* Fetcher.max_retries
  MaxAudits,       \* bound: audits
  MaxInvalidations \* bound: requests to clear the cache

ASSUME CrawlAssumption ==
  /\ Urls \cap Outside = {}
  /\ Root \in Urls
  /\ PriorityPaths \in Seq(Urls)
  /\ LinkLists \subseteq Seq(Urls \cup Outside)
  /\ Sitemaps \subseteq Seq(Urls \cup Outside)
  /\ Disallowed \subseteq SUBSET Urls
  /\ MaxPages \in Nat \ {0}
  /\ MaxDepth \in Nat
  /\ MaxRetries \in Nat
  /\ MaxAudits \in Nat
  /\ MaxInvalidations \in Nat

VARIABLES
  pc,          \* "idle", "robots", "loop" or "fetch"
  queue,       \* the URLs to visit, with their depths
  seen,        \* every URL that was ever queued
  seeds,       \* the URLs queued before the first page (history)
  pages,       \* the pages crawled, with their depths, in order
  failed,      \* URLs that gave no page
  skipped,     \* URLs that robots.txt forbids, and empty pages
  current,     \* the URL being fetched, with its depth
  attempt,     \* failed attempts to fetch it
  robots,      \* what robots.txt forbids
  web,         \* the answers of this crawl (history)
  cache,       \* there is a crawl in crawl:cache:<domain>
  audits, invalidations

frontier == <<queue, seen, seeds, pages, failed, skipped, current, attempt, robots>>
crawlVars == <<pc, frontier, web, cache, audits, invalidations>>

Entry(url, depth) == [url |-> url, depth |-> depth]
NoEntry == Entry(Root, 0)
Unknown == [kind |-> "unknown", links |-> <<>>]
Answers == {[kind |-> k, links |-> <<>>] : k \in {"refused", "empty"}}
             \cup [kind : {"page"}, links : LinkLists]

UrlsIn(entries) == {entries[i].url : i \in DOMAIN entries}
Links(url) == {web[url].links[i] : i \in DOMAIN web[url].links}

CrawlInit ==
  /\ pc = "idle"
  /\ queue = <<>>
  /\ seen = {}
  /\ seeds = {}
  /\ pages = <<>>
  /\ failed = {}
  /\ skipped = {}
  /\ current = NoEntry
  /\ attempt = 0
  /\ robots = {}
  /\ web = [u \in Urls |-> Unknown]
  /\ cache = FALSE
  /\ audits = 0
  /\ invalidations = 0

\* The entries a list of URLs adds to the queue: the internal ones that were
\* not seen, each at its first place in the list.
NewEntries(list, known, depth) ==
  LET places == {i \in DOMAIN list : /\ list[i] \in Urls \ known
                                      /\ \A j \in 1..(i - 1) : list[j] # list[i]}
      rank == [i \in places |-> Cardinality({j \in places : j <= i})]
  IN [k \in 1..Cardinality(places) |->
        Entry(list[CHOOSE i \in places : rank[i] = k], depth)]

-----------------------------------------------------------------------------
\* get_cached_or_crawl

\* A hit: whatever limits the cached crawl had.
StartFromCache ==
  /\ pc = "idle"
  /\ audits < MaxAudits
  /\ cache
  /\ audits' = audits + 1
  /\ UNCHANGED <<pc, frontier, web, cache, invalidations>>

\* The start URL and the usual paths, all at depth 0.
StartCrawl ==
  /\ pc = "idle"
  /\ audits < MaxAudits
  /\ ~cache
  /\ audits' = audits + 1
  /\ pc' = "robots"
  /\ queue' = <<Entry(Root, 0)>> \o NewEntries(PriorityPaths, {Root}, 0)
  /\ seen' = UrlsIn(queue')
  /\ seeds' = UrlsIn(queue')
  /\ UNCHANGED <<pages, failed, skipped, current, attempt, robots, web, cache,
                 invalidations>>

Expire ==
  /\ cache
  /\ cache' = FALSE
  /\ UNCHANGED <<pc, frontier, web, audits, invalidations>>

Invalidate ==
  /\ invalidations < MaxInvalidations
  /\ invalidations' = invalidations + 1
  /\ cache' = FALSE
  /\ UNCHANGED <<pc, frontier, web, audits>>

-----------------------------------------------------------------------------
\* Crawler.crawl

\* robots.txt is read once, and everything is allowed when it cannot be; then
\* the URLs of the sitemaps it names, all at depth 0.
SeedFromSitemap(forbidden, sitemap) ==
  /\ pc = "robots"
  /\ robots' = forbidden
  /\ LET new == NewEntries(sitemap, seen, 0) IN
     /\ queue' = queue \o new
     /\ seen' = seen \cup UrlsIn(new)
     /\ seeds' = seen \cup UrlsIn(new)
  /\ pc' = "loop"
  /\ UNCHANGED <<pages, failed, skipped, current, attempt, web, cache, audits,
                 invalidations>>

Looping == pc = "loop" /\ queue # <<>> /\ Len(pages) < MaxPages

\* Mutant: the newest URL is taken.
TakeLast ==
  /\ Looping
  /\ queue' = SubSeq(queue, 1, Len(queue) - 1)
  /\ LET e == queue[Len(queue)] IN
     IF e.depth > MaxDepth \/ e.url \in robots
     THEN skipped' = skipped \cup {e.url} /\ UNCHANGED <<pc, current, attempt>>
     ELSE /\ pc' = "fetch"
          /\ current' = e
          /\ attempt' = 0
          /\ UNCHANGED skipped
  /\ UNCHANGED <<seen, seeds, pages, failed, robots, web, cache, audits, invalidations>>

TakeNext ==
  /\ Looping
  /\ queue' = Tail(queue)
  /\ LET e == Head(queue) IN
     IF e.depth > MaxDepth \/ e.url \in robots
     THEN skipped' = skipped \cup {e.url} /\ UNCHANGED <<pc, current, attempt>>
     ELSE /\ pc' = "fetch"
          /\ current' = e
          /\ attempt' = 0
          /\ UNCHANGED skipped
  /\ UNCHANGED <<seen, seeds, pages, failed, robots, web, cache, audits, invalidations>>

\* Mutant: a URL that raised is put back into the queue.
FetchRaisesAgain ==
  /\ pc = "fetch"
  /\ queue' = Append(queue, current)
  /\ pc' = "loop"
  /\ UNCHANGED <<seen, seeds, pages, failed, skipped, current, attempt, robots, web, cache,
                 audits, invalidations>>

\* Fetcher.fetch: an exception or a timeout, tried again MaxRetries times.
FetchRaises ==
  /\ pc = "fetch"
  /\ IF attempt < MaxRetries
     THEN attempt' = attempt + 1 /\ UNCHANGED <<pc, failed>>
     ELSE /\ failed' = failed \cup {current.url}
          /\ pc' = "loop"
          /\ UNCHANGED attempt
  /\ UNCHANGED <<queue, seen, seeds, pages, skipped, current, robots, web, cache,
                 audits, invalidations>>

Answered(answer) ==
  /\ pc = "fetch"
  /\ web' = [web EXCEPT ![current.url] = answer]
  /\ pc' = "loop"
  /\ UNCHANGED <<seeds, current, attempt, robots, cache, audits, invalidations>>

\* Another status than 200, or another type than HTML: fetch keeps no text
\* then, so the URL has failed, and the later test for HTML decides nothing.
NoPage(answer) ==
  /\ Answered(answer)
  /\ answer.kind = "refused"
  /\ failed' = failed \cup {current.url}
  /\ UNCHANGED <<queue, seen, pages, skipped>>

EmptyPage(answer) ==
  /\ Answered(answer)
  /\ answer.kind = "empty"
  /\ skipped' = skipped \cup {current.url}
  /\ UNCHANGED <<queue, seen, pages, failed>>

\* Mutant: the last depth is left out.
FoundOneShort(links) ==
  IF current.depth + 1 < MaxDepth THEN NewEntries(links, seen, current.depth + 1) ELSE <<>>

\* The links that are followed from the current page.
Found(links) ==
  IF current.depth + 1 <= MaxDepth THEN NewEntries(links, seen, current.depth + 1) ELSE <<>>

Page(answer) ==
  /\ Answered(answer)
  /\ answer.kind = "page"
  /\ pages' = Append(pages, current)
  /\ queue' = queue \o Found(answer.links)
  /\ seen' = seen \cup UrlsIn(Found(answer.links))
  /\ UNCHANGED <<failed, skipped>>

NewFrontier ==
  /\ queue' = <<>>
  /\ seen' = {}
  /\ seeds' = {}
  /\ pages' = <<>>
  /\ failed' = {}
  /\ skipped' = {}
  /\ current' = NoEntry
  /\ attempt' = 0
  /\ robots' = {}
  /\ web' = [u \in Urls |-> Unknown]

\* The crawl ends; its result goes to the cache and on to the extraction.
Finish ==
  /\ pc = "loop"
  /\ queue = <<>> \/ Len(pages) >= MaxPages
  /\ pc' = "idle"
  /\ cache' = TRUE
  /\ NewFrontier
  /\ UNCHANGED <<audits, invalidations>>

-----------------------------------------------------------------------------
CrawlStep ==
  \/ \E forbidden \in Disallowed, sitemap \in Sitemaps : SeedFromSitemap(forbidden, sitemap)
  \/ TakeNext
  \/ FetchRaises
  \/ \E answer \in Answers : NoPage(answer) \/ EmptyPage(answer) \/ Page(answer)
  \/ Finish
CrawlNext == StartFromCache \/ StartCrawl \/ Expire \/ Invalidate \/ CrawlStep
\* The worker keeps running: requests, sleeps and retries end.
CrawlFairness == WF_crawlVars(CrawlStep)

-----------------------------------------------------------------------------
\* Properties.

Entries == [url : Urls, depth : 0..MaxDepth]

TypeOK ==
  /\ pc \in {"idle", "robots", "loop", "fetch"}
  /\ queue \in Seq(Entries)
  /\ seen \subseteq Urls
  /\ seeds \subseteq Urls
  /\ pages \in Seq(Entries)
  /\ failed \subseteq Urls
  /\ skipped \subseteq Urls
  /\ current \in Entries
  /\ attempt \in 0..MaxRetries
  /\ robots \subseteq Urls
  /\ web \in [Urls -> Answers \cup {Unknown}]
  /\ cache \in BOOLEAN
  /\ audits \in 0..MaxAudits
  /\ invalidations \in 0..MaxInvalidations

\* Every URL that was ever seen is in exactly one place: waiting, being
\* fetched, crawled, failed or skipped, and once only.  So no URL is fetched for
\* two pages, none is lost, and the counts of the result add up.
EachUrlOnce ==
  LET fetching == IF pc = "fetch" THEN {current.url} ELSE {}
  IN /\ TypeOK
     /\ seen = UrlsIn(queue) \cup fetching \cup UrlsIn(pages) \cup failed \cup skipped
     /\ Cardinality(seen) = Len(queue) + Cardinality(fetching) + Len(pages)
                              + Cardinality(failed) + Cardinality(skipped)

\* Reference: the URLs within d links of a seed, over the pages crawled so far.
Within[d \in 0..MaxDepth] ==
  IF d = 0 THEN seeds
  ELSE Within[d - 1] \cup
         UNION {Links(u) \cap Urls : u \in Within[d - 1] \cap UrlsIn(pages)}

\* Breadth first: the depth of a page is its distance from the nearest seed,
\* though it may have been found from several pages; so the depth limit cuts
\* by distance and not by the path that happened to be taken.
DepthIsDistance ==
  \A entries \in {queue, pages} : \A i \in DOMAIN entries :
    LET e == entries[i] IN
    /\ e.url \in Within[e.depth]
    /\ e.depth > 0 => e.url \notin Within[e.depth - 1]

\* A crawl that ended below its limit of pages has seen every internal URL
\* within MaxDepth links of a seed and asked each one robots.txt allows, and
\* none that it forbids.
NothingMissed ==
  pc = "loop" /\ queue = <<>> /\ Len(pages) < MaxPages
    => /\ seen = Within[MaxDepth]
       /\ robots \cap seen \subseteq skipped
       /\ robots \cap (UrlsIn(pages) \cup failed) = {}

\* Whatever a site answers, a URL is in one place and its depth is its distance.
FrontierIsSound == EachUrlOnce /\ DepthIsDistance

\* Every crawl ends, whatever the site answers.
CrawlEnds == []<>(pc = "idle")
=============================================================================
