--------------------------- MODULE MCSiteTechnical ---------------------------
(* Sites for SiteTechnical: every kind of robots.txt beside a slow site that  *)
(* renders in the browser, and every state of the rest beside one that lets   *)
(* everybody in.                                                             *)
EXTENDS SiteTechnical

A(v) == [is |-> "agent", value |-> v]
D(v) == [is |-> "disallow", value |-> v]
W(v) == [is |-> "allow", value |-> v]

MCRobots ==
  {<<>>, <<A("*"), D("")>>, <<A("*"), D("/")>>, <<A("*"), W("/"), D("/*")>>,
   <<A("*"), D("/part")>>, <<A("Googlebot"), D("/"), A(""), A("*"), W("/")>>,
   <<A("OtherBot"), D("/"), A("*"), D("/part")>>,
   <<A("Bingbot"), A("Applebot"), D("/part"), D("/*")>>,
   <<A("GPTBot"), A("ClaudeBot"), A("PerplexityBot"), A("CCBot"), D("/")>>,
   <<A("Googlebot-Image"), D("/"), A("Googlebot"), W("/")>>,
   <<A("Twitterbot"), D("/")>>, <<A("FindableBot"), D("/")>>}

Page(chars, framework, markers, loading, noscript) ==
  [chars |-> chars, framework |-> framework, markers |-> markers, loading |-> loading,
   noscript |-> noscript]
MCHomes ==
  {Page(0, TRUE, FALSE, TRUE, FALSE), Page(99, FALSE, FALSE, FALSE, FALSE),
   Page(99, FALSE, FALSE, FALSE, TRUE),
   Page(100, FALSE, FALSE, FALSE, TRUE), Page(499, TRUE, FALSE, FALSE, FALSE),
   Page(500, TRUE, FALSE, FALSE, FALSE), Page(1000, TRUE, TRUE, TRUE, FALSE),
   Page(1000, FALSE, FALSE, FALSE, TRUE)}
L(exists, good, links) ==
  [exists |-> exists, title |-> good, described |-> good, sections |-> good, links |-> links]
MCLlms == {L(FALSE, FALSE, 0), L(TRUE, FALSE, 0), L(TRUE, TRUE, 12)}
MCSpeeds == {150, 200, 499, 500, 1000, 1001, 1500, 1501, 2499, 2500}

S(robots, ms, llms, home) == [robots |-> robots, ms |-> ms, llms |-> llms, home |-> home]
\* Search engines may come in, and nobody else.
Restricted ==
  <<A("Googlebot"), A("Bingbot"), A("Applebot"), A("FindableBot"), W("/"), A("*"), D("/")>>
MCSites ==
  {S(r, 2500, L(TRUE, FALSE, 0), Page(1000, FALSE, FALSE, FALSE, FALSE)) : r \in MCRobots}
    \cup {S(Restricted, 1500, L(TRUE, FALSE, 0), h) : h \in MCHomes}
    \cup {S(Restricted, ms, l, Page(1000, FALSE, FALSE, FALSE, TRUE)) :
            ms \in {150, 1000}, l \in MCLlms}
    \cup {S(<<>>, ms, L(FALSE, FALSE, 0), Page(1000, FALSE, FALSE, FALSE, FALSE)) :
            ms \in MCSpeeds}
=============================================================================
