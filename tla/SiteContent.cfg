SPECIFICATION MCSpec
CONSTANTS
  a1 = a1
  a2 = a2
  Audits = {a1, a2}
  Starts <- SomeStarts
  MaxSize = 4
  MinSize = 2
  Overlap = 1
  MaxWords = 6
  MaxRepeated = 5
  Pages <- SomePages
  Domains <- SomeDomains
  Sentences = 2
  MaxSitePages = 4
  u1 = u1
  u2 = u2
  u3 = u3
  u4 = u4
  u5 = u5
  x = x
  Urls <- FiveUrls
  Root = u1
  Outside <- Others
  PriorityPaths <- Usual
  LinkLists <- SomeLinks
  Sitemaps <- SomeSitemaps
  Disallowed <- SomeRules
  MaxPages = 4
  MaxDepth = 2
  MaxRetries = 1
  MaxAudits = 2
  MaxInvalidations = 1
CHECK_DEADLOCK FALSE
INVARIANTS
  FrontierIsSound
  NothingMissed
  CommittedIsSearchable
  OneOrderPasses
PROPERTIES
  DocsPay
  CrawlEnds
