SPECIFICATION FairSpec
CONSTANTS
  s1 = s1
  r1 = r1
  r2 = r2
  c1 = c1
  c2 = c2
  w1 = w1
  w2 = w2
  NoSite = NoSite
  PublicSite = PublicSite
  NoRun = NoRun
  Sites <- OneSite
  Runs <- OneRun
  Clients <- OneClient
  Workers <- OneWorker
  MaxCancels = 2
  MaxJobDeletes = 0
  MaxCrashes = 0
  MaxApiFailures = 0
CHECK_DEADLOCK FALSE
PROPERTIES
  VisibleQueuedRunSettles
  CancelInSaveWindowSticks
