SPECIFICATION Spec
CONSTANTS
  s1 = s1
  r1 = r1
  r2 = r2
  c1 = c1
  c2 = c2
  w1 = w1
  w2 = w2
  NoSite = NoSite
  PublicSite = PublicSite
  NoRun = NoRun
  Sites <- OneSite
  Runs <- OneRun
  Clients <- TwoClients
  Workers <- TwoWorkers
  MaxCancels = 2
  MaxJobDeletes = 1
  MaxCrashes = 1
  MaxApiFailures = 1
CHECK_DEADLOCK FALSE
VIEW VersionView
SYMMETRY Symmetry
INVARIANTS
  ReportIffComplete
  RetryNeverExhausted
  NoRunLeftMidway
PROPERTIES
  CancelledJobNeverRuns
  LifecycleSpec
