\* Sites that are audited again and again while one of their parts moves.
SPECIFICATION Spec
CONSTANTS
  Sites <- MCSites
  Brands <- MCBrands
  Failures <- MCFailures
  Skips <- MCSkips
  Weights <- DefaultWeights
  EditLines = 3
  MaxLines = 8
  Types <- MCTypes
  Topics <- MCTopics
  MaxChunks = 3
  NoSites = {}
INVARIANTS
  ProblemsAreAsked
  FixesSuffice
  ReportAgrees
PROPERTIES
  RisesWithSite
