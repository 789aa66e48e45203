SPECIFICATION MCSpec
CONSTANTS
  c1 = c1
  c2 = c2
  c3 = c3
  e1 = e1
  e2 = e2
  s1 = s1
  s2 = s2
  a1 = a1
  a2 = a2
  Configs = {c1, c2, c3}
  Experiments = {e1, e2}
  Sites = {s1, s2}
  Admins <- TwoAdmins
  Collectors = {1}
  Control <- Controls
  Treatment <- Treatments
  ArmOf <- ArmsOfSites
  MinSamples = 1
  ChiMin = 1
  MaxRequests = 3
  MaxBatches = 3
  Default = Default
  Defaults <- TwoPillars
  MinWeight = 20
  MaxWeight = 80
  MaxChange = 10
  CoarseStep = 10
  FineStep = 5
  FineRadius = 5
  Thresholds <- TwoThresholds
  Primacies <- TwoPrimacies
  FineReach = 5
  FineEvery = 5
  Coverage = 50
  HoldoutPct = 40
  MinTraining = 1
  MinHoldout = 1
  MinUsable = 1
  Drop = 10
  Bias = 20
  Shapes <- SomeShapes
  MaxSamples = 3
  MaxAge = 1
  MaxChecks = 1
SYMMETRY Interchangeable
CHECK_DEADLOCK FALSE
INVARIANTS
  ExperimentIsSound
  OneWithoutCrossing
  SearchIsHonest
  SummaryAgrees
