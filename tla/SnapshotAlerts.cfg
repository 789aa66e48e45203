SPECIFICATION Spec
CONSTANTS
  t1 = t1
  t2 = t2
  u1 = u1
  u2 = u2
  Tasks <- TwoTasks
  Tabs <- TwoTabs
  NoRate <- None
  Outcomes <- SomeOutcomes
  Default <- Defaults
  Patches <- SomePatches
  MaxWindow = 2
  MaxSnapshots = 3
  MaxRequests = 2
  MaxAnswers = 1
  MaxFailures = 1
CHECK_DEADLOCK FALSE
SYMMETRY Symmetry
INVARIANTS
  FallToldOnce
PROPERTIES
  BatchesSpaced
