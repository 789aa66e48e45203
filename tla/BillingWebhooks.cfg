SPECIFICATION Spec
CONSTANTS
  c1 = c1
  c2 = c2
  h1 = h1
  h2 = h2
  s1 = s1
  s2 = s2
  pro = pro
  agency = agency
  Starter = starter
  Clients <- TwoClients
  Handlers <- TwoHandlers
  Subs <- OneSub
  Plans <- TwoPlans
  MaxEvents = 3
  MaxDeliveries = 2
  MaxCustomers = 1
  MaxFailures = 1
SYMMETRY Symmetry
CHECK_DEADLOCK FALSE
INVARIANTS
  NothingDropped
  RowIsSound
PROPERTIES
  EffectWithItsEvent
