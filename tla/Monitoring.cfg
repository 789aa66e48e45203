SPECIFICATION FairChainSpec
CONSTANTS
  u1 = u1
  u2 = u2
  Worker = Worker
  Users <- TwoUsers
  Period = 3
  Hours <- OneHour
  MaxUserRequests = 3
  MaxFaults = 1
CHECK_DEADLOCK FALSE
INVARIANTS
  ChainAlive
PROPERTIES
  GoesQuiet
  KeepsMonitoring
