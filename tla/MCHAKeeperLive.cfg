SPECIFICATION FairSpec
CONSTANTS
  Store = {1, 2, 3, 4}
  NumberOfReplicas = 3
  IDBatch = 7
  CheckBootstrapCycles = 1
  h1 = h1
  h2 = h2
  Leader <- MCLeader
  Scenarios <- LiveScenarios
PROPERTIES RepairCompletes
CHECK_DEADLOCK FALSE
