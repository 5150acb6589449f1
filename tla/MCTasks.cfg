SPECIFICATION Spec
CONSTANTS
  c1 = c1
  c2 = c2
  h1 = h1
  h2 = h2
  CN <- MCCN
  Scheduler <- MCScheduler
  NoCN = NoCN
  Budgets <- MCBudgets
  MaxTasks = 3
  MaxEpoch = 3
  Parallelism = 2
  MaxWaitTasks = 1
  MaxDone = 2
  FetchLimit = 2
  MaxRetryTimes = 1
  RetryCap = 1
SYMMETRY Symmetry
INVARIANTS TypeOK ResultIsTheOwners OneTaskPerTrigger ExecutionsHoldTokens
PROPERTIES ImplementsOwnership
CHECK_DEADLOCK FALSE
