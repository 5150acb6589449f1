SPECIFICATION Spec
CONSTANTS
  k1 = k1
  k2 = k2
  Key <- MCKey
  Txn = {t1, t2}
  NoTxn = NoTxn
  MaxTS = 100
  Batch <- MCBatch
  Snapshots = {1, 3}
  OneWrite = TRUE
  Use1PC = FALSE
  RollbackPrepared = FALSE
  MaxClock = 6
  MaxReads = 2
  MaxCrashes = 1
  MaxLogErrors = 0
SYMMETRY Symmetry
INVARIANTS FirstCommitterWins PreparedCanCommit 
CHECK_DEADLOCK FALSE
