SPECIFICATION Spec
CONSTANTS
  k1 = k1
  k2 = k2
  Key <- MCKey
  Txn = {t1, t2}
  NoTxn = NoTxn
  MaxTS = 100
  Batch <- MCBatch
  Snapshots = {1, 3}
  OneWrite = FALSE
  Use1PC = TRUE
  RollbackPrepared = TRUE
  MaxClock = 7
  MaxReads = 0
  MaxCrashes = 1
  MaxLogErrors = 1
SYMMETRY Symmetry
INVARIANTS TypeOK AckedIsDurable
CHECK_DEADLOCK FALSE
