SPECIFICATION Spec
CONSTANTS
  k1 = k1
  k2 = k2
  s1 = s1
  s2 = s2
  Key <- MCKey
  Shard <- MCShard
  ShardOf <- MCShardOf
  Txn = {t1, t2}
  NoTxn = NoTxn
  MaxTS = 100
  Snapshots = {1, 3}
  NumCtx = 2
  Scenarios <- Late
SYMMETRY Symmetry
INVARIANTS Atomicity FailedIsFinal CommittedIsKept
CHECK_DEADLOCK FALSE
