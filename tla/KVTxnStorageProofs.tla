------------------------- MODULE KVTxnStorageProofs -------------------------
(***************************************************************************)
(* The write side of snapshot isolation in KVTxnStorage, for any number of   *)
(* keys, transactions, batches and timestamps, as long as the storage does   *)
(* not restart (MaxCrashes = 0).                                             *)
(***************************************************************************)
EXTENDS KVTxnStorage, TLAPS

Inv == TypeOK /\ StorageInv

USE DEF Max

\* What a batch of keys does to a store: it takes keys that are free or its own.
LEMMA PutFacts ==
  ASSUME NEW s \in Store, NEW t \in Txn, NEW m \in Meta, NEW ks \in SUBSET Key,
         \A k \in ks : s.owner[k] \in {t, NoTxn}
  PROVE  /\ Put(s, t, m, ks) \in Store
         /\ Put(s, t, m, ks).committed = s.committed
         /\ \A k \in Key : Put(s, t, m, ks).owner[k] = s.owner[k]
                         \/ Put(s, t, m, ks).owner[k] = t
         /\ \A u \in Txn : u # t => Put(s, t, m, ks).txn[u] = s.txn[u]
BY KVAssumption DEF Put, Store, Meta, NoMeta

\* Write only touches keys that are free or its own.
LEMMA WrittenFacts ==
  ASSUME NEW s \in Store, NEW t \in Txn, NEW keys \in Seq(Key)
  PROVE  /\ Written(s, t, keys) \in SUBSET Key
         /\ \A k \in Written(s, t, keys) : s.owner[k] \in {t, NoTxn}
BY DEF Written, Store

\* Without a conflict, every version of a written key is outside of the range.
LEMMA NoConflictFacts ==
  ASSUME NEW s \in Store, NEW t \in Txn, NEW from \in Nat, NEW to \in Nat,
         ~hasConflict(s, from, to, getWriteKeysLocked(s, t))
  PROVE  \A v \in s.committed : s.owner[v.key] = t => v.ts < from \/ v.ts >= to
<1> SUFFICES ASSUME NEW v \in s.committed, s.owner[v.key] = t,
                    from <= v.ts, v.ts < to
             PROVE  FALSE
  BY DEF Store, Version
<1>1. v.key \in getWriteKeysLocked(s, t)
  BY DEF getWriteKeysLocked, Store, Version
<1>2. v \in AscendRange(s, v.key, from, to)
  BY DEF AscendRange
<1> QED BY <1>1, <1>2 DEF hasConflict

\* Forgetting a transaction leaves the others as they are.
LEMMA DropFacts ==
  ASSUME NEW s \in Store, NEW t \in Txn, NEW vs \in SUBSET Version
  PROVE  /\ Drop(s, t, vs) \in Store
         /\ Drop(s, t, vs).committed = vs
         /\ \A k \in Key : /\ Drop(s, t, vs).owner[k] # t
                           /\ \/ Drop(s, t, vs).owner[k] = s.owner[k]
                              \/ Drop(s, t, vs).owner[k] = NoTxn
         /\ \A u \in Txn : u # t => Drop(s, t, vs).txn[u] = s.txn[u]
BY KVAssumption DEF Drop, Store, Meta, NoMeta, getWriteKeysLocked

\* A commit adds the versions of the written keys and nothing else.
LEMMA SetVersionsFacts ==
  ASSUME NEW s \in Store, NEW t \in Txn, NEW cts \in Nat, NEW ks \in SUBSET Key
  PROVE  /\ SetVersions(s, t, cts, ks) \in SUBSET Version
         /\ \A v \in SetVersions(s, t, cts, ks) :
              \/ v \in s.committed
              \/ v.key \in ks /\ v.ts = cts /\ v.txn = t
BY DEF SetVersions, Store, Version

\* A change of status touches neither locks nor versions.
LEMMA ChangeFacts ==
  ASSUME NEW s \in Store, NEW t \in Txn, NEW m \in Meta
  PROVE  /\ changeUncommittedTxnStatusLocked(s, t, m) \in Store
         /\ changeUncommittedTxnStatusLocked(s, t, m).committed = s.committed
         /\ changeUncommittedTxnStatusLocked(s, t, m).owner = s.owner
         /\ changeUncommittedTxnStatusLocked(s, t, m).txn[t] = m
         /\ \A u \in Txn : u # t =>
              changeUncommittedTxnStatusLocked(s, t, m).txn[u] = s.txn[u]
BY DEF changeUncommittedTxnStatusLocked, Store

\* The invariant holds of an empty storage.
LEMMA InitInv == Init => Inv
BY KVAssumption, StorageAssumption
   DEF Init, Inv, TypeOK, StorageInv, FirstCommitterWins, PreparedCanCommit,
       NewKVTxnStorage, Store, NoMeta, Meta, Version, Phase

\* A step that neither adds versions nor gives a key of a transaction in its
\* commit to another one keeps the invariant's second half.
LEMMA QuietStep ==
  ASSUME Inv, TypeOK', NEW t \in Txn,
         up' = up, snapshot' = snapshot, commitTS' = commitTS,
         clock' >= clock,
         kv'.committed = kv.committed,
         \A k \in Key : kv'.owner[k] = kv.owner[k] \/ kv'.owner[k] \in {t, NoTxn},
         \A u \in Txn : u # t => kv'.txn[u] = kv.txn[u] /\ phase'[u] = phase[u],
         phase'[t] \notin {"Commit1PC", "Prepared", "Committing"}
  PROVE  StorageInv'
<1> USE DEF Inv, TypeOK
<1>1. FirstCommitterWins' /\ up'
  BY DEF StorageInv, FirstCommitterWins
<1>2. PreparedCanCommit'
  <2> SUFFICES ASSUME NEW u \in Txn, phase'[u] \in {"Prepared", "Committing"}
               PROVE  /\ kv'.txn[u] # NoMeta
                      /\ \A v \in kv'.committed :
                           kv'.owner[v.key] = u => v.ts < snapshot'[u]
    BY DEF PreparedCanCommit
  <2>1. u # t /\ phase[u] = phase'[u] /\ kv'.txn[u] = kv.txn[u]
    OBVIOUS
  <2>2. \A k \in Key : kv'.owner[k] = u => kv.owner[k] = u
    BY <2>1, KVAssumption
  <2>3. \A v \in kv.committed : v.key \in Key
    BY DEF Store, Version
  <2> QED BY <2>1, <2>2, <2>3 DEF StorageInv, PreparedCanCommit
<1>3. \A v \in kv'.committed : v.ts <= clock'
  BY DEF StorageInv, Store, Version
<1>4. ASSUME NEW u \in Txn
      PROVE  /\ phase'[u] \in {"Commit1PC", "Committing"} => commitTS'[u] <= clock'
             /\ phase'[u] = "Commit1PC" =>
                  \A v \in kv'.committed : kv'.owner[v.key] = u => v.ts < commitTS'[u]
  <2>1. CASE u = t
    BY <2>1
  <2>2. CASE u # t
    <3>1. phase[u] = phase'[u]
      BY <2>2
    <3>2. \A k \in Key : kv'.owner[k] = u => kv.owner[k] = u
      BY <2>2, KVAssumption
    <3>3. \A v \in kv.committed : v.key \in Key
      BY DEF Store, Version
    <3>4. commitTS[u] \in Nat /\ clock \in Nat /\ clock' \in Nat
      BY StorageAssumption
    <3>5. phase'[u] \in {"Commit1PC", "Committing"} => commitTS'[u] <= clock'
      <4>1. phase[u] \in {"Commit1PC", "Committing"} => commitTS[u] <= clock
        BY DEF StorageInv
      <4> QED BY <3>1, <3>4, <4>1
    <3>6. phase'[u] = "Commit1PC" =>
            \A v \in kv'.committed : kv'.owner[v.key] = u => v.ts < commitTS'[u]
      <4>1. phase[u] = "Commit1PC" =>
              \A v \in kv.committed : kv.owner[v.key] = u => v.ts < commitTS[u]
        BY DEF StorageInv
      <4> QED BY <3>1, <3>2, <3>3, <4>1
    <3> QED BY <3>5, <3>6
  <2> QED BY <2>1, <2>2
<1> QED BY <1>1, <1>2, <1>3, <1>4 DEF StorageInv

\* Write takes free keys and commits nothing.
LEMMA WriteInv ==
  ASSUME Inv, NEW t \in Txn, NEW keys \in Batch, WriteRequest(t, keys)
  PROVE  Inv'
<1> USE DEF Inv, TypeOK
<1> DEFINE ks == Written(kv, t, keys)
<1>1. ks \in SUBSET Key /\ \A k \in ks : kv.owner[k] \in {t, NoTxn}
  BY WrittenFacts, StorageAssumption
<1>2. ActiveMeta \in Meta
  BY DEF ActiveMeta, Meta
<1> HIDE DEF ks
<1>3. kv' = Put(kv, t, ActiveMeta, ks)
  BY DEF WriteRequest, Write, ks
<1>4. /\ kv' \in Store
      /\ kv'.committed = kv.committed
      /\ \A k \in Key : kv'.owner[k] = kv.owner[k] \/ kv'.owner[k] = t
      /\ \A u \in Txn : u # t => kv'.txn[u] = kv.txn[u]
  BY <1>1, <1>2, <1>3, PutFacts
<1>5. snapshot[t] \in 1 .. MaxClock
  BY StorageAssumption
<1>6. clock' \in 0 .. MaxClock /\ clock' >= clock
  BY <1>5, StorageAssumption DEF WriteRequest
<1>7. TypeOK'
  BY <1>4, <1>6 DEF WriteRequest, Phase, faults
<1>8. /\ phase'[t] \notin {"Commit1PC", "Prepared", "Committing"}
      /\ \A u \in Txn : u # t => phase'[u] = phase[u]
      /\ up' = up /\ snapshot' = snapshot /\ commitTS' = commitTS
  BY DEF WriteRequest, faults
<1>9. StorageInv'
  BY <1>4, <1>6, <1>7, <1>8, QuietStep
<1> QED BY <1>7, <1>9

\* What Rollback leaves is a store without the transaction.
LEMMA RollbackStore ==
  ASSUME NEW s \in Store, NEW t \in Txn
  PROVE  /\ Rollback(s, t) \in Store
         /\ Rollback(s, t).committed = s.committed
         /\ \A k \in Key : Rollback(s, t).owner[k] \in {s.owner[k], NoTxn}
         /\ \A u \in Txn : u # t => Rollback(s, t).txn[u] = s.txn[u]
<1>1. s.committed \in SUBSET Version
  BY DEF Store
<1> QED BY <1>1, DropFacts DEF Rollback

\* Rollback frees the keys of its transaction and commits nothing.
LEMMA RollbackInv ==
  ASSUME Inv, NEW t \in Txn, RollbackTxn(t)
  PROVE  Inv'
<1> USE DEF Inv, TypeOK
<1>1. /\ kv' \in Store
      /\ kv'.committed = kv.committed
      /\ \A k \in Key : kv'.owner[k] \in {kv.owner[k], NoTxn}
      /\ \A u \in Txn : u # t => kv'.txn[u] = kv.txn[u]
  BY RollbackStore DEF RollbackTxn
<1>2. TypeOK' /\ clock' >= clock
  BY <1>1 DEF RollbackTxn, Phase, faults
<1>3. /\ phase'[t] \notin {"Commit1PC", "Prepared", "Committing"}
      /\ \A u \in Txn : u # t => phase'[u] = phase[u]
      /\ up' = up /\ snapshot' = snapshot /\ commitTS' = commitTS
  BY DEF RollbackTxn, faults
<1>4. StorageInv'
  BY <1>1, <1>2, <1>3, QuietStep
<1> QED BY <1>2, <1>4

\* A record of a transaction is a KVLog.
LEMMA SaveLogFacts ==
  ASSUME log \in Seq(KVLog), NEW t \in Txn, NEW ks \in SUBSET Key,
         NEW pts \in Nat, NEW cts \in Nat,
         NEW st \in {"Prepared", "Committing", "Committed"},
         saveLog(t, st, ks, pts, cts)
  PROVE  log' \in Seq(KVLog)
<1>1. [txn |-> t, status |-> st, keys |-> ks, preparedTS |-> pts, commitTS |-> cts]
        \in KVLog
  BY DEF KVLog
<1> QED BY <1>1 DEF saveLog

\* A Prepare that fails is a rollback.
LEMMA PrepareFailsInv ==
  ASSUME Inv, NEW t \in Txn, PrepareFails(t)
  PROVE  Inv'
<1> USE DEF Inv, TypeOK
<1>1. /\ kv' \in Store
      /\ kv'.committed = kv.committed
      /\ \A k \in Key : kv'.owner[k] \in {kv.owner[k], NoTxn}
      /\ \A u \in Txn : u # t => kv'.txn[u] = kv.txn[u]
  BY RollbackStore DEF PrepareFails
<1>2. clock' \in 0 .. MaxClock /\ clock' >= clock /\ clock' \in Nat
  BY StorageAssumption DEF PrepareFails
<1>3. log' \in Seq(KVLog)
  <2>1. getWriteKeysLocked(kv, t) \in SUBSET Key
    BY DEF getWriteKeysLocked
  <2> QED BY <1>2, <2>1, SaveLogFacts DEF PrepareFails, saveLogFails
<1>4. TypeOK'
  BY <1>1, <1>2, <1>3 DEF PrepareFails, Phase
<1>5. /\ phase'[t] \notin {"Commit1PC", "Prepared", "Committing"}
      /\ \A u \in Txn : u # t => phase'[u] = phase[u]
      /\ up' = up /\ snapshot' = snapshot /\ commitTS' = commitTS
  BY DEF PrepareFails
<1>6. StorageInv'
  BY <1>1, <1>2, <1>4, <1>5, QuietStep
<1> QED BY <1>4, <1>6

\* A Commit that fails changes neither locks nor versions.
LEMMA CommitFailsInv ==
  ASSUME Inv, NEW t \in Txn, CommitFails(t)
  PROVE  Inv'
<1> USE DEF Inv, TypeOK
<1>1. log' \in Seq(KVLog)
  <2>1. getWriteKeysLocked(kv, t) \in SUBSET Key /\ commitTS[t] \in Nat
    BY StorageAssumption DEF getWriteKeysLocked
  <2> QED BY <2>1, SaveLogFacts DEF CommitFails, saveLogFails
<1>2. TypeOK' /\ clock' >= clock
  BY <1>1 DEF CommitFails, Phase
<1>3. CASE phase[t] = "Commit1PC"
  <2>1. /\ phase'[t] \notin {"Commit1PC", "Prepared", "Committing"}
        /\ \A u \in Txn : u # t => phase'[u] = phase[u]
        /\ up' = up /\ snapshot' = snapshot /\ commitTS' = commitTS /\ kv' = kv
    BY <1>3 DEF CommitFails
  <2>2. StorageInv'
    BY <1>2, <2>1, QuietStep
  <2> QED BY <1>2, <2>2
<1>4. CASE phase[t] # "Commit1PC"
  <2>1. /\ phase' = phase /\ kv' = kv /\ clock' = clock /\ commitTS' = commitTS
        /\ snapshot' = snapshot /\ up' = up
    BY <1>4 DEF CommitFails
  <2>2. StorageInv'
    BY <2>1 DEF StorageInv, FirstCommitterWins, PreparedCanCommit
  <2> QED BY <1>2, <2>2
<1> QED BY <1>3, <1>4

\* A commit without a write set changes no version.
LEMMA CommitNothingInv ==
  ASSUME Inv, NEW t \in Txn, CommitNothing(t)
  PROVE  Inv'
<1> USE DEF Inv, TypeOK
<1>1. TypeOK' /\ clock' >= clock
  BY DEF CommitNothing, Phase, faults
<1>2. /\ phase'[t] \notin {"Commit1PC", "Prepared", "Committing"}
      /\ \A u \in Txn : u # t => phase'[u] = phase[u]
      /\ up' = up /\ snapshot' = snapshot /\ commitTS' = commitTS /\ kv' = kv
  BY DEF CommitNothing, faults
<1>3. StorageInv'
  BY <1>1, <1>2, QuietStep
<1> QED BY <1>1, <1>3

\* Prepare: the check it makes is the promise it gives.
LEMMA PrepareInv ==
  ASSUME Inv, NEW t \in Txn, Prepare(t)
  PROVE  Inv'
<1> USE DEF Inv, TypeOK
<1> DEFINE m == [status |-> "Prepared", preparedTS |-> clock', commitTS |-> 0]
<1>1. clock' \in 0 .. MaxClock /\ clock' >= clock /\ clock' \in Nat /\ clock \in Nat
  BY StorageAssumption DEF Prepare
<1>2. m \in Meta /\ m # NoMeta
  BY <1>1 DEF Meta, NoMeta
<1>3. kv' = changeUncommittedTxnStatusLocked(kv, t, m)
  BY DEF Prepare
<1> HIDE DEF m
<1>4. /\ kv' \in Store /\ kv'.committed = kv.committed /\ kv'.owner = kv.owner
      /\ kv'.txn[t] = m /\ \A u \in Txn : u # t => kv'.txn[u] = kv.txn[u]
  BY <1>2, <1>3, ChangeFacts
<1>5. log' \in Seq(KVLog)
  <2>1. getWriteKeysLocked(kv, t) \in SUBSET Key
    BY DEF getWriteKeysLocked
  <2> QED BY <1>1, <2>1, SaveLogFacts DEF Prepare
<1>6. TypeOK'
  BY <1>1, <1>4, <1>5 DEF Prepare, Phase, faults
<1>7. /\ phase'[t] = "Prepared" /\ \A u \in Txn : u # t => phase'[u] = phase[u]
      /\ up' = up /\ snapshot' = snapshot /\ commitTS' = commitTS
  BY DEF Prepare, faults
<1>8. \A v \in kv.committed : v.key \in Key /\ v.ts \in Nat /\ v.ts <= clock
  BY DEF Store, Version, StorageInv
<1>9. \A v \in kv.committed : kv.owner[v.key] = t => v.ts < snapshot[t]
  <2>1. snapshot[t] \in Nat /\ clock < MaxTS
    <3>1. snapshot[t] \in 1 .. MaxClock
      BY StorageAssumption
    <3> QED BY <3>1, <1>1, StorageAssumption, KVAssumption DEF Prepare
  <2>2. ~hasConflict(kv, snapshot[t], MaxTS, getWriteKeysLocked(kv, t))
    BY DEF Prepare, CanPrepare
  <2> QED BY <1>8, <2>1, <2>2, KVAssumption, NoConflictFacts
<1>10. PreparedCanCommit'
  BY <1>2, <1>4, <1>7, <1>9 DEF PreparedCanCommit, StorageInv
<1>11. FirstCommitterWins' /\ up'
  BY <1>4, <1>7 DEF StorageInv, FirstCommitterWins
<1>12. \A v \in kv'.committed : v.ts <= clock'
  BY <1>1, <1>4, <1>8
<1>13. ASSUME NEW u \in Txn
       PROVE  /\ phase'[u] \in {"Commit1PC", "Committing"} => commitTS'[u] <= clock'
              /\ phase'[u] = "Commit1PC" =>
                   \A v \in kv'.committed : kv'.owner[v.key] = u => v.ts < commitTS'[u]
  <2>1. commitTS[u] \in Nat
    BY StorageAssumption
  <2>2. phase'[u] \in {"Commit1PC", "Committing"} => phase[u] = phase'[u]
    BY <1>7
  <2>3. phase[u] \in {"Commit1PC", "Committing"} => commitTS[u] <= clock
    BY DEF StorageInv
  <2>4. phase[u] = "Commit1PC" =>
          \A v \in kv.committed : kv.owner[v.key] = u => v.ts < commitTS[u]
    BY DEF StorageInv
  <2> QED BY SMTT(60), <1>1, <1>4, <1>7, <2>1, <2>2, <2>3, <2>4
<1> QED BY <1>6, <1>10, <1>11, <1>12, <1>13 DEF StorageInv

\* A one-shard commit takes a timestamp later than every version there is.
LEMMA Start1PCInv ==
  ASSUME Inv, NEW t \in Txn, Start1PC(t)
  PROVE  Inv'
<1> USE DEF Inv, TypeOK
<1>1. clock' \in 0 .. MaxClock /\ clock' = clock + 1 /\ clock \in Nat
  BY StorageAssumption DEF Start1PC
<1>2. /\ commitTS' \in [Txn -> 0 .. MaxClock] /\ commitTS'[t] = clock'
      /\ \A u \in Txn : u # t => commitTS'[u] = commitTS[u]
  BY <1>1 DEF Start1PC
<1>3. TypeOK'
  BY <1>1, <1>2 DEF Start1PC, Phase, faults
<1>4. /\ phase'[t] = "Commit1PC" /\ \A u \in Txn : u # t => phase'[u] = phase[u]
      /\ up' = up /\ snapshot' = snapshot /\ kv' = kv
  BY DEF Start1PC, faults
<1>5. \A v \in kv.committed : v.ts \in Nat /\ v.ts <= clock
  BY DEF Store, Version, StorageInv
<1>6. FirstCommitterWins' /\ PreparedCanCommit' /\ up'
  BY <1>4 DEF StorageInv, FirstCommitterWins, PreparedCanCommit
<1>7. \A v \in kv'.committed : v.ts <= clock' /\ v.ts < commitTS'[t]
  BY <1>1, <1>2, <1>4, <1>5
<1>8. ASSUME NEW u \in Txn
      PROVE  /\ phase'[u] \in {"Commit1PC", "Committing"} => commitTS'[u] <= clock'
             /\ phase'[u] = "Commit1PC" =>
                  \A v \in kv'.committed : kv'.owner[v.key] = u => v.ts < commitTS'[u]
  <2>1. CASE u = t
    BY <2>1, <1>1, <1>2, <1>7
  <2>2. CASE u # t
    <3>1. commitTS[u] \in Nat
      BY StorageAssumption
    <3>2. phase[u] \in {"Commit1PC", "Committing"} => commitTS[u] <= clock
      BY DEF StorageInv
    <3>3. phase[u] = "Commit1PC" =>
            \A v \in kv.committed : kv.owner[v.key] = u => v.ts < commitTS[u]
      BY DEF StorageInv
    <3> QED BY <1>1, <1>2, <1>4, <2>2, <3>1, <3>2, <3>3
  <2> QED BY <2>1, <2>2
<1> QED BY <1>3, <1>6, <1>7, <1>8 DEF StorageInv

\* The commit timestamp of a prepared transaction, and the clock that came with it.
LEMMA DecideFacts ==
  ASSUME Inv, NEW t \in Txn, NEW cts \in 1 .. MaxClock, Decide(t, cts)
  PROVE  /\ clock' \in 0 .. MaxClock /\ clock' >= clock /\ clock' >= cts
         /\ commitTS' \in [Txn -> 0 .. MaxClock] /\ commitTS'[t] = cts
         /\ \A u \in Txn : u # t => commitTS'[u] = commitTS[u]
<1>1. clock \in 0 .. MaxClock /\ commitTS \in [Txn -> 0 .. MaxClock]
  BY DEF Inv, TypeOK
<1> QED BY <1>1, StorageAssumption DEF Decide

\* Committing records the timestamp of a transaction whose keys stay locked.
LEMMA CommittingInv ==
  ASSUME Inv, NEW t \in Txn, Committing(t)
  PROVE  Inv'
<1> USE DEF Inv, TypeOK
<1>1. PICK cts \in 1 .. MaxClock :
        /\ Decide(t, cts)
        /\ saveLog(t, "Committing", {}, kv.txn[t].preparedTS, cts)
        /\ kv' = changeUncommittedTxnStatusLocked(kv, t,
                   [status |-> "Committing", preparedTS |-> kv.txn[t].preparedTS,
                    commitTS |-> cts])
  BY DEF Committing
<1> DEFINE m == [status |-> "Committing", preparedTS |-> kv.txn[t].preparedTS,
                 commitTS |-> cts]
<1>2. kv.txn[t].preparedTS \in Nat /\ cts \in Nat /\ clock \in Nat /\ clock' \in Nat
  BY <1>1, DecideFacts, StorageAssumption DEF Store, Meta
<1>3. m \in Meta /\ m # NoMeta
  BY <1>2 DEF Meta, NoMeta
<1>4. kv' = changeUncommittedTxnStatusLocked(kv, t, m)
  BY <1>1
<1> HIDE DEF m
<1>5. /\ kv' \in Store /\ kv'.committed = kv.committed /\ kv'.owner = kv.owner
      /\ kv'.txn[t] = m /\ \A u \in Txn : u # t => kv'.txn[u] = kv.txn[u]
  BY <1>3, <1>4, ChangeFacts
<1>6. log' \in Seq(KVLog)
  BY <1>1, <1>2, SaveLogFacts
<1>7. /\ clock' \in 0 .. MaxClock /\ clock' >= clock /\ clock' >= cts
      /\ commitTS' \in [Txn -> 0 .. MaxClock] /\ commitTS'[t] = cts
      /\ \A u \in Txn : u # t => commitTS'[u] = commitTS[u]
  BY <1>1, DecideFacts
<1>8. TypeOK'
  BY <1>5, <1>6, <1>7 DEF Committing, Phase, faults
<1>9. /\ phase[t] = "Prepared" /\ phase'[t] = "Committing"
      /\ \A u \in Txn : u # t => phase'[u] = phase[u]
      /\ up' = up /\ snapshot' = snapshot
  BY DEF Committing, faults
<1>10. \A v \in kv.committed : v.ts \in Nat /\ v.ts <= clock
  BY DEF Store, Version, StorageInv
<1>11. FirstCommitterWins' /\ up' /\ \A v \in kv'.committed : v.ts <= clock'
  BY <1>2, <1>5, <1>7, <1>9, <1>10 DEF StorageInv, FirstCommitterWins
<1>12. PreparedCanCommit'
  BY <1>3, <1>5, <1>9 DEF StorageInv, PreparedCanCommit
<1>13. ASSUME NEW u \in Txn
       PROVE  /\ phase'[u] \in {"Commit1PC", "Committing"} => commitTS'[u] <= clock'
              /\ phase'[u] = "Commit1PC" =>
                   \A v \in kv'.committed : kv'.owner[v.key] = u => v.ts < commitTS'[u]
  <2>1. CASE u = t
    BY <2>1, <1>2, <1>7, <1>9
  <2>2. CASE u # t
    <3>1. commitTS[u] \in Nat
      BY StorageAssumption
    <3>2. phase[u] \in {"Commit1PC", "Committing"} => commitTS[u] <= clock
      BY DEF StorageInv
    <3>3. phase[u] = "Commit1PC" =>
            \A v \in kv.committed : kv.owner[v.key] = u => v.ts < commitTS[u]
      BY DEF StorageInv
    <3> QED BY SMTT(60), <1>2, <1>5, <1>7, <1>9, <2>2, <3>1, <3>2, <3>3
  <2> QED BY <2>1, <2>2
<1> QED BY <1>8, <1>11, <1>12, <1>13 DEF StorageInv

\* A commit of a transaction whose keys have no version from its snapshot on.
LEMMA CommitAtInv ==
  ASSUME Inv, NEW t \in Txn, NEW cts \in 0 .. MaxClock, CommitAt(t, cts),
         \A v \in kv.committed : kv.owner[v.key] = t => v.ts < snapshot[t],
         clock' \in 0 .. MaxClock, clock' >= clock, clock' >= cts,
         commitTS' \in [Txn -> 0 .. MaxClock],
         \A u \in Txn : u # t => commitTS'[u] = commitTS[u],
         snapshot' = snapshot, up' = up, crashes' = crashes
  PROVE  Inv'
<1> USE DEF Inv, TypeOK
<1> DEFINE ks == getWriteKeysLocked(kv, t)
           vs == SetVersions(kv, t, cts, ks)
<1>1. ks \in SUBSET Key /\ cts \in Nat /\ kv.txn[t].preparedTS \in Nat
      /\ clock \in Nat /\ clock' \in Nat
  BY StorageAssumption DEF getWriteKeysLocked, Store, Meta
<1>2. kv \in Store
  OBVIOUS
<1>3. \A k \in ks : kv.owner[k] = t
  BY DEF getWriteKeysLocked
<1>4. kv' = Drop(kv, t, vs)
  BY DEF CommitAt, commitKeysLocked
<1>5. log' \in Seq(KVLog)
  BY <1>1, SaveLogFacts DEF CommitAt
<1> HIDE DEF ks
<1>a. /\ vs \in SUBSET Version
      /\ \A v \in vs : v \in kv.committed \/ (v.key \in ks /\ v.ts = cts /\ v.txn = t)
  BY ONLY <1>1, <1>2, SetVersionsFacts, t \in Txn
<1> HIDE DEF vs
<1>6. /\ kv' \in Store /\ kv'.committed = vs
      /\ \A k \in Key : kv'.owner[k] # t /\ kv'.owner[k] \in {kv.owner[k], NoTxn}
      /\ \A u \in Txn : u # t => kv'.txn[u] = kv.txn[u]
  <2>1. /\ Drop(kv, t, vs) \in Store /\ Drop(kv, t, vs).committed = vs
        /\ \A k \in Key : /\ Drop(kv, t, vs).owner[k] # t
                          /\ \/ Drop(kv, t, vs).owner[k] = kv.owner[k]
                             \/ Drop(kv, t, vs).owner[k] = NoTxn
        /\ \A u \in Txn : u # t => Drop(kv, t, vs).txn[u] = kv.txn[u]
    BY ONLY <1>2, <1>a, DropFacts, t \in Txn
  <2> QED BY ONLY <1>4, <2>1
<1>7. /\ phase' \in [Txn -> Phase] /\ phase'[t] = "Committed"
      /\ \A u \in Txn : u # t => phase'[u] = phase[u]
  BY DEF CommitAt, Phase
<1>8. TypeOK'
  BY <1>5, <1>6, <1>7 DEF CommitAt
<1>9. \A v \in kv.committed : v.key \in Key /\ v.txn \in Txn /\ v.ts \in Nat /\ v.ts <= clock
  BY DEF Store, Version, StorageInv
<1>10. FirstCommitterWins'
  <2> SUFFICES ASSUME NEW v \in vs, NEW w \in vs, v.key = w.key, v.txn # w.txn
               PROVE  v.ts < snapshot[w.txn] \/ w.ts < snapshot[v.txn]
    BY <1>6 DEF FirstCommitterWins
  <2>1. CASE v \in kv.committed /\ w \in kv.committed
    BY <2>1 DEF StorageInv, FirstCommitterWins
  <2>2. CASE v \notin kv.committed
    <3>1. v.key \in ks /\ v.txn = t /\ w \in kv.committed
      BY <2>2, <1>a
    <3> QED BY <3>1, <1>3
  <2>3. CASE w \notin kv.committed
    <3>1. w.key \in ks /\ w.txn = t /\ v \in kv.committed
      BY <2>3, <1>a
    <3> QED BY <3>1, <1>3
  <2> QED BY <2>1, <2>2, <2>3
<1>11. \A v \in kv'.committed : v.ts <= clock'
  BY SMTT(60), <1>1, <1>a, <1>6, <1>9
\* A new version is of a key that no other transaction holds.
<1>12. ASSUME NEW u \in Txn, u # t, NEW v \in kv'.committed, kv'.owner[v.key] = u
       PROVE  v \in kv.committed /\ kv.owner[v.key] = u
  <2>1. v.key \in Key
    BY <1>a, <1>6 DEF Version
  <2>2. kv.owner[v.key] = u
    BY <1>6, <1>12, <2>1, KVAssumption
  <2> QED BY <1>a, <1>3, <1>6, <1>12, <2>2
<1>13. PreparedCanCommit'
  <2> SUFFICES ASSUME NEW u \in Txn, phase'[u] \in {"Prepared", "Committing"}
               PROVE  /\ kv'.txn[u] # NoMeta
                      /\ \A v \in kv'.committed :
                           kv'.owner[v.key] = u => v.ts < snapshot'[u]
    BY DEF PreparedCanCommit
  <2>1. u # t /\ phase[u] = phase'[u]
    BY <1>7
  <2> QED BY <2>1, <1>6, <1>12 DEF StorageInv, PreparedCanCommit
<1>14. ASSUME NEW u \in Txn
       PROVE  /\ phase'[u] \in {"Commit1PC", "Committing"} => commitTS'[u] <= clock'
              /\ phase'[u] = "Commit1PC" =>
                   \A v \in kv'.committed : kv'.owner[v.key] = u => v.ts < commitTS'[u]
  <2>1. CASE u = t
    BY <2>1, <1>7
  <2>2. CASE u # t
    <3>1. commitTS[u] \in Nat
      BY SMTT(60), StorageAssumption
    <3>2. phase[u] \in {"Commit1PC", "Committing"} => commitTS[u] <= clock
      BY DEF StorageInv
    <3>3. phase[u] = "Commit1PC" =>
            \A v \in kv.committed : kv.owner[v.key] = u => v.ts < commitTS[u]
      BY DEF StorageInv
    <3> QED BY SMTT(60), <1>1, <1>7, <1>12, <2>2, <3>1, <3>2, <3>3
  <2> QED BY <2>1, <2>2
<1>15. up'
  BY DEF StorageInv
<1> QED BY <1>8, <1>10, <1>11, <1>13, <1>14, <1>15 DEF StorageInv

\* Commit, of a one-shard transaction and in both of its two-phase forms.
LEMMA CommitInv ==
  ASSUME Inv, NEW t \in Txn, Commit(t)
  PROVE  Inv'
<1> USE DEF Inv, TypeOK
<1>1. /\ snapshot' = snapshot /\ up' = up /\ crashes' = crashes
      /\ snapshot[t] \in Nat /\ clock \in Nat /\ commitTS[t] \in Nat
  <2>1. snapshot[t] \in 1 .. MaxClock
    BY StorageAssumption
  <2> QED BY <2>1, StorageAssumption DEF Commit, faults
<1>2. CASE phase[t] = "Prepared"
  <2>1. PICK cts \in 1 .. MaxClock : Decide(t, cts) /\ CommitAt(t, cts)
    BY <1>2 DEF Commit
  <2>2. \A v \in kv.committed : kv.owner[v.key] = t => v.ts < snapshot[t]
    BY <1>2 DEF StorageInv, PreparedCanCommit
  <2>3. cts \in 0 .. MaxClock
    BY StorageAssumption
  <2> QED BY <1>1, <2>1, <2>2, <2>3, DecideFacts, CommitAtInv
<1>3. CASE phase[t] = "Committing"
  <2>1. CommitAt(t, commitTS[t]) /\ clock' = clock /\ commitTS' = commitTS
    BY <1>3 DEF Commit
  <2>2. \A v \in kv.committed : kv.owner[v.key] = t => v.ts < snapshot[t]
    BY <1>3 DEF StorageInv, PreparedCanCommit
  <2>3. commitTS[t] <= clock
    BY <1>3 DEF StorageInv
  <2> QED BY SMTT(60), <1>1, <2>1, <2>2, <2>3, CommitAtInv
<1>4. CASE phase[t] = "Commit1PC"
  <2>1. CommitAt(t, commitTS[t]) /\ clock' = clock /\ commitTS' = commitTS
    BY <1>4 DEF Commit
  <2>2. commitTS[t] <= clock
        /\ \A v \in kv.committed : kv.owner[v.key] = t => v.ts < commitTS[t]
    BY <1>4 DEF StorageInv
  <2>3. \A v \in kv.committed : kv.owner[v.key] = t =>
          v.ts < snapshot[t] \/ v.ts >= commitTS[t] + 1
    BY SMTT(60), <1>1, <2>1, NoConflictFacts DEF CommitAt, CanCommit
  <2>4. \A v \in kv.committed : v.ts \in Nat
    BY DEF Store, Version
  <2>5. \A v \in kv.committed : kv.owner[v.key] = t => v.ts < snapshot[t]
    BY <1>1, <2>2, <2>3, <2>4
  <2> QED BY SMTT(60), <1>1, <2>1, <2>2, <2>5, CommitAtInv
<1> QED BY <1>2, <1>3, <1>4 DEF Commit

\* Reads move the clock and nothing else that matters.
LEMMA ReadInv ==
  ASSUME Inv, \/ \E key \in Key, ts \in Snapshots : Read(key, ts)
              \/ ContinueRead
  PROVE  Inv'
<1> USE DEF Inv, TypeOK
<1>1. /\ kv' = kv /\ log' = log /\ snapshot' = snapshot /\ phase' = phase
      /\ commitTS' = commitTS /\ acked' = acked /\ up' = up /\ crashes' = crashes
  BY DEF Read, ContinueRead, faults
<1>2. clock' \in 0 .. MaxClock /\ clock' >= clock
  BY SMTT(60), StorageAssumption DEF Read, ContinueRead
<1>3. TypeOK'
  BY <1>1, <1>2
<1>4. \A v \in kv.committed : v.ts \in Nat
  BY DEF Store, Version
<1>5. \A u \in Txn : commitTS[u] \in Nat
  BY StorageAssumption
<1>6. FirstCommitterWins' /\ PreparedCanCommit' /\ up'
  BY <1>1 DEF StorageInv, FirstCommitterWins, PreparedCanCommit
<1>7. (\A v \in kv.committed : v.ts <= clock')
      /\ \A u \in Txn : phase[u] \in {"Commit1PC", "Committing"} => commitTS[u] <= clock'
  <2>1. clock \in Nat /\ clock' \in Nat /\ clock' >= clock
    BY <1>2, StorageAssumption
  <2>2. /\ \A v \in kv.committed : v.ts <= clock
        /\ \A u \in Txn : phase[u] \in {"Commit1PC", "Committing"} => commitTS[u] <= clock
    BY DEF StorageInv
  <2>3. ASSUME NEW v \in kv.committed PROVE v.ts <= clock'
    BY <1>4, <2>1, <2>2
  <2>4. ASSUME NEW u \in Txn, phase[u] \in {"Commit1PC", "Committing"} PROVE commitTS[u] <= clock'
    BY <1>5, <2>1, <2>2, <2>4
  <2> QED BY <2>3, <2>4
<1>8. StorageInv'
  BY <1>1, <1>6, <1>7 DEF StorageInv
<1> QED BY <1>3, <1>8

\* Every step but a restart keeps the invariant.
LEMMA StepInv ==
  ASSUME MaxCrashes = 0, Inv, [Next]_vars
  PROVE  Inv'
<1>1. CASE UNCHANGED vars
  BY <1>1 DEF vars, Inv, TypeOK, StorageInv, FirstCommitterWins, PreparedCanCommit
<1>2. CASE \E t \in Txn : \E keys \in Batch : WriteRequest(t, keys)
  BY <1>2, WriteInv
<1>3. CASE \E t \in Txn : Prepare(t) \/ PrepareFails(t)
  BY <1>3, PrepareInv, PrepareFailsInv
<1>4. CASE \E t \in Txn : Committing(t) \/ Start1PC(t)
  BY <1>4, CommittingInv, Start1PCInv
<1>5. CASE \E t \in Txn : CommitNothing(t) \/ Commit(t) \/ CommitFails(t)
  BY <1>5, CommitNothingInv, CommitInv, CommitFailsInv
<1>6. CASE \E t \in Txn : RollbackTxn(t)
  BY <1>6, RollbackInv
<1>7. CASE (\E key \in Key, ts \in Snapshots : Read(key, ts)) \/ ContinueRead
  BY <1>7, ReadInv
<1>8. ASSUME Restart PROVE FALSE
  BY SMTT(60), <1>8 DEF Restart, Inv, TypeOK
<1> QED BY <1>1, <1>2, <1>3, <1>4, <1>5, <1>6, <1>7, <1>8 DEF Next

\* The storage's state is well formed and satisfies the inductive invariant as
\* long as the process of the storage runs.
THEOREM StorageInvariant ==
  ASSUME MaxCrashes = 0
  PROVE  Spec => [](TypeOK /\ StorageInv)
<1>1. Init => Inv
  BY InitInv
<1>2. Inv /\ [Next]_vars => Inv'
  BY StepInv
<1>3. Inv => TypeOK /\ StorageInv
  BY DEF Inv
<1> QED BY <1>1, <1>2, <1>3, PTL DEF Spec

\* No two concurrent transactions both commit a write of one key: hasConflict
\* in Prepare and in Commit, with the locks of uncommittedKeyTxnMap, is enough,
\* although a one-shard commit takes its timestamp before the storage's mutex.
THEOREM FirstCommitterWinsAlways ==
  ASSUME MaxCrashes = 0
  PROVE  Spec => []FirstCommitterWins
<1>1. StorageInv => FirstCommitterWins
  BY DEF StorageInv
<1> QED BY <1>1, StorageInvariant, PTL

\* A prepared transaction can be committed at any timestamp: the Fatal "commit
\* failed after prepared" of startAsyncCommitTask is not for a conflict.
THEOREM PreparedCanCommitAlways ==
  ASSUME MaxCrashes = 0
  PROVE  Spec => []PreparedCanCommit
<1>1. StorageInv => PreparedCanCommit
  BY DEF StorageInv
<1> QED BY <1>1, StorageInvariant, PTL
=============================================================================
