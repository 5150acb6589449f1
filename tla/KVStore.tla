------------------------------ MODULE KVStore ------------------------------
(***************************************************************************)
(* The memory of a KVTxnStorage (pkg/txn/storage/mem/kv_txn_storage.go) and  *)
(* what its operations do to it.  A store is the record                      *)
(*   owner      key -> the transaction that wrote it and has not finished    *)
(*              (uncommittedKeyTxnMap and the uncommitted KV: the value a    *)
(*              transaction writes is identified by the transaction)         *)
(*   shared     the keys whose entry in uncommittedKeyTxnMap is the very     *)
(*              TxnMeta that uncommittedTxn points to.  Write makes a new     *)
(*              TxnMeta in every call and stores it in uncommittedTxn only   *)
(*              if there is none, so a later call's keys keep a TxnMeta of   *)
(*              their own whose status nobody ever changes                   *)
(*   txn        transaction -> its TxnMeta in uncommittedTxn                 *)
(*   committed  the versions of the MVCC map                                 *)
(* The log of the storage is kept apart: it survives a restart.              *)
(***************************************************************************)
EXTENDS Integers, Sequences

CONSTANTS
  Key, Txn,
  NoTxn,   \* no transaction
  MaxTS    \* {math.MaxInt64, math.MaxUint32}: later than any timestamp in use

ASSUME KVAssumption ==
  /\ NoTxn \notin Txn
  /\ MaxTS \in Nat

Meta == [status : {"None", "Active", "Prepared", "Committing"},
         preparedTS : Nat, commitTS : Nat]
NoMeta == [status |-> "None", preparedTS |-> 0, commitTS |-> 0]
ActiveMeta == [status |-> "Active", preparedTS |-> 0, commitTS |-> 0]

Version == [key : Key, ts : Nat, txn : Txn]

Store == [owner : [Key -> Txn \cup {NoTxn}], shared : SUBSET Key,
          txn : [Txn -> Meta], committed : SUBSET Version]

NewKVTxnStorage ==
  [owner |-> [k \in Key |-> NoTxn], shared |-> {},
   txn |-> [t \in Txn |-> NoMeta], committed |-> {}]

getWriteKeysLocked(kv, t) == {k \in Key : kv.owner[k] = t}

\* MVCCKV.AscendRange: the versions of a key in [from, to).
AscendRange(kv, key, from, to) ==
  {v \in kv.committed : v.key = key /\ from <= v.ts /\ v.ts < to}

\* Mutant: the range leaves out the snapshot's own timestamp.
hasConflictAfter(kv, from, to, writeKeys) ==
  \E k \in writeKeys : AscendRange(kv, k, from + 1, to) # {}

hasConflict(kv, from, to, writeKeys) ==
  \E k \in writeKeys : AscendRange(kv, k, from, to) # {}

\* The loop of Write, for the keys it gets through: the ones that are free are
\* given the TxnMeta of this call, which uncommittedTxn takes if it has none.
Put(kv, t, meta, keys) ==
  [owner |-> [k \in Key |-> IF k \in keys THEN t ELSE kv.owner[k]],
   shared |-> IF kv.txn[t] = NoMeta
                THEN kv.shared \cup {k \in keys : kv.owner[k] = NoTxn}
                ELSE kv.shared,
   txn |-> IF kv.txn[t] = NoMeta /\ keys # {}
             THEN [kv.txn EXCEPT ![t] = meta] ELSE kv.txn,
   committed |-> kv.committed]

\* Write stops at the first key of the batch that another transaction holds,
\* and keeps what it wrote before it.
Written(kv, t, keys) ==
  {keys[i] : i \in {n \in DOMAIN keys :
                      \A j \in 1 .. n : kv.owner[keys[j]] \in {t, NoTxn}}}

Write(kv, t, keys) == Put(kv, t, ActiveMeta, Written(kv, t, keys))

\* Forget the uncommitted entries of a transaction.
Drop(kv, t, committed) ==
  [owner |-> [k \in Key |-> IF kv.owner[k] = t THEN NoTxn ELSE kv.owner[k]],
   shared |-> kv.shared \ getWriteKeysLocked(kv, t),
   txn |-> [kv.txn EXCEPT ![t] = NoMeta],
   committed |-> committed]

Rollback(kv, t) == Drop(kv, t, kv.committed)

\* MVCCKV.Set of every key: a version of the same key and time is overwritten.
SetVersions(kv, t, commitTS, keys) ==
  {v \in kv.committed : ~(v.key \in keys /\ v.ts = commitTS)}
    \cup [key : keys, ts : {commitTS}, txn : {t}]

commitKeysLocked(kv, t, commitTS) ==
  Drop(kv, t, SetVersions(kv, t, commitTS, getWriteKeysLocked(kv, t)))

changeUncommittedTxnStatusLocked(kv, t, meta) ==
  [owner |-> kv.owner, shared |-> kv.shared,
   txn |-> [kv.txn EXCEPT ![t] = meta], committed |-> kv.committed]

\* Mutant: Prepare leaves the conflict check to Commit.
CanPrepareUnchecked(kv, t, snapshotTS) == kv.txn[t] # NoMeta

\* Prepare succeeds: no version of a written key from the snapshot on.
CanPrepare(kv, t, snapshotTS) ==
  /\ kv.txn[t] # NoMeta
  /\ ~hasConflict(kv, snapshotTS, MaxTS, getWriteKeysLocked(kv, t))

\* Commit's own check, up to and including its commit timestamp.
CanCommit(kv, t, snapshotTS, commitTS) ==
  ~hasConflict(kv, snapshotTS, commitTS + 1, getWriteKeysLocked(kv, t))

(***************************************************************************)
(* Read.  The reader must wait for the transaction that holds the key if it  *)
(* is prepared or committing at a time the reader's snapshot covers.         *)
(***************************************************************************)
\* Mutant: a reader does not wait for a transaction that is only prepared.
needWaitCommitting(kv, key, snapshotTS) ==
  /\ kv.owner[key] # NoTxn
  /\ key \in kv.shared
  /\ kv.txn[kv.owner[key]].status = "Committing"
  /\ snapshotTS > kv.txn[kv.owner[key]].commitTS

needWait(kv, key, snapshotTS) ==
  /\ kv.owner[key] # NoTxn
  /\ key \in kv.shared
  /\ LET m == kv.txn[kv.owner[key]] IN
       \/ m.status = "Prepared" /\ snapshotTS > m.preparedTS
       \/ m.status = "Committing" /\ snapshotTS > m.commitTS

\* readValue, for a reader that wrote nothing itself: whose value it returns.
readValue(kv, key, snapshotTS) ==
  LET visible == AscendRange(kv, key, 0, snapshotTS) IN
  IF visible = {} THEN NoTxn
  ELSE (CHOOSE v \in visible : \A w \in visible : w.ts <= v.ts).txn

(***************************************************************************)
(* The log and its replay by StartRecovery.                                  *)
(***************************************************************************)
KVLog == [txn : Txn, status : {"Prepared", "Committing", "Committed"},
          keys : SUBSET Key, preparedTS : Nat, commitTS : Nat]

\* StartRecovery panics: Write meets a conflict, or Committing finds no TxnMeta.
ReplayPanics(kv, klog) ==
  \/ /\ klog.status = "Prepared"
     /\ \E k \in klog.keys : kv.owner[k] \notin {klog.txn, NoTxn}
  \/ /\ klog.status = "Committing"
     /\ kv.txn[klog.txn] = NoMeta

\* Mutant: every Committed record is taken to hold its data.
ReplayFromRecord(kv, klog) ==
  CASE klog.status = "Prepared" ->
         Put(kv, klog.txn, [status |-> "Prepared", preparedTS |-> klog.preparedTS,
                            commitTS |-> 0], klog.keys)
    [] klog.status = "Committing" -> kv
    [] OTHER -> Drop(kv, klog.txn, SetVersions(kv, klog.txn, klog.commitTS, klog.keys))

Replay(kv, klog) ==
  CASE klog.status = "Prepared" ->
         Put(kv, klog.txn, [status |-> "Prepared", preparedTS |-> klog.preparedTS,
                            commitTS |-> 0], klog.keys)
    [] klog.status = "Committing" ->
         changeUncommittedTxnStatusLocked(kv, klog.txn,
           [status |-> "Committing", preparedTS |-> kv.txn[klog.txn].preparedTS,
            commitTS |-> klog.commitTS])
    [] klog.status = "Committed" /\ klog.keys = {} ->
         commitKeysLocked(kv, klog.txn, klog.commitTS)
    [] OTHER ->
         [owner |-> kv.owner, shared |-> kv.shared, txn |-> kv.txn,
          committed |-> SetVersions(kv, klog.txn, klog.commitTS, klog.keys)]

\* The store after every prefix of the log.
Replayed(log) ==
  LET after[n \in 0 .. Len(log)] ==
        IF n = 0 THEN NewKVTxnStorage ELSE Replay(after[n - 1], log[n])
  IN after

RecoveryPanics(log) ==
  \E n \in 1 .. Len(log) : ReplayPanics(Replayed(log)[n - 1], log[n])

StartRecovery(log) == Replayed(log)[Len(log)]
=============================================================================
