---------------------------- MODULE KVTxnStorage ----------------------------
(***************************************************************************)
(* One KVTxnStorage under the calls a TxnService makes of it.  Every method  *)
(* of the storage runs under its mutex and is one action.  phase is what the *)
(* service knows of a transaction on this shard, and decides which calls it   *)
(* makes (service_cn_handler.go, service_dn_handler.go): Write and Prepare    *)
(* while Active, Committing and Commit once Prepared, and so on.              *)
(*                                                                          *)
(* Timestamps are naturals: HLC.tla shows that Now() is strictly increasing   *)
(* on a node and later than every stamp the node has received, and that is     *)
(* all that clock keeps of it.                                               *)
(***************************************************************************)
EXTENDS KVStore, FiniteSets

CONSTANTS
  Batch,            \* the batches of keys a Write request may carry
  Snapshots,        \* the SnapshotTS a transaction may start with
  OneWrite,         \* do transactions send one Write request to a shard?
  Use1PC,           \* are there transactions that wrote to this shard only?
  RollbackPrepared, \* does a prepared transaction ever roll back here?
  MaxClock,         \* bound: timestamps in use
  MaxReads,         \* bound: reads in a behaviour
  MaxCrashes,       \* bound: restarts in a behaviour
  MaxLogErrors      \* bound: failed appends to the log in a behaviour

ASSUME StorageAssumption ==
  /\ Snapshots \subseteq 1 .. MaxClock
  /\ Batch \subseteq Seq(Key)
  /\ MaxClock \in Nat
  /\ MaxClock < MaxTS
  /\ MaxCrashes \in Nat
  /\ OneWrite \in BOOLEAN
  /\ Use1PC \in BOOLEAN
  /\ RollbackPrepared \in BOOLEAN

VARIABLES
  kv,        \* the storage's memory
  log,       \* its log, kept by the LogService
  clock,     \* the node's hybrid logical clock
  snapshot,  \* transaction -> SnapshotTS
  phase,     \* transaction -> its status in the service of this shard
  commitTS,  \* transaction -> CommitTS once decided, 0 before
  wrote,     \* transaction -> number of Write requests
  reading,   \* the read that waits for a transaction
  reads,     \* history: what finished reads returned
  acked,     \* history: the transactions Commit returned nil for
  up,        \* is the storage up? StartRecovery may have panicked
  crashes, logErrors

vars == <<kv, log, clock, snapshot, phase, commitTS, wrote, reading, reads,
          acked, up, crashes, logErrors>>

Phase == {"Active", "Commit1PC", "Prepared", "Committing", "Committed",
          "Aborted", "Zombie"}

NotReading == [key |-> NoTxn, ts |-> 0, txn |-> NoTxn]

\* The storage stays well formed, and a transaction in a status that the service
\* can leave (no Commit or Prepare ends half way, kv_txn_storage.go:276-386).
TypeOK ==
  /\ kv \in Store
  /\ log \in Seq(KVLog)
  /\ clock \in 0 .. MaxClock
  /\ snapshot \in [Txn -> Snapshots]
  /\ phase \in [Txn -> Phase]
  /\ commitTS \in [Txn -> 0 .. MaxClock]
  /\ acked \subseteq Txn
  /\ up \in BOOLEAN
  /\ crashes \in 0 .. MaxCrashes

Init ==
  /\ kv = NewKVTxnStorage
  /\ log = <<>>
  /\ clock = 0
  /\ snapshot \in [Txn -> Snapshots]
  /\ phase = [t \in Txn |-> "Active"]
  /\ commitTS = [t \in Txn |-> 0]
  /\ wrote = [t \in Txn |-> 0]
  /\ reading = NotReading
  /\ reads = {}
  /\ acked = {}
  /\ up = TRUE
  /\ crashes = 0
  /\ logErrors = 0

readVars == <<reading, reads>>
faults == <<up, crashes, logErrors>>

Max(a, b) == IF a >= b THEN a ELSE b

\* saveLog, when Append succeeds.
saveLog(t, status, keys, pts, cts) ==
  log' = Append(log, [txn |-> t, status |-> status, keys |-> keys,
                      preparedTS |-> pts, commitTS |-> cts])

\* saveLog, when it returns an error: the record may have been appended.
saveLogFails(t, status, keys, pts, cts) ==
  /\ logErrors < MaxLogErrors
  /\ logErrors' = logErrors + 1
  /\ saveLog(t, status, keys, pts, cts) \/ log' = log

\* A Write request; its header brings the clock of the sender, which took the
\* snapshot.  One of a transaction that is over makes a new context: a zombie.
WriteRequest(t, keys) ==
  /\ up
  /\ phase[t] \in {"Active", "Committed", "Aborted", "Zombie"}
  /\ wrote[t] < 2
  /\ OneWrite => wrote[t] = 0
  /\ kv' = Write(kv, t, keys)
  /\ clock' = Max(clock, snapshot[t])
  /\ wrote' = [wrote EXCEPT ![t] = @ + 1]
  /\ phase' = [phase EXCEPT ![t] = IF @ = "Active" THEN @ ELSE "Zombie"]
  /\ UNCHANGED <<log, snapshot, commitTS, readVars, acked, faults>>

Prepare(t) ==
  /\ up
  /\ phase[t] = "Active"
  /\ clock < MaxClock
  /\ CanPrepare(kv, t, snapshot[t])
  /\ clock' = clock + 1
  /\ saveLog(t, "Prepared", getWriteKeysLocked(kv, t), clock', 0)
  /\ kv' = changeUncommittedTxnStatusLocked(kv, t,
             [status |-> "Prepared", preparedTS |-> clock', commitTS |-> 0])
  /\ phase' = [phase EXCEPT ![t] = "Prepared"]
  /\ UNCHANGED <<snapshot, commitTS, wrote, readVars, acked, faults>>

\* Prepare returns an error and the service rolls the storage back.  The
\* context stays Active, but the coordinator will only roll it back: a zombie.
PrepareFails(t) ==
  /\ up
  /\ phase[t] = "Active"
  /\ clock < MaxClock
  /\ kv.txn[t] # NoMeta
  /\ clock' = clock + 1
  /\ \/ ~CanPrepare(kv, t, snapshot[t]) /\ UNCHANGED <<log, logErrors>>
     \/ /\ CanPrepare(kv, t, snapshot[t])
        /\ saveLogFails(t, "Prepared", getWriteKeysLocked(kv, t), clock', 0)
  /\ kv' = Rollback(kv, t)
  /\ phase' = [phase EXCEPT ![t] = "Zombie"]
  /\ UNCHANGED <<snapshot, commitTS, wrote, readVars, acked, up, crashes>>

\* The coordinator's commit timestamp: the largest of the PreparedTS, this
\* shard's included.  The message that brings it brings the clock along.
Decide(t, cts) ==
  /\ kv.txn[t].preparedTS <= cts
  /\ commitTS' = [commitTS EXCEPT ![t] = cts]
  /\ clock' = Max(clock, cts)

Committing(t) ==
  /\ up
  /\ phase[t] = "Prepared"
  /\ kv.txn[t] # NoMeta
  /\ \E cts \in 1 .. MaxClock :
       /\ Decide(t, cts)
       /\ saveLog(t, "Committing", {}, kv.txn[t].preparedTS, cts)
       /\ kv' = changeUncommittedTxnStatusLocked(kv, t,
                  [status |-> "Committing", preparedTS |-> kv.txn[t].preparedTS,
                   commitTS |-> cts])
  /\ phase' = [phase EXCEPT ![t] = "Committing"]
  /\ UNCHANGED <<snapshot, wrote, readVars, acked, faults>>

\* Commit of a one-shard transaction: CommitTS is taken first, outside the
\* mutex of the storage.
Start1PC(t) ==
  /\ up
  /\ Use1PC
  /\ phase[t] = "Active"
  /\ clock < MaxClock
  /\ clock' = clock + 1
  /\ commitTS' = [commitTS EXCEPT ![t] = clock']
  /\ phase' = [phase EXCEPT ![t] = "Commit1PC"]
  /\ UNCHANGED <<kv, log, snapshot, wrote, readVars, acked, faults>>

\* A transaction without a write set here is committed without a record.
CommitNothing(t) ==
  /\ up
  /\ phase[t] \in {"Commit1PC", "Prepared", "Committing"}
  /\ kv.txn[t] = NoMeta
  /\ phase' = [phase EXCEPT ![t] = "Committed"]
  /\ UNCHANGED <<kv, log, clock, snapshot, commitTS, wrote, readVars, acked, faults>>

\* Commit at cts; the record holds the data if no Prepared record does.
CommitAt(t, cts) ==
  /\ CanCommit(kv, t, snapshot[t], cts)
  /\ saveLog(t, "Committed",
             IF phase[t] = "Commit1PC" THEN getWriteKeysLocked(kv, t) ELSE {},
             kv.txn[t].preparedTS, cts)
  /\ kv' = commitKeysLocked(kv, t, cts)
  /\ phase' = [phase EXCEPT ![t] = "Committed"]
  /\ acked' = acked \cup {t}

Commit(t) ==
  /\ up
  /\ kv.txn[t] # NoMeta
  /\ \/ /\ phase[t] \in {"Commit1PC", "Committing"}
        /\ CommitAt(t, commitTS[t])
        /\ UNCHANGED <<clock, commitTS>>
     \/ /\ phase[t] = "Prepared"
        /\ \E cts \in 1 .. MaxClock : Decide(t, cts) /\ CommitAt(t, cts)
  /\ UNCHANGED <<snapshot, wrote, readVars, faults>>

\* Mutant: the context of a failed commit is left in the Aborting status.
CommitFailsAborting(t) ==
  /\ up
  /\ kv.txn[t] # NoMeta
  /\ \/ /\ phase[t] \in {"Commit1PC", "Committing"}
        /\ ~CanCommit(kv, t, snapshot[t], commitTS[t])
        /\ UNCHANGED <<log, logErrors>>
     \/ /\ phase[t] = "Commit1PC"
        /\ CanCommit(kv, t, snapshot[t], commitTS[t])
        /\ saveLogFails(t, "Committed", getWriteKeysLocked(kv, t), 0, commitTS[t])
  /\ phase' = [phase EXCEPT ![t] = IF @ = "Commit1PC" THEN "Aborting" ELSE @]
  /\ UNCHANGED <<kv, clock, snapshot, commitTS, wrote, readVars, acked, up, crashes>>

\* Commit returns an error.  A one-shard transaction becomes Aborted, and its
\* uncommitted data stays where it is.
CommitFails(t) ==
  /\ up
  /\ kv.txn[t] # NoMeta
  /\ \/ /\ phase[t] \in {"Commit1PC", "Committing"}
        /\ ~CanCommit(kv, t, snapshot[t], commitTS[t])
        /\ UNCHANGED <<log, logErrors>>
     \/ /\ phase[t] = "Commit1PC"
        /\ CanCommit(kv, t, snapshot[t], commitTS[t])
        /\ saveLogFails(t, "Committed", getWriteKeysLocked(kv, t), 0, commitTS[t])
  /\ phase' = [phase EXCEPT ![t] = IF @ = "Commit1PC" THEN "Aborted" ELSE @]
  /\ UNCHANGED <<kv, clock, snapshot, commitTS, wrote, readVars, acked, up, crashes>>

\* storage.Rollback, from RollbackDNShard.  Nothing is logged.
RollbackTxn(t) ==
  /\ up
  /\ \/ phase[t] \in {"Active", "Zombie"}
     \/ phase[t] = "Prepared" /\ RollbackPrepared
  /\ kv' = Rollback(kv, t)
  /\ phase' = [phase EXCEPT ![t] = "Aborted"]
  /\ UNCHANGED <<log, clock, snapshot, commitTS, wrote, readVars, acked, faults>>

Returned(key, ts) == [key |-> key, ts |-> ts, txn |-> readValue(kv, key, ts)]

\* service.Read waits until its clock has reached SnapshotTS and reads.
Read(key, ts) ==
  /\ up
  /\ reading = NotReading
  /\ Cardinality(reads) < MaxReads
  /\ Max(clock + 1, ts) <= MaxClock
  /\ clock' = Max(clock + 1, ts)
  /\ IF needWait(kv, key, ts)
       THEN /\ reading' = [key |-> key, ts |-> ts, txn |-> kv.owner[key]]
            /\ UNCHANGED reads
       ELSE /\ reads' = reads \cup {Returned(key, ts)}
            /\ UNCHANGED reading
  /\ UNCHANGED <<kv, log, snapshot, phase, commitTS, wrote, acked, faults>>

\* The transaction waited for is over: continueRead, or an error if the key is
\* held by yet another transaction that must be waited for.
ContinueRead ==
  /\ up
  /\ reading # NotReading
  /\ phase[reading.txn] \in {"Committed", "Aborted", "Zombie"}
  /\ reads' = IF needWait(kv, reading.key, reading.ts) THEN reads
              ELSE reads \cup {Returned(reading.key, reading.ts)}
  /\ reading' = NotReading
  /\ UNCHANGED <<kv, log, clock, snapshot, phase, commitTS, wrote, acked, faults>>

\* The process restarts and StartRecovery replays the log.  The service gets a
\* context for what is prepared or committing in the log; of other unfinished
\* transactions nothing is left, and a later request starts from scratch.
Restart ==
  /\ up
  /\ crashes < MaxCrashes
  /\ crashes' = crashes + 1
  /\ reading' = NotReading
  /\ IF RecoveryPanics(log)
       THEN /\ up' = FALSE
            /\ UNCHANGED <<kv, phase, commitTS>>
       ELSE /\ kv' = StartRecovery(log)
            /\ phase' = [t \in Txn |->
                 IF kv'.txn[t] # NoMeta THEN kv'.txn[t].status
                 ELSE IF \E i \in DOMAIN log :
                           log[i].txn = t /\ log[i].status = "Committed"
                      THEN "Committed"
                 ELSE IF phase[t] = "Active" THEN "Active" ELSE "Aborted"]
            /\ commitTS' = [t \in Txn |->
                 IF phase'[t] = "Committed" THEN commitTS[t] ELSE kv'.txn[t].commitTS]
            /\ UNCHANGED up
  /\ UNCHANGED <<log, clock, snapshot, wrote, reads, acked, logErrors>>

Next ==
  \/ \E t \in Txn :
       \/ \E keys \in Batch : WriteRequest(t, keys)
       \/ Prepare(t)
       \/ PrepareFails(t)
       \/ Committing(t)
       \/ Start1PC(t)
       \/ CommitNothing(t)
       \/ Commit(t)
       \/ CommitFails(t)
       \/ RollbackTxn(t)
  \/ \E key \in Key, ts \in Snapshots : Read(key, ts)
  \/ ContinueRead
  \/ Restart

Spec == Init /\ [][Next]_vars

(***************************************************************************)
(* Properties.                                                               *)
(***************************************************************************)

\* Snapshot isolation, the write side: of two transactions that committed a
\* write of the same key, one had finished before the other took its snapshot
\* (hasConflict in Prepare and Commit, and the key locks Write takes).
FirstCommitterWins ==
  \A v, w \in kv.committed :
    v.key = w.key /\ v.txn # w.txn =>
      v.ts < snapshot[w.txn] \/ w.ts < snapshot[v.txn]

\* Snapshot isolation, the read side: what a read returned stays what its
\* snapshot holds, whatever commits afterwards ("All data.TS < txn.SnapshotTS
\* is visible for the current transaction", proto/txn.proto:80).
ReadsAreStable ==
  up => \A r \in reads : r.txn = readValue(kv, r.key, r.ts)

\* Prepare is a promise: from then on the storage holds the transaction and no
\* write of another one conflicts with it, so that Commit succeeds at whatever
\* timestamp the coordinator chooses (startAsyncCommitTask is Fatal otherwise).
PreparedCanCommit ==
  up => \A t \in Txn :
    phase[t] \in {"Prepared", "Committing"} =>
      /\ kv.txn[t] # NoMeta
      /\ \A v \in kv.committed : kv.owner[v.key] = t => v.ts < snapshot[t]

\* The inductive strengthening of the two: versions are no later than the clock,
\* and a one-shard commit that has its timestamp is later than every version of
\* its keys, because the keys have been locked since before it took it.
StorageInv ==
  /\ FirstCommitterWins
  /\ PreparedCanCommit
  /\ \A v \in kv.committed : v.ts <= clock
  /\ \A t \in Txn :
       /\ phase[t] \in {"Commit1PC", "Committing"} => commitTS[t] <= clock
       /\ phase[t] = "Commit1PC" =>
            \A v \in kv.committed : kv.owner[v.key] = t => v.ts < commitTS[t]
  /\ up

\* What Commit returned nil for is there after any restart that succeeds, with
\* every key of the transaction's log record and at its commit timestamp.
AckedIsDurable ==
  up => \A t \in acked :
    \A i \in DOMAIN log :
      log[i].txn = t =>
        \A k \in log[i].keys :
          [key |-> k, ts |-> commitTS[t], txn |-> t] \in kv.committed

\* A log that the storage wrote can always be replayed.
RecoveryNeverPanics == up
=============================================================================
