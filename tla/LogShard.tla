------------------------------ MODULE LogShard ------------------------------
(***************************************************************************)
(* One shard of the log service (pkg/logservice): its replicas, the DNs     *)
(* that take the lease, append, truncate and ask for timestamps, the        *)
(* truncation worker of every replica, and a DN that replays the log.       *)
(*                                                                          *)
(* Raft is external: its committed entries are one shared sequence, log,    *)
(* of which each replica has applied a prefix.  A linearizable read at a    *)
(* replica waits until it has applied all that is committed.                *)
(***************************************************************************)
EXTENDS LogRSM

CONSTANTS
  Replica,   \* the replicas of the shard
  Proposals, \* mixes of entries that may be proposed, by name
  Scenarios  \* configurations and bounds, see Scenario

\* replicas: those that the shard has; maxExported: cfg.MaxExportedSnapshot;
\* proposals: the entries that are proposed; faults: restarts and snapshots
\* sent to a replica that lags; replays: replays of the log.
Scenario == [replicas : SUBSET Replica, maxExported : Nat, proposals : DOMAIN Proposals,
             faults : Nat, replays : Nat]

\* A client connects with the ID of a DN replica, which is not 0 (ClientConfig).
ASSUME ShardAssumption ==
  /\ \A mix \in DOMAIN Proposals : \A e \in Proposals[mix] :
       e \in Entry /\ (e.tag = "LeaseHolderIDUpdate" => e.dn \in DN)
  /\ Scenarios \subseteq Scenario

VARIABLES
  log,       \* the committed entries, external
  applied,   \* replica -> number of entries it has applied, external
  rsm,       \* replica -> stateMachine.state
  system,    \* replica -> the snapshot a restart begins with; the log starts after it
  exported,  \* replica -> the snapshots the snapshotManager keeps
  info,      \* replica -> shardSnapshotInfo, in memory
  reader,    \* the replayer of a DN and the queryLog it waits for
  accepted,  \* history: the appends some replica accepted, [lsn, dn]
  granted,   \* history: the timestamps some replica gave out, [lsn, value, n]
  left       \* the scenario, with the faults and replays that are left of it

replicaVars == <<applied, rsm, system, exported, info>>
history == <<accepted, granted>>
vars == <<log, replicaVars, reader, history, left>>

Snapshot == [index: Lsn, state: RSMState]
NoInfo == [truncatedLsn |-> 0, snapshotIndex |-> 0]
Empty == [index |-> 0, state |-> newStateMachine]
NoReader ==
  [pc |-> "idle", dn |-> NoDN, replica |-> NoDN, from |-> 0, at |-> 0, first |-> 0,
   high |-> 0, next |-> 0, records |-> {}]

Init ==
  /\ log = <<>>
  /\ applied = [r \in Replica |-> 0]
  /\ rsm = [r \in Replica |-> newStateMachine]
  /\ system = [r \in Replica |-> Empty]
  /\ exported = [r \in Replica |-> {}]
  /\ info = [r \in Replica |-> NoInfo]
  /\ reader = NoReader
  /\ accepted = {}
  /\ granted = {}
  /\ left \in Scenarios

Spend(kind) ==
  /\ left[kind] > 0
  /\ left' = [left EXCEPT ![kind] = @ - 1]

\* store.read: SyncRead returns once the replica has applied what is committed.
linearizable(r) == applied[r] = Len(log)

Replaying == reader.pc \in {"query", "mark"}

(***************************************************************************)
(* Connect, Append, Truncate and GetTSOTimestamp of a client propose an     *)
(* entry; raft proposes some for itself.  An answer may be lost, and then   *)
(* the client proposes again: that is another entry.  A client of a DN      *)
(* connects, which proposes the lease, before it does anything else.        *)
(***************************************************************************)
Connected(d) ==
  \E i \in 1 .. Len(log) : log[i].tag = "LeaseHolderIDUpdate" /\ log[i].dn = d

Propose(e) ==
  /\ Len(log) < MaxLog
  /\ e.tag = "UserEntryUpdate" => Connected(e.dn)
  /\ e.tag = "TruncateLSNUpdate" =>
       /\ \E d \in DN : Connected(d)
       /\ e.n <= Len(log)
  /\ log' = Append(log, e)
  /\ UNCHANGED <<replicaVars, reader, history, left>>

\* A replica applies its next entry; the result goes to whoever proposed it there.
Apply(r) ==
  /\ applied[r] < Len(log)
  /\ LET i == applied[r] + 1
         e == log[i]
     IN  /\ applied' = [applied EXCEPT ![r] = i]
         /\ rsm' = [rsm EXCEPT ![r] = Update(@, i, e)]
         /\ accepted' = IF e.tag = "UserEntryUpdate" /\ handleUserUpdate(rsm[r], e)
                        THEN accepted \union {[lsn |-> i, dn |-> e.dn]} ELSE accepted
         /\ granted' = IF e.tag = "TSOUpdate"
                       THEN granted \union {[lsn |-> i, value |-> rsm[r].Tso, n |-> e.n]}
                       ELSE granted
  /\ UNCHANGED <<log, system, exported, info, reader, left>>

(***************************************************************************)
(* The truncation worker, processShardTruncateLog.  It starts with a        *)
(* linearizable read of TruncatedLsn, and either imports the newest         *)
(* exported snapshot that TruncatedLsn covers, which compacts the raft log, *)
(* or exports one more.                                                     *)
(***************************************************************************)
shouldProcess(r) == linearizable(r) /\ rsm[r].TruncatedLsn > 1

\* Mutant: the walk over the sorted items stops one too late.
EvalImportSnapshotNext(r) ==
  {s \in exported[r] : \A q \in exported[r] : q.index < s.index => q.index <= rsm[r].TruncatedLsn}

EvalImportSnapshot(r) == {s \in exported[r] : s.index <= rsm[r].TruncatedLsn}

importIndex(r) == Max({0} \union {s.index : s \in EvalImportSnapshot(r)})

shouldDoImport(r) == importIndex(r) > info[r].truncatedLsn

shouldDoExport(r) ==
  /\ Cardinality(exported[r]) < left.maxExported
  /\ rsm[r].Index > info[r].snapshotIndex

\* Dragonboat keeps the newer one of its own snapshot and the imported one.
Imported(old, new) == IF new.index > old.index THEN new ELSE old

importSnapshot(r) ==
  /\ shouldProcess(r)
  /\ shouldDoImport(r)
  /\ \E s \in exported[r] :
       /\ s.index = importIndex(r)
       /\ system' = [system EXCEPT ![r] = Imported(@, s)]
  /\ exported' = [exported EXCEPT ![r] = {s \in @ : s.index > importIndex(r)}]
  /\ info' = [info EXCEPT ![r].truncatedLsn = Max({@, importIndex(r)})]
  /\ UNCHANGED <<log, applied, rsm, reader, history, left>>

exportSnapshot(r) ==
  /\ shouldProcess(r)
  /\ ~shouldDoImport(r)
  /\ shouldDoExport(r)
  /\ exported' = [exported EXCEPT ![r] = @ \union {[index |-> applied[r], state |-> rsm[r]]}]
  /\ info' = [info EXCEPT ![r].snapshotIndex = Max({@, applied[r]})]
  /\ UNCHANGED <<log, applied, rsm, system, reader, history, left>>

(***************************************************************************)
(* A log store restarts: dragonboat recovers a new state machine from its   *)
(* snapshot and applies the log again; the snapshotManager reads back its   *)
(* directory; shardSnapshotInfo is gone.  A queryLog in progress fails and  *)
(* the client asks again.                                                   *)
(***************************************************************************)
QueryFails(r) == [reader EXCEPT !.pc = IF @ = "mark" /\ reader.replica = r THEN "query" ELSE @]

\* Mutant: the restart applies the log from its beginning, without the snapshot.
RestartFromScratch(r) ==
  /\ Spend("faults")
  /\ applied' = [applied EXCEPT ![r] = 0]
  /\ rsm' = [rsm EXCEPT ![r] = newStateMachine]
  /\ info' = [info EXCEPT ![r] = NoInfo]
  /\ reader' = QueryFails(r)
  /\ UNCHANGED <<log, system, exported, history>>

Restart(r) ==
  /\ Spend("faults")
  /\ applied' = [applied EXCEPT ![r] = system[r].index]
  /\ rsm' = [rsm EXCEPT ![r] = RecoverFromSnapshot(newStateMachine, system[r].state)]
  /\ info' = [info EXCEPT ![r] = NoInfo]
  /\ reader' = QueryFails(r)
  /\ UNCHANGED <<log, system, exported, history>>

\* Raft sends its snapshot to a replica that lacks entries the sender has compacted.
InstallSnapshot(q, r) ==
  /\ Spend("faults")
  /\ applied[r] < system[q].index
  /\ applied' = [applied EXCEPT ![r] = system[q].index]
  /\ rsm' = [rsm EXCEPT ![r] = RecoverFromSnapshot(@, system[q].state)]
  /\ system' = [system EXCEPT ![r] = system[q]]
  /\ UNCHANGED <<log, exported, info, reader, history>>

(***************************************************************************)
(* The replayer of a DN: it has the lease, learns the truncated Lsn and     *)
(* reads in chunks from the next one on, until a read returns its own first *)
(* Lsn.  queryLog has three reads of the shard; a chunk is cut by its size  *)
(* in bytes, that is anywhere after its first entry.                        *)
(***************************************************************************)
StartReplay(d, r) ==
  /\ ~Replaying
  /\ Spend("replays")
  /\ linearizable(r)
  /\ Connected(d)
  /\ reader' = [NoReader EXCEPT !.pc = "query", !.dn = d, !.at = Len(log),
                  !.from = rsm[r].TruncatedLsn + 1, !.first = rsm[r].TruncatedLsn + 1]
  /\ UNCHANGED <<log, replicaVars, history>>

\* The index read and QueryRaftLog.  The range is the committed one.
queryLog(r) ==
  /\ reader.pc = "query"
  /\ linearizable(r)
  /\ reader.first > system[r].index
  /\ \/ /\ reader.first > rsm[r].Index
        /\ reader' = [reader EXCEPT !.pc = "done"]
     \/ \E high \in reader.first .. rsm[r].Index :
          reader' = [reader EXCEPT !.pc = "mark", !.replica = r, !.high = high,
                       !.next = getNextIndex(reader.first, high, Len(log) + 1)]
  /\ UNCHANGED <<log, replicaVars, history, left>>

\* RequestOutOfRange: the first entry is no longer there.
queryLogOutOfRange(r) ==
  /\ reader.pc = "query"
  /\ linearizable(r)
  /\ reader.first <= system[r].index
  /\ reader' = [reader EXCEPT !.pc = "failed"]
  /\ UNCHANGED <<log, replicaVars, history, left>>

\* getLeaseHolderID: a lease update that comes first needs no lease history.
getLeaseHolderID(r, low) ==
  IF log[low].tag = "LeaseHolderIDUpdate"
  THEN log[low].dn ELSE getLeaseHistory(rsm[r].LeaseHistory, low)

markLog(r) ==
  /\ reader.pc = "mark"
  /\ reader.replica = r
  /\ linearizable(r)
  /\ reader' = [reader EXCEPT
       !.pc = IF reader.next = reader.first THEN "done" ELSE "query",
       !.first = reader.next,
       !.records = @ \union markEntries(log, reader.first, reader.high,
                                        getLeaseHolderID(r, reader.first))]
  /\ UNCHANGED <<log, replicaVars, history, left>>

ReplicaStep(r) ==
  Apply(r) \/ importSnapshot(r) \/ exportSnapshot(r) \/ Restart(r)

ReplayStep(r) == queryLog(r) \/ queryLogOutOfRange(r) \/ markLog(r)

Next ==
  \/ \E e \in Proposals[left.proposals] : Propose(e)
  \/ \E r \in left.replicas : ReplicaStep(r) \/ ReplayStep(r)
  \/ \E q, r \in left.replicas : InstallSnapshot(q, r)
  \/ \E d \in DN, r \in left.replicas : StartReplay(d, r)

Spec == Init /\ [][Next]_vars
-----------------------------------------------------------------------------
\* The state stays in its type: rsm.go, truncation.go and snapshot.go.
TypeOK ==
  /\ log \in Seq(Entry) /\ Len(log) <= MaxLog
  /\ applied \in [Replica -> Lsn]
  /\ rsm \in [Replica -> RSMState]
  /\ system \in [Replica -> Snapshot]
  /\ exported \in [Replica -> SUBSET Snapshot]
  /\ info \in [Replica -> [truncatedLsn: Lsn, snapshotIndex: Lsn]]
  /\ \A r \in Replica : system[r].index <= applied[r] /\ applied[r] <= Len(log)
  /\ reader.pc \in {"idle", "query", "mark", "done", "failed"}

\* The holder of the lease before entry i, read off the whole log.
IsLease(i) == log[i].tag = "LeaseHolderIDUpdate"
HeldBefore(i, d) ==
  IF d = NoDN THEN \A j \in 1 .. i - 1 : ~IsLease(j)
  ELSE \E j \in 1 .. i - 1 : /\ IsLease(j) /\ log[j].dn = d
                             /\ \A k \in j + 1 .. i - 1 : ~IsLease(k)

\* The largest Lsn some DN has said it needs nothing below of.
TruncatedTo ==
  Max({0} \union {log[i].n : i \in {j \in 1 .. Len(log) : log[j].tag = "TruncateLSNUpdate"}})

(***************************************************************************)
(* The lease history of any replica, truncated, restored or merged from a   *)
(* snapshot, names the true holder at every Lsn from TruncatedLsn on:       *)
(* getLeaseHistory and truncateLeaseHistory in rsm.go.                      *)
(***************************************************************************)
LeaseHistoryRight ==
  \A r \in Replica : \A i \in Max({1, rsm[r].TruncatedLsn}) .. applied[r] + 1 :
    HeldBefore(i, getLeaseHistory(rsm[r].LeaseHistory, i))

(***************************************************************************)
(* What a reader is told about a record, UserRecord or LeaseRejected, is    *)
(* what the state machine decided when the record was appended, whichever   *)
(* chunks it is read in and whatever is truncated below it meanwhile:       *)
(* markEntries in store.go against handleUserUpdate.                        *)
(***************************************************************************)
VerdictsRight ==
  \A rec \in reader.records :
    log[rec.Lsn].tag = "UserEntryUpdate" /\ rec.Lsn >= TruncatedTo =>
      (rec.Type = "UserRecord" <=> \E a \in accepted : a.lsn = rec.Lsn)

(***************************************************************************)
(* The lease fences the old DN: once a DN that held the lease throughout    *)
(* has replayed the log, it has every record that was ever accepted from    *)
(* another DN and not truncated (Read in client.go: "everything available   *)
(* has been read when it equals to the specified Lsn").                     *)
(***************************************************************************)
HeldThroughout ==
  /\ leaseHolderAt(log, 1, NoDN, reader.at) = reader.dn
  /\ \A i \in reader.at + 1 .. Len(log) :
       log[i].tag = "LeaseHolderIDUpdate" => log[i].dn = reader.dn

ReplayIsComplete ==
  reader.pc = "done" /\ HeldThroughout =>
    \A a \in accepted : a.lsn >= Max({reader.from, TruncatedTo}) /\ a.dn # reader.dn =>
      [Lsn |-> a.lsn, Type |-> "UserRecord"] \in reader.records

(***************************************************************************)
(* Compaction never passes the truncated Lsn, so that a DN finds every      *)
(* entry it has not truncated at whichever replica it asks ("the log        *)
(* entries can be removed safely", snapshot.go).                            *)
(***************************************************************************)
CompactionIsSafe ==
  \A r \in Replica : linearizable(r) => system[r].index <= rsm[r].TruncatedLsn

(***************************************************************************)
(* A replay finds its next entry gone only when a DN has truncated the log  *)
(* there after the replay began, at whatever point the truncation worker    *)
(* runs and the log store restarts: RequestOutOfRange in queryLog.          *)
(***************************************************************************)
FailsOnlyIfTruncated ==
  reader.pc = "failed" =>
    \E i \in reader.at + 1 .. Len(log) :
      log[i].tag = "TruncateLSNUpdate" /\ log[i].n >= reader.first

(***************************************************************************)
(* GetTSOTimestamp gives every caller timestamps of its own, whichever      *)
(* replica answers, before or after a restart: handleTsoUpdate in rsm.go.   *)
(***************************************************************************)
TsoUnique ==
  \A g, h \in granted :
    /\ g.lsn = h.lsn => g = h
    /\ g.lsn < h.lsn => g.value + g.n <= h.value
=============================================================================
