------------------------- MODULE LogShardSnapshots --------------------------
(***************************************************************************)
(* The steps that make, import, recover and install snapshots keep the      *)
(* invariant of LogShard.                                                   *)
(***************************************************************************)
EXTENDS LogShardInvariant

\* A fault or a replay that is spent leaves a scenario.
LEMMA SpendScenario ==
  ASSUME left \in Scenario, Spend("faults") \/ Spend("replays")
  PROVE  left' \in Scenario
<1>1. CASE Spend("faults")
  BY <1>1 DEF Spend, Scenario
<1>2. CASE Spend("replays")
  BY <1>2 DEF Spend, Scenario
<1> QED
  BY <1>1, <1>2

\* What importIndex returns.
LEMMA ImportIndexFacts ==
  ASSUME NEW r \in Replica, exported \in [Replica -> SUBSET Snapshot], rsm \in [Replica -> RSMState]
  PROVE  /\ importIndex(r) \in Lsn
         /\ importIndex(r) <= rsm[r].TruncatedLsn
<1> DEFINE S == {0} \union {s.index : s \in EvalImportSnapshot(r)}
<1>1. rsm[r].TruncatedLsn \in Nat /\ rsm[r].TruncatedLsn \in Lsn
  BY DEF RSMState, Lsn
<1>2. \A s \in exported[r] : s.index \in Lsn
  BY DEF Snapshot
<1>3. S \in SUBSET Lsn /\ S # {} /\ \A x \in S : x <= rsm[r].TruncatedLsn
  BY <1>1, <1>2, RSMAssumption DEF EvalImportSnapshot, Lsn
<1>4. S \in SUBSET Nat
  BY <1>3 DEF Lsn
<1>5. importIndex(r) = Max(S)
  BY DEF importIndex
<1> HIDE DEF S
<1>6. Max(S) \in S
  BY Zenon, <1>1, <1>3, <1>4, MaxOfBounded
<1> QED
  BY <1>3, <1>5, <1>6

\* The larger of two numbers of the log.
LEMMA MaxOfTwo ==
  ASSUME NEW a \in Lsn, NEW b \in Lsn
  PROVE  Max({a, b}) \in Lsn
<1>1. {a, b} \in SUBSET Nat /\ {a, b} # {} /\ \A x \in {a, b} : x <= MaxLog
  BY DEF Lsn
<1>2. Max({a, b}) \in {a, b}
  BY <1>1, RSMAssumption, MaxOfBounded
<1> QED
  BY <1>2

\* importSnapshot: compaction stays below a truncation of the log.
LEMMA ImportInv ==
  ASSUME NEW m, NEW tso, ShardInv(m, tso), NEW r \in Replica, importSnapshot(r)
  PROVE  IInv'
<1>1. /\ LogOK(log) /\ Len(log) \in Nat /\ m \in 0 .. Len(log) /\ m \in Nat
      /\ ReplicaInv(r, m, tso) /\ applied[r] \in Nat
      /\ system \in [Replica -> Snapshot] /\ exported \in [Replica -> SUBSET Snapshot]
      /\ info \in [Replica -> [truncatedLsn: Lsn, snapshotIndex: Lsn]]
      /\ rsm \in [Replica -> RSMState] /\ rsm[r].TruncatedLsn \in Nat
      /\ Truncated(log, rsm[r].TruncatedLsn, applied[r])
  <2>1. /\ LogOK(log) /\ Len(log) \in Nat /\ m \in 0 .. Len(log) /\ ReplicaInv(r, m, tso)
        /\ system \in [Replica -> Snapshot] /\ exported \in [Replica -> SUBSET Snapshot]
        /\ info \in [Replica -> [truncatedLsn: Lsn, snapshotIndex: Lsn]]
        /\ rsm \in [Replica -> RSMState]
    BY SMTT(60) DEF ShardInv, LogOK
  <2>2. applied[r] \in Nat /\ StateAt(log, rsm[r], applied[r], tso)
    BY <2>1 DEF ReplicaInv
  <2>3. rsm[r].TruncatedLsn \in Nat
    BY <2>1 DEF RSMState, Lsn
  <2> QED
    BY SMTT(60), <2>1, <2>2, <2>3 DEF StateAt
<1>2. PICK s \in exported[r] : s.index = importIndex(r) /\ system' = [system EXCEPT ![r] = Imported(@, s)]
  BY Zenon DEF importSnapshot
<1>3. /\ linearizable(r)
      /\ exported' = [exported EXCEPT ![r] = {q \in exported[r] : q.index > importIndex(r)}]
      /\ info' = [info EXCEPT ![r].truncatedLsn = Max({info[r].truncatedLsn, importIndex(r)})]
      /\ UNCHANGED <<log, applied, rsm, reader, accepted, granted, left>>
  BY DEF importSnapshot, shouldProcess, history
<1>4. importIndex(r) \in Lsn /\ importIndex(r) \in Nat /\ importIndex(r) <= rsm[r].TruncatedLsn
  BY SMTT(60), <1>1, ImportIndexFacts DEF Lsn
<1>5. /\ s \in Snapshot /\ s.index \in Nat /\ s.index <= rsm[r].TruncatedLsn
      /\ StateAt(log, s.state, s.index, tso)
  BY <1>1, <1>2, <1>4 DEF ReplicaInv
<1>6. s.index = 0 \/ \E k \in 1 .. Len(log) : TruncAt(log, k) /\ s.index <= log[k].n
  BY <1>1, <1>3, <1>5 DEF Truncated, linearizable
<1>7. s.index \in 0 .. applied[r]
  <2>1. ASSUME NEW k \in 1 .. Len(log), TruncAt(log, k), s.index <= log[k].n
        PROVE  s.index <= Len(log)
    <3>1. log[k].n < k /\ log[k] \in Entry
      BY <1>1, <2>1 DEF LogOK
    <3>2. log[k].n \in Nat
      BY <3>1 DEF Entry
    <3> QED
      BY SMTT(60), <1>1, <1>5, <2>1, <3>1, <3>2
  <2>2. s.index <= Len(log)
    BY <1>1, <1>5, <1>6, <2>1
  <2> QED
    BY <1>1, <1>3, <1>5, <2>2 DEF linearizable
<1>8. system'[r] = s \/ system'[r] = system[r]
  BY <1>1, <1>2 DEF Imported
<1>9. /\ exported'[r] \subseteq exported[r]
      /\ \A q \in Replica : q # r => system'[q] = system[q] /\ exported'[q] = exported[q]
      /\ system' \in [Replica -> Snapshot] /\ exported' \in [Replica -> SUBSET Snapshot]
  BY <1>1, <1>2, <1>3, <1>5 DEF Imported
<1>10. info' \in [Replica -> [truncatedLsn: Lsn, snapshotIndex: Lsn]]
  <2>1. Max({info[r].truncatedLsn, importIndex(r)}) \in Lsn
    BY <1>1, <1>4, MaxOfTwo
  <2> QED
    BY <1>1, <1>3, <2>1
<1>11. ASSUME NEW q \in Replica PROVE ReplicaInv(q, m, tso)'
  <2>1. CASE q # r
    <3>1. ReplicaInv(q, m, tso)
      BY DEF ShardInv
    <3> QED
      BY <1>1, <1>3, <1>9, <2>1, <3>1, SameReplica
  <2>2. CASE q = r
    BY <1>1, <1>3, <1>5, <1>6, <1>7, <1>8, <1>9, <2>2 DEF ReplicaInv
  <2> QED
    BY <2>1, <2>2
<1>12. ShardInv(m, tso)'
  BY <1>3, <1>9, <1>10, <1>11 DEF ShardInv
<1> QED
  BY <1>12 DEF IInv

\* exportSnapshot: the state it saves belongs to what the replica has applied.
LEMMA ExportInv ==
  ASSUME NEW m, NEW tso, ShardInv(m, tso), NEW r \in Replica, exportSnapshot(r)
  PROVE  IInv'
<1> DEFINE s == [index |-> applied[r], state |-> rsm[r]]
<1>1. /\ m \in Nat /\ ReplicaInv(r, m, tso) /\ applied \in [Replica -> Lsn]
      /\ rsm \in [Replica -> RSMState] /\ exported \in [Replica -> SUBSET Snapshot]
      /\ info \in [Replica -> [truncatedLsn: Lsn, snapshotIndex: Lsn]]
  BY DEF ShardInv, LogOK
<1>2. /\ exported' = [exported EXCEPT ![r] = exported[r] \union {s}]
      /\ info' = [info EXCEPT ![r].snapshotIndex = Max({info[r].snapshotIndex, applied[r]})]
      /\ UNCHANGED <<log, applied, rsm, system, reader, accepted, granted, left>>
  BY DEF exportSnapshot, history
<1>3. s \in Snapshot /\ s.index = applied[r] /\ s.state = rsm[r]
  BY <1>1 DEF Snapshot
<1> HIDE DEF s
<1>4. /\ exported'[r] = exported[r] \union {s}
      /\ \A q \in Replica : q # r => exported'[q] = exported[q]
      /\ exported' \in [Replica -> SUBSET Snapshot]
  BY <1>1, <1>2, <1>3
<1>5. info' \in [Replica -> [truncatedLsn: Lsn, snapshotIndex: Lsn]]
  <2>1. Max({info[r].snapshotIndex, applied[r]}) \in Lsn
    BY <1>1, MaxOfTwo
  <2> QED
    BY <1>1, <1>2, <2>1
<1>6. ASSUME NEW q \in Replica PROVE ReplicaInv(q, m, tso)'
  <2>1. CASE q # r
    <3>1. ReplicaInv(q, m, tso)
      BY DEF ShardInv
    <3> QED
      BY <1>1, <1>2, <1>4, <2>1, <3>1, SameReplica
  <2>2. CASE q = r
    BY <1>1, <1>2, <1>3, <1>4, <2>2 DEF ReplicaInv
  <2> QED
    BY <2>1, <2>2
<1>7. ShardInv(m, tso)'
  BY <1>2, <1>4, <1>5, <1>6 DEF ShardInv
<1> QED
  BY <1>7 DEF IInv

\* Restart: the snapshot is decoded into a new state machine.
LEMMA RestartInv ==
  ASSUME NEW m, NEW tso, ShardInv(m, tso), NEW r \in Replica, Restart(r)
  PROVE  IInv'
<1> DEFINE st == RecoverFromSnapshot(newStateMachine, system[r].state)
<1>1. /\ LogOK(log) /\ Sums(log, tso) /\ Len(log) \in Nat /\ m \in 0 .. Len(log) /\ m \in Nat
      /\ ReplicaInv(r, m, tso) /\ applied \in [Replica -> Lsn] /\ rsm \in [Replica -> RSMState]
      /\ system \in [Replica -> Snapshot] /\ ReaderInv(log, reader, m) /\ left \in Scenario
      /\ info \in [Replica -> [truncatedLsn: Lsn, snapshotIndex: Lsn]]
  BY SMTT(60) DEF ShardInv, LogOK
<1>2. /\ Spend("faults")
      /\ applied' = [applied EXCEPT ![r] = system[r].index]
      /\ rsm' = [rsm EXCEPT ![r] = st]
      /\ info' = [info EXCEPT ![r] = NoInfo]
      /\ reader' = QueryFails(r)
      /\ UNCHANGED <<log, system, exported, accepted, granted>>
  BY DEF Restart, history
<1>3. /\ applied[r] \in Nat /\ applied[r] <= m /\ system[r].index \in 0 .. applied[r]
      /\ StateAt(log, system[r].state, system[r].index, tso)
  BY SMTT(60), <1>1 DEF ReplicaInv
<1>4. system[r].index \in Nat /\ 0 <= system[r].index /\ system[r].index <= Len(log)
      /\ system[r].index \in 0 .. m /\ system[r].index \in Lsn
  BY <1>1, <1>3 DEF Snapshot
<1>5. StateAt(log, newStateMachine, 0, tso)
  BY <1>1, InitialAt
<1>6. StateAt(log, st, system[r].index, tso)
  BY <1>1, <1>3, <1>4, <1>5, RecoverAt
<1>7. st \in RSMState
  BY <1>6 DEF StateAt
<1> HIDE DEF st
<1>8. /\ applied'[r] = system[r].index /\ rsm'[r] = st
      /\ \A q \in Replica : q # r => applied'[q] = applied[q] /\ rsm'[q] = rsm[q]
      /\ applied' \in [Replica -> Lsn] /\ rsm' \in [Replica -> RSMState]
  BY <1>1, <1>2, <1>4, <1>7
<1>9. info' \in [Replica -> [truncatedLsn: Lsn, snapshotIndex: Lsn]]
  BY <1>1, <1>2, RSMAssumption DEF NoInfo, Lsn
<1>10. ASSUME NEW q \in Replica PROVE ReplicaInv(q, m, tso)'
  <2>1. CASE q # r
    <3>1. ReplicaInv(q, m, tso)
      BY DEF ShardInv
    <3> QED
      BY SMTT(60), <1>1, <1>2, <1>8, <2>1, <3>1, SameReplica
  <2>2. CASE q = r
    <3>1. system[r].index \in 0 .. system[r].index
      BY <1>4
    <3> QED
      BY <1>1, <1>2, <1>4, <1>6, <1>8, <2>2, <3>1 DEF ReplicaInv
  <2> QED
    BY <2>1, <2>2
<1>11. ReaderInv(log, reader', m)
  <2>1. CASE reader.pc = "mark" /\ reader.replica = r
    <3>1. reader' = [reader EXCEPT !.pc = "query"] /\ reader \in Reader
      BY <1>1, <1>2, <2>1 DEF QueryFails, ReaderInv
    <3>2. /\ reader' \in Reader /\ reader'.pc = "query" /\ reader'.dn = reader.dn
          /\ reader'.from = reader.from /\ reader'.at = reader.at /\ reader'.first = reader.first
          /\ reader'.records = reader.records
      BY <3>1 DEF Reader
    <3> QED
      BY <1>1, <2>1, <3>2 DEF ReaderInv
  <2>2. CASE ~(reader.pc = "mark" /\ reader.replica = r)
    <3>1. reader' = reader
      BY <1>1, <1>2, <2>2 DEF QueryFails, ReaderInv, Reader
    <3> QED
      BY <1>1, <3>1
  <2> QED
    BY <2>1, <2>2
<1>12. left' \in Scenario
  BY <1>1, <1>2, SpendScenario
<1>13. ShardInv(m, tso)'
  BY <1>2, <1>8, <1>9, <1>10, <1>11, <1>12 DEF ShardInv
<1> QED
  BY <1>13 DEF IInv

\* InstallSnapshot: the snapshot is decoded into the older state of the replica.
LEMMA InstallInv ==
  ASSUME NEW m, NEW tso, ShardInv(m, tso), NEW p \in Replica, NEW r \in Replica,
         InstallSnapshot(p, r)
  PROVE  IInv'
<1> DEFINE st == RecoverFromSnapshot(rsm[r], system[p].state)
<1>1. /\ LogOK(log) /\ Len(log) \in Nat /\ m \in 0 .. Len(log) /\ m \in Nat
      /\ ReplicaInv(r, m, tso) /\ ReplicaInv(p, m, tso)
      /\ applied \in [Replica -> Lsn] /\ rsm \in [Replica -> RSMState]
      /\ system \in [Replica -> Snapshot] /\ left \in Scenario
  BY SMTT(60) DEF ShardInv, LogOK
<1>2. /\ Spend("faults")
      /\ applied[r] < system[p].index
      /\ applied' = [applied EXCEPT ![r] = system[p].index]
      /\ rsm' = [rsm EXCEPT ![r] = st]
      /\ system' = [system EXCEPT ![r] = system[p]]
      /\ UNCHANGED <<log, exported, info, reader, accepted, granted>>
  BY DEF InstallSnapshot, history
<1>3. /\ applied[r] \in Nat /\ StateAt(log, rsm[r], applied[r], tso)
      /\ applied[p] \in Nat /\ applied[p] <= m /\ system[p].index \in 0 .. applied[p]
      /\ StateAt(log, system[p].state, system[p].index, tso)
  BY SMTT(60), <1>1 DEF ReplicaInv
<1>4. system[p].index \in Nat /\ applied[r] <= system[p].index /\ system[p].index <= Len(log)
      /\ system[p].index \in 0 .. m /\ system[p].index \in Lsn
      /\ system[p].index \in 0 .. system[p].index
  BY <1>1, <1>2, <1>3 DEF Snapshot
<1>5. StateAt(log, st, system[p].index, tso)
  BY <1>1, <1>3, <1>4, RecoverAt
<1>6. st \in RSMState
  BY <1>5 DEF StateAt
<1> HIDE DEF st
<1>7. /\ applied'[r] = system[p].index /\ rsm'[r] = st /\ system'[r] = system[p]
      /\ \A q \in Replica : q # r => applied'[q] = applied[q] /\ rsm'[q] = rsm[q]
                                     /\ system'[q] = system[q]
      /\ applied' \in [Replica -> Lsn] /\ rsm' \in [Replica -> RSMState]
      /\ system' \in [Replica -> Snapshot]
  BY <1>1, <1>2, <1>4, <1>6
<1>8. ASSUME NEW q \in Replica PROVE ReplicaInv(q, m, tso)'
  <2>1. CASE q # r
    <3>1. ReplicaInv(q, m, tso)
      BY DEF ShardInv
    <3> QED
      BY SMTT(60), <1>1, <1>2, <1>7, <2>1, <3>1, SameReplica
  <2>2. CASE q = r
    BY <1>1, <1>2, <1>3, <1>4, <1>5, <1>7, <2>2 DEF ReplicaInv
  <2> QED
    BY <2>1, <2>2
<1>9. left' \in Scenario
  BY <1>1, <1>2, SpendScenario
<1>10. ShardInv(m, tso)'
  BY <1>2, <1>7, <1>8, <1>9 DEF ShardInv
<1> QED
  BY <1>10 DEF IInv
=============================================================================
