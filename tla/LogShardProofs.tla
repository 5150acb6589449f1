--------------------------- MODULE LogShardProofs ---------------------------
(***************************************************************************)
(* The invariant of LogShard is inductive, and its properties follow.       *)
(***************************************************************************)
EXTENDS LogShardReplay

\* The invariant is inductive.
LEMMA NextInv == IInv /\ [Next]_vars => IInv'
<1> SUFFICES ASSUME IInv, [Next]_vars PROVE IInv'
  OBVIOUS
<1>1. PICK m, tso : ShardInv(m, tso)
  BY DEF IInv
<1>2. left.replicas \subseteq Replica
  BY <1>1 DEF ShardInv, Scenario
<1>3. CASE UNCHANGED vars
  <2>1. ReaderInv(log, reader', m) /\ left' \in Scenario
    BY <1>1, <1>3 DEF ShardInv, vars
  <2> QED
    BY <1>1, <1>3, <2>1, ReaderStep DEF vars, replicaVars, history
<1>4. ASSUME NEW e \in Proposals[left.proposals], Propose(e) PROVE IInv'
  BY <1>1, <1>4, ProposeInv
<1>5. ASSUME NEW r \in left.replicas, ReplicaStep(r) \/ ReplayStep(r) PROVE IInv'
  <2>1. r \in Replica
    BY <1>2
  <2>2. CASE Apply(r)
    BY <1>1, <2>1, <2>2, ApplyInv
  <2>3. CASE importSnapshot(r)
    BY <1>1, <2>1, <2>3, ImportInv
  <2>4. CASE exportSnapshot(r)
    BY <1>1, <2>1, <2>4, ExportInv
  <2>5. CASE Restart(r)
    BY <1>1, <2>1, <2>5, RestartInv
  <2>6. CASE queryLog(r)
    BY <1>1, <2>1, <2>6, QueryInv
  <2>7. CASE queryLogOutOfRange(r)
    BY <1>1, <2>1, <2>7, OutOfRangeInv
  <2>8. CASE markLog(r)
    BY <1>1, <2>1, <2>8, MarkInv
  <2> QED
    BY <1>5, <2>2, <2>3, <2>4, <2>5, <2>6, <2>7, <2>8 DEF ReplicaStep, ReplayStep
<1>6. ASSUME NEW q \in left.replicas, NEW r \in left.replicas, InstallSnapshot(q, r) PROVE IInv'
  BY <1>1, <1>2, <1>6, InstallInv
<1>7. ASSUME NEW d \in DN, NEW r \in left.replicas, StartReplay(d, r) PROVE IInv'
  BY <1>1, <1>2, <1>7, StartReplayInv
<1> QED
  BY SMTT(30), <1>3, <1>4, <1>5, <1>6, <1>7 DEF Next

LEMMA Invariance == Spec => []IInv
BY InitInv, NextInv, PTL DEF Spec
-----------------------------------------------------------------------------
\* TruncatedTo is the largest truncation of the log.
LEMMA TruncatedToFacts ==
  ASSUME LogOK(log)
  PROVE  /\ TruncatedTo \in Nat
         /\ \A i \in Nat : i >= TruncatedTo => Untruncated(log, i)
<1> DEFINE K == {j \in 1 .. Len(log) : log[j].tag = "TruncateLSNUpdate"}
           S == {0} \union {log[k].n : k \in K}
<1>1. ASSUME NEW k \in K PROVE log[k].n \in Nat /\ log[k].n <= MaxLog
  <2>1. k \in 1 .. Len(log) /\ TruncAt(log, k) /\ Len(log) \in Nat /\ Len(log) <= MaxLog
    BY DEF TruncAt, LogOK
  <2>2. log[k] \in Entry /\ log[k].n < k
    BY <2>1 DEF LogOK
  <2>3. log[k].n \in Nat
    BY <2>2 DEF Entry
  <2> QED
    BY <2>1, <2>2, <2>3, RSMAssumption
<1>2. S \in SUBSET Nat /\ S # {} /\ \A x \in S : x <= MaxLog
  BY <1>1, RSMAssumption
<1>3. Max(S) \in S /\ \A x \in S : x <= Max(S)
  BY Zenon, <1>2, RSMAssumption, MaxOfBounded
<1>4. TruncatedTo = Max(S)
  BY DEF TruncatedTo
<1>5. Max(S) \in Nat /\ \A k \in K : log[k].n <= Max(S)
  BY Zenon, <1>2, <1>3
<1>6. ASSUME NEW i \in Nat, i >= Max(S) PROVE Untruncated(log, i)
  <2>1. ASSUME NEW k \in 1 .. Len(log), TruncAt(log, k) PROVE log[k].n <= i
    <3>1. k \in K
      BY <2>1 DEF TruncAt
    <3>2. log[k].n \in Nat /\ log[k].n <= Max(S)
      BY <1>1, <1>5, <3>1
    <3> QED
      BY <1>5, <1>6, <3>2
  <2> QED
    BY <2>1 DEF Untruncated
<1> QED
  BY <1>4, <1>5, <1>6

\* The state of a log shard stays in its type.
THEOREM Types == Spec => []TypeOK
<1>1. IInv => TypeOK
  <2> SUFFICES ASSUME IInv PROVE TypeOK
    OBVIOUS
  <2>1. PICK m, tso : ShardInv(m, tso)
    BY DEF IInv
  <2>2. ASSUME NEW r \in Replica PROVE system[r].index <= applied[r] /\ applied[r] <= Len(log)
    <3>1. ReplicaInv(r, m, tso) /\ m \in 0 .. Len(log) /\ Len(log) \in Nat
      BY <2>1 DEF ShardInv, LogOK
    <3> QED
      BY <3>1 DEF ReplicaInv
  <2>3. reader.pc \in {"idle", "query", "mark", "done", "failed"}
    BY <2>1 DEF ShardInv, ReaderInv, Reader
  <2> QED
    BY <2>1, <2>2, <2>3 DEF ShardInv, LogOK, TypeOK
<1> QED
  BY <1>1, Invariance, PTL

(***************************************************************************)
(* getLeaseHistory names the true holder at every Lsn from TruncatedLsn on, *)
(* whatever was truncated, restored or merged: rsm.go.                      *)
(***************************************************************************)
THEOREM LeaseHistoryCorrect == Spec => []LeaseHistoryRight
<1>1. IInv => LeaseHistoryRight
  <2> SUFFICES ASSUME IInv, NEW r \in Replica,
                      NEW i \in Max({1, rsm[r].TruncatedLsn}) .. applied[r] + 1
               PROVE  HeldBefore(i, getLeaseHistory(rsm[r].LeaseHistory, i))
    BY DEF LeaseHistoryRight
  <2>1. PICK m, tso : ShardInv(m, tso)
    BY DEF IInv
  <2>2. LogOK(log) /\ Len(log) \in Nat /\ m \in 0 .. Len(log) /\ ReplicaInv(r, m, tso)
    BY <2>1 DEF ShardInv, LogOK
  <2>3. applied[r] \in Nat /\ applied[r] <= Len(log) /\ StateAt(log, rsm[r], applied[r], tso)
    BY <2>2 DEF ReplicaInv
  <2>4. rsm[r].TruncatedLsn \in Nat
    BY <2>3 DEF StateAt, RSMState, Lsn
  <2> DEFINE S == {1, rsm[r].TruncatedLsn}
  <2>5. S \in SUBSET Nat /\ S # {} /\ \A x \in S : x <= rsm[r].TruncatedLsn + 1
    BY <2>4
  <2>6. rsm[r].TruncatedLsn + 1 \in Nat
    BY <2>4
  <2>7. Max(S) \in S /\ \A x \in S : x <= Max(S)
    BY <2>5, <2>6, MaxOfBounded
  <2>8. Max(S) \in Nat /\ 1 <= Max(S) /\ rsm[r].TruncatedLsn <= Max(S)
    BY <2>5, <2>7
  <2>9. i \in Nat /\ i \in 1 .. applied[r] + 1 /\ i \in i .. applied[r] + 1
        /\ rsm[r].TruncatedLsn <= i
    BY <2>3, <2>4, <2>8
  <2>10. \A k \in i .. i - 1 : ~LeaseAt(log, k)
    BY <2>9
  <2>11. Held(log, i, getLeaseHistory(rsm[r].LeaseHistory, i))
    BY <2>2, <2>3, <2>9, <2>10, HistoryHolds
  <2> QED
    BY <2>11 DEF Held, HeldBefore, LeaseAt, IsLease
<1> QED
  BY <1>1, Invariance, PTL

\* The truncation worker compacts nothing a DN still needs: truncation.go and snapshot.go.
THEOREM Compaction == Spec => []CompactionIsSafe
<1>1. IInv => CompactionIsSafe
  <2> SUFFICES ASSUME IInv, NEW r \in Replica, linearizable(r)
               PROVE  system[r].index <= rsm[r].TruncatedLsn
    BY DEF CompactionIsSafe
  <2>1. PICK m, tso : ShardInv(m, tso)
    BY DEF IInv
  <2>2. /\ rsm[r].TruncatedLsn \in Nat
        /\ \A k \in 1 .. Len(log) : TruncAt(log, k) => log[k].n \in Nat /\ log[k].n <= rsm[r].TruncatedLsn
    BY <2>1, ReadFacts
  <2>3. /\ system[r].index \in Nat
        /\ \/ system[r].index = 0
           \/ \E k \in 1 .. Len(log) : TruncAt(log, k) /\ system[r].index <= log[k].n
    BY <2>1 DEF ShardInv, ReplicaInv
  <2> QED
    BY <2>2, <2>3
<1> QED
  BY <1>1, Invariance, PTL

\* A replay fails only behind a truncation that came after it began: queryLog in store.go.
THEOREM ReplayFailure == Spec => []FailsOnlyIfTruncated
<1>1. IInv => FailsOnlyIfTruncated
  <2> SUFFICES ASSUME IInv, reader.pc = "failed"
               PROVE  \E i \in reader.at + 1 .. Len(log) :
                        log[i].tag = "TruncateLSNUpdate" /\ log[i].n >= reader.first
    BY DEF FailsOnlyIfTruncated
  <2>1. PICK m, tso : ShardInv(m, tso)
    BY DEF IInv
  <2> QED
    BY <2>1 DEF ShardInv, ReaderInv, TruncAt
<1> QED
  BY <1>1, Invariance, PTL

\* No timestamp is given out twice, whichever replica answers: handleTsoUpdate in rsm.go.
THEOREM Timestamps == Spec => []TsoUnique
<1>1. IInv => TsoUnique
  <2> SUFFICES ASSUME IInv, NEW g \in granted, NEW h \in granted
               PROVE  /\ g.lsn = h.lsn => g = h
                      /\ g.lsn < h.lsn => g.value + g.n <= h.value
    BY DEF TsoUnique
  <2>1. PICK m, tso : ShardInv(m, tso)
    BY DEF IInv
  <2>2. Sums(log, tso) /\ Len(log) \in Nat /\ m \in 0 .. Len(log) /\ granted = Grants(log, m, tso)
    BY <2>1 DEF ShardInv, LogOK
  <2>3. PICK i \in 1 .. m : log[i].tag = "TSOUpdate" /\ g = [lsn |-> i, value |-> tso[i - 1], n |-> log[i].n]
    BY <2>2 DEF Grants
  <2>4. PICK j \in 1 .. m : log[j].tag = "TSOUpdate" /\ h = [lsn |-> j, value |-> tso[j - 1], n |-> log[j].n]
    BY <2>2 DEF Grants
  <2>5. i \in 1 .. Len(log) /\ i \in 0 .. Len(log) /\ j - 1 \in 0 .. Len(log)
    BY <2>2
  <2>6. tso[i] = tso[i - 1] + log[i].n
    BY <2>2, <2>3, <2>5 DEF Sums
  <2>7. i <= j - 1 => tso[i] <= tso[j - 1]
    BY <2>2, <2>5 DEF Sums
  <2>8. i < j => i <= j - 1
    BY <2>2
  <2> QED
    BY <2>3, <2>4, <2>6, <2>7, <2>8
<1> QED
  BY <1>1, Invariance, PTL

(***************************************************************************)
(* A reader is told of every record what the state machine decided:         *)
(* markEntries in store.go against handleUserUpdate in rsm.go.              *)
(***************************************************************************)
THEOREM Verdicts == Spec => []VerdictsRight
<1>1. IInv => VerdictsRight
  <2> SUFFICES ASSUME IInv, NEW rec \in reader.records, log[rec.Lsn].tag = "UserEntryUpdate",
                      rec.Lsn >= TruncatedTo
               PROVE  rec.Type = "UserRecord" <=> \E a \in accepted : a.lsn = rec.Lsn
    BY DEF VerdictsRight
  <2>1. PICK m, tso : ShardInv(m, tso)
    BY DEF IInv
  <2>2. LogOK(log) /\ accepted = Accepts(log, m) /\ RecordsRight(log, reader.records, m)
    BY <2>1 DEF ShardInv, ReaderInv
  <2>3. rec.Lsn \in 1 .. m /\ rec.Lsn \in Nat
    BY <2>2 DEF RecordsRight
  <2>4. Untruncated(log, rec.Lsn)
    BY <2>2, <2>3, TruncatedToFacts
  <2>5. rec.Type = "UserRecord" <=> Held(log, rec.Lsn, log[rec.Lsn].dn)
    BY <2>2, <2>4 DEF RecordsRight, UserAt
  <2>6. ASSUME Held(log, rec.Lsn, log[rec.Lsn].dn) PROVE \E a \in accepted : a.lsn = rec.Lsn
    <3> DEFINE a == [lsn |-> rec.Lsn, dn |-> log[rec.Lsn].dn]
    <3>1. a \in accepted
      BY <2>2, <2>3, <2>6 DEF Accepts, UserAt
    <3> QED
      BY <3>1
  <2>7. ASSUME NEW a \in accepted, a.lsn = rec.Lsn PROVE Held(log, rec.Lsn, log[rec.Lsn].dn)
    BY <2>2, <2>7 DEF Accepts
  <2> QED
    BY <2>5, <2>6, <2>7
<1> QED
  BY <1>1, Invariance, PTL

(***************************************************************************)
(* The lease fences: a DN that held it throughout its replay has every      *)
(* record another DN got accepted and nobody truncated.                     *)
(***************************************************************************)
THEOREM ReplayCompleteness == Spec => []ReplayIsComplete
<1>1. IInv => ReplayIsComplete
  <2> SUFFICES ASSUME IInv, reader.pc = "done", HeldThroughout, NEW a \in accepted,
                      a.lsn >= Max({reader.from, TruncatedTo}), a.dn # reader.dn
               PROVE  [Lsn |-> a.lsn, Type |-> "UserRecord"] \in reader.records
    BY DEF ReplayIsComplete
  <2>1. PICK m, tso : ShardInv(m, tso)
    BY DEF IInv
  <2>2. /\ LogOK(log) /\ Len(log) \in Nat /\ m \in 0 .. Len(log) /\ accepted = Accepts(log, m)
        /\ ReaderInv(log, reader, m)
    BY <2>1 DEF ShardInv, LogOK
  <2>3. /\ reader.dn \in DN /\ reader.at \in Nat /\ reader.at <= m /\ reader.from \in Nat
        /\ Covered(log, reader.records, reader.from, reader.at)
    BY <2>2 DEF ReaderInv, Reader
  <2>4. PICK i \in 1 .. m : /\ UserAt(log, i) /\ Held(log, i, log[i].dn)
                            /\ a = [lsn |-> i, dn |-> log[i].dn]
    BY <2>2 DEF Accepts
  <2>5. a.lsn = i /\ a.dn = log[i].dn /\ i \in Nat
    BY <2>4
  <2>6. i >= reader.from /\ i >= TruncatedTo
    <3> DEFINE S == {reader.from, TruncatedTo}
    <3>1. TruncatedTo \in Nat
      BY <2>2, TruncatedToFacts
    <3>2. S \in SUBSET Nat /\ S # {} /\ \A x \in S : x <= reader.from + TruncatedTo
      BY <2>3, <3>1
    <3>3. reader.from + TruncatedTo \in Nat
      BY <2>3, <3>1
    <3>4. Max(S) \in S /\ \A x \in S : x <= Max(S)
      BY Zenon, <3>2, <3>3, MaxOfBounded
    <3>5. Max(S) \in Nat /\ reader.from <= Max(S) /\ TruncatedTo <= Max(S)
      BY <3>2, <3>4
    <3> QED
      BY <2>3, <2>5, <3>1, <3>5
  <2>7. Untruncated(log, i)
    BY <2>2, <2>5, <2>6, TruncatedToFacts
  <2>8. i <= reader.at
    <3> SUFFICES ASSUME i > reader.at PROVE FALSE
      BY <2>3, <2>5
    <3> DEFINE U == leaseUpdates(log, 1, reader.at)
               j == Max(U)
    <3>1. leaseHolderAt(log, 1, NoDN, reader.at) = reader.dn
      BY DEF HeldThroughout
    <3>2. U # {} /\ log[j].dn = reader.dn
      BY <2>3, <3>1, RSMAssumption DEF leaseHolderAt
    <3>3. reader.at <= Len(log) /\ 1 \in Nat
      BY <2>2, <2>3
    <3>4. j \in 1 .. reader.at /\ LeaseAt(log, j) /\ \A k \in j + 1 .. reader.at : ~LeaseAt(log, k)
      BY <2>2, <2>3, <3>2, <3>3, LastLease
    <3> HIDE DEF j
    <3>5. j \in 1 .. i - 1
      BY <2>3, <2>5, <3>4
    <3>6. log[i].dn # NoDN
      BY <2>4, <3>4, <3>5 DEF Held
    <3>7. PICK k \in 1 .. i - 1 : /\ LeaseAt(log, k) /\ log[k].dn = log[i].dn
                                  /\ \A n \in k + 1 .. i - 1 : ~LeaseAt(log, n)
      BY <2>4, <3>6 DEF Held
    <3>8. CASE k <= reader.at
      <4>1. k = j
        BY <2>3, <2>5, <3>4, <3>5, <3>7, <3>8
      <4> QED
        BY SMTT(30), <2>5, <3>2, <3>7, <4>1 DEF j
    <3>9. CASE k > reader.at
      <4>1. k \in reader.at + 1 .. Len(log)
        BY <2>2, <2>3, <2>5, <3>9
      <4>2. log[k].dn = reader.dn
        BY <3>7, <4>1 DEF HeldThroughout, LeaseAt
      <4> QED
        BY <2>5, <3>7, <4>2
    <3> QED
      BY SMTT(30), <2>3, <2>5, <3>8, <3>9
  <2>9. i \in reader.from .. reader.at
    BY <2>3, <2>5, <2>6, <2>8
  <2> QED
    BY <2>3, <2>4, <2>5, <2>7, <2>9 DEF Covered
<1> QED
  BY <1>1, Invariance, PTL
=============================================================================
