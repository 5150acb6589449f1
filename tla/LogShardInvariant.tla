------------------------- MODULE LogShardInvariant --------------------------
(***************************************************************************)
(* The inductive invariant of LogShard, IInv, for any set of replicas, any  *)
(* log length, any mix of proposals and any number of faults.               *)
(*                                                                          *)
(* A state of the state machine is always the one that belongs to a prefix  *)
(* of the log, wherever it is kept: in the replica, in its snapshot or in   *)
(* an exported one.  What was accepted and granted is then a function of    *)
(* the log, and what a reader has is compared with that.                    *)
(***************************************************************************)
EXTENDS LogShard, LogRSMProofs

\* No truncation of the log is above i.
Untruncated(l, i) == \A k \in 1 .. Len(l) : TruncAt(l, k) => l[k].n <= i

\* What the first m entries make the replicas accept and grant.
Accepts(l, m) ==
  {[lsn |-> i, dn |-> l[i].dn] : i \in {j \in 1 .. m : UserAt(l, j) /\ Held(l, j, l[j].dn)}}
Grants(l, m, tso) ==
  {[lsn |-> i, value |-> tso[i - 1], n |-> l[i].n] : i \in {j \in 1 .. m : l[j].tag = "TSOUpdate"}}

ReplicaInv(r, m, tso) ==
  /\ applied[r] \in 0 .. m
  /\ system[r].index \in 0 .. applied[r]
  /\ StateAt(log, rsm[r], applied[r], tso)
  /\ StateAt(log, system[r].state, system[r].index, tso)
  /\ \/ system[r].index = 0
     \/ \E k \in 1 .. Len(log) : TruncAt(log, k) /\ system[r].index <= log[k].n
  /\ \A s \in exported[r] : s.index \in 0 .. m /\ StateAt(log, s.state, s.index, tso)

Reader ==
  [pc: {"idle", "query", "mark", "done", "failed"}, dn: DN \union {NoDN},
   replica: Replica \union {NoDN}, from: Nat, at: Nat, first: Nat, high: Nat, next: Nat,
   records: SUBSET [Lsn: Nat, Type: {"Internal", "LeaseUpdate", "UserRecord", "LeaseRejected"}]]

\* Records a replay of from .. to must have: accepted, and not truncated.
Covered(l, records, from, to) ==
  \A i \in from .. to :
    UserAt(l, i) /\ Held(l, i, l[i].dn) /\ Untruncated(l, i) =>
      [Lsn |-> i, Type |-> "UserRecord"] \in records

RecordsRight(l, records, m) ==
  \A rec \in records :
    /\ rec.Lsn \in 1 .. m
    /\ UserAt(l, rec.Lsn) /\ Untruncated(l, rec.Lsn) =>
         (rec.Type = "UserRecord" <=> Held(l, rec.Lsn, l[rec.Lsn].dn))

ReaderInv(l, rd, m) ==
  /\ rd \in Reader
  /\ rd.at <= m
  /\ RecordsRight(l, rd.records, m)
  /\ rd.pc # "idle" => rd.dn \in DN
  /\ rd.pc \in {"query", "mark"} =>
       /\ rd.from >= 1 /\ rd.first >= 1 /\ rd.first <= m + 1
       /\ \A k \in 1 .. rd.at : TruncAt(l, k) => l[k].n < rd.first
       /\ Covered(l, rd.records, rd.from, rd.first - 1)
  /\ rd.pc = "mark" =>
       /\ rd.high \in rd.first .. m
       /\ rd.next = rd.high + 1 \/ (rd.next = rd.first /\ rd.at <= rd.high)
  /\ rd.pc = "failed" => \E k \in rd.at + 1 .. Len(l) : TruncAt(l, k) /\ l[k].n >= rd.first
  /\ rd.pc = "done" => rd.from >= 1 /\ Covered(l, rd.records, rd.from, rd.at)

(***************************************************************************)
(* The inductive invariant: m entries have been applied by some replica,    *)
(* and every state anywhere belongs to a prefix of the log.                 *)
(***************************************************************************)
ShardInv(m, tso) ==
  /\ LogOK(log) /\ Sums(log, tso) /\ m \in 0 .. Len(log)
  /\ left \in Scenario
  /\ applied \in [Replica -> Lsn]
  /\ rsm \in [Replica -> RSMState]
  /\ system \in [Replica -> Snapshot]
  /\ exported \in [Replica -> SUBSET Snapshot]
  /\ info \in [Replica -> [truncatedLsn: Lsn, snapshotIndex: Lsn]]
  /\ accepted = Accepts(log, m)
  /\ granted = Grants(log, m, tso)
  /\ \A r \in Replica : ReplicaInv(r, m, tso)
  /\ ReaderInv(log, reader, m)

IInv == \E m, tso : ShardInv(m, tso)

-----------------------------------------------------------------------------
\* The facts about the reader grow with the entries that have been applied.
LEMMA ReaderGrows ==
  ASSUME NEW l, NEW rd, NEW m \in Nat, NEW n \in Nat, m <= n, ReaderInv(l, rd, m)
  PROVE  ReaderInv(l, rd, n)
<1>1. rd \in Reader /\ rd.at \in Nat /\ rd.first \in Nat /\ rd.high \in Nat
  BY DEF ReaderInv, Reader
<1>2. RecordsRight(l, rd.records, n)
  BY DEF ReaderInv, RecordsRight
<1> QED
  BY <1>1, <1>2 DEF ReaderInv

\* Held and the tags of a prefix stay as they are when an entry is added.
LEMMA PrefixHeld ==
  ASSUME NEW l, NEW l2, NEW i \in Nat, NEW d, \A k \in 1 .. i - 1 : l2[k] = l[k]
  PROVE  Held(l2, i, d) = Held(l, i, d)
BY DEF Held, LeaseAt

\* An entry that is added keeps what the reader has.
LEMMA PrefixReader ==
  ASSUME NEW l, NEW l2, NEW rd, Len(l) \in Nat, Len(l2) = Len(l) + 1,
         \A k \in 1 .. Len(l) : l2[k] = l[k],
         NEW m \in 0 .. Len(l), ReaderInv(l, rd, m)
  PROVE  ReaderInv(l2, rd, m)
<1>1. /\ rd \in Reader /\ rd.at \in Nat /\ rd.at <= m /\ rd.first \in Nat /\ rd.high \in Nat
      /\ rd.from \in Nat /\ RecordsRight(l, rd.records, m)
  BY DEF ReaderInv, Reader
<1>2. ASSUME NEW i \in 1 .. Len(l)
      PROVE  /\ l2[i] = l[i]
             /\ Held(l2, i, l2[i].dn) = Held(l, i, l[i].dn)
  <2>1. i \in Nat /\ l2[i] = l[i] /\ \A k \in 1 .. i - 1 : l2[k] = l[k]
    OBVIOUS
  <2> QED
    BY <2>1, PrefixHeld
<1>3. ASSUME NEW i, Untruncated(l2, i) PROVE Untruncated(l, i)
  <2>1. \A k \in 1 .. Len(l) : k \in 1 .. Len(l2)
    OBVIOUS
  <2> QED
    BY <1>2, <1>3, <2>1 DEF Untruncated, TruncAt
<1>4. RecordsRight(l2, rd.records, m)
  <2> SUFFICES ASSUME NEW rec \in rd.records
               PROVE  /\ rec.Lsn \in 1 .. m
                      /\ UserAt(l2, rec.Lsn) /\ Untruncated(l2, rec.Lsn) =>
                           (rec.Type = "UserRecord" <=> Held(l2, rec.Lsn, l2[rec.Lsn].dn))
    BY DEF RecordsRight
  <2>1. rec.Lsn \in 1 .. m
    BY <1>1 DEF RecordsRight
  <2>2. rec.Lsn \in 1 .. Len(l)
    BY <2>1
  <2> QED
    BY <1>1, <1>2, <1>3, <2>1, <2>2 DEF RecordsRight, UserAt
<1>5. ASSUME NEW a \in Nat, a >= 1, NEW b \in Int, b <= Len(l), Covered(l, rd.records, a, b)
      PROVE  Covered(l2, rd.records, a, b)
  <2>1. \A i \in a .. b : i \in 1 .. Len(l)
    BY <1>5
  <2> QED
    BY <1>2, <1>3, <1>5, <2>1 DEF Covered, UserAt
<1>6. rd.pc \in {"query", "mark"} =>
       /\ rd.from >= 1 /\ rd.first >= 1 /\ rd.first <= m + 1
       /\ \A k \in 1 .. rd.at : TruncAt(l2, k) => l2[k].n < rd.first
       /\ Covered(l2, rd.records, rd.from, rd.first - 1)
  <2> SUFFICES ASSUME rd.pc \in {"query", "mark"}
               PROVE  /\ rd.from >= 1 /\ rd.first >= 1 /\ rd.first <= m + 1
                      /\ \A k \in 1 .. rd.at : TruncAt(l2, k) => l2[k].n < rd.first
                      /\ Covered(l2, rd.records, rd.from, rd.first - 1)
    OBVIOUS
  <2>1. /\ rd.from >= 1 /\ rd.first >= 1 /\ rd.first <= m + 1
        /\ \A k \in 1 .. rd.at : TruncAt(l, k) => l[k].n < rd.first
        /\ Covered(l, rd.records, rd.from, rd.first - 1)
    BY DEF ReaderInv
  <2>2. \A k \in 1 .. rd.at : k \in 1 .. Len(l)
    BY <1>1
  <2>3. rd.first - 1 \in Int /\ rd.first - 1 <= Len(l)
    BY SMTT(30), <1>1, <2>1
  <2> QED
    BY SMTT(30), <1>1, <1>2, <1>5, <2>1, <2>2, <2>3 DEF TruncAt
<1>7. rd.pc = "failed" => \E k \in rd.at + 1 .. Len(l2) : TruncAt(l2, k) /\ l2[k].n >= rd.first
  <2> SUFFICES ASSUME rd.pc = "failed"
               PROVE  \E k \in rd.at + 1 .. Len(l2) : TruncAt(l2, k) /\ l2[k].n >= rd.first
    OBVIOUS
  <2>1. PICK k \in rd.at + 1 .. Len(l) : TruncAt(l, k) /\ l[k].n >= rd.first
    BY DEF ReaderInv
  <2>2. k \in 1 .. Len(l) /\ k \in rd.at + 1 .. Len(l2)
    BY <1>1
  <2> QED
    BY <1>2, <2>1, <2>2 DEF TruncAt
<1>8. rd.pc = "done" => rd.from >= 1 /\ Covered(l2, rd.records, rd.from, rd.at)
  <2> SUFFICES ASSUME rd.pc = "done"
               PROVE  rd.from >= 1 /\ Covered(l2, rd.records, rd.from, rd.at)
    OBVIOUS
  <2>1. Covered(l, rd.records, rd.from, rd.at) /\ rd.from >= 1
    BY DEF ReaderInv
  <2> QED
    BY <1>1, <1>5, <2>1
<1> QED
  BY <1>1, <1>4, <1>6, <1>7, <1>8 DEF ReaderInv

\* The timestamp counter of a log with one more entry.
LEMMA SumsAppend ==
  ASSUME NEW l \in Seq(Entry), NEW e \in Entry, NEW tso, Sums(l, tso)
  PROVE  \E tso2 : Sums(Append(l, e), tso2) /\ \A a \in 0 .. Len(l) : tso2[a] = tso[a]
<1> DEFINE n == Len(l) + 1
           x == IF e.tag = "TSOUpdate" THEN tso[Len(l)] + e.n ELSE tso[Len(l)]
           tso2 == [a \in 0 .. n |-> IF a = n THEN x ELSE tso[a]]
           l2 == Append(l, e)
<1>1. /\ Len(l) \in Nat /\ n \in Nat /\ Len(l2) = n /\ l2[n] = e
      /\ \A k \in 1 .. Len(l) : l2[k] = l[k]
  OBVIOUS
<1>2. /\ tso \in [0 .. Len(l) -> Nat] /\ tso[Len(l)] \in Nat /\ e.n \in Nat
      /\ \A a, b \in 0 .. Len(l) : a <= b => tso[a] <= tso[b]
      /\ \A a \in 1 .. Len(l) :
           tso[a] = IF l[a].tag = "TSOUpdate" THEN tso[a - 1] + l[a].n ELSE tso[a - 1]
      /\ tso[0] = 1
  <2>1. e.n \in Nat
    BY DEF Entry
  <2>2. tso \in [0 .. Len(l) -> Nat] /\ Len(l) \in 0 .. Len(l)
    BY <1>1 DEF Sums
  <2>3. tso[Len(l)] \in Nat
    BY <2>2
  <2> QED
    BY <2>1, <2>2, <2>3 DEF Sums
<1>3. x \in Nat /\ x >= tso[Len(l)]
  BY <1>2
<1> HIDE DEF x, l2
<1>4. tso2 \in [0 .. n -> Nat]
  BY <1>1, <1>2, <1>3
<1>5. /\ tso2[n] = x
      /\ \A a \in 0 .. Len(l) : tso2[a] = tso[a]
  BY <1>1
<1>6. tso2[n] = IF l2[n].tag = "TSOUpdate" THEN tso2[n - 1] + l2[n].n ELSE tso2[n - 1]
  BY <1>1, <1>5 DEF x
<1>7. ASSUME NEW a \in 1 .. Len(l)
      PROVE  tso2[a] = IF l2[a].tag = "TSOUpdate" THEN tso2[a - 1] + l2[a].n ELSE tso2[a - 1]
  <2>1. a \in 0 .. Len(l) /\ a - 1 \in 0 .. Len(l) /\ l2[a] = l[a]
    BY <1>1
  <2> QED
    BY <1>2, <1>5, <2>1
<1>8. ASSUME NEW a \in 0 .. n, NEW b \in 0 .. n, a <= b PROVE tso2[a] <= tso2[b]
  <2>1. CASE b \in 0 .. Len(l)
    BY <1>1, <1>2, <1>5, <1>8, <2>1
  <2>2. CASE b = n /\ a = n
    BY <1>3, <1>5, <2>2
  <2>3. CASE b = n /\ a \in 0 .. Len(l)
    <3>1. tso[a] <= tso[Len(l)] /\ tso[a] \in Nat
      BY SMTT(30), <1>1, <1>2, <2>3
    <3> QED
      BY <1>2, <1>3, <1>5, <2>3, <3>1
  <2> QED
    BY <1>1, <2>1, <2>2, <2>3
<1> HIDE DEF tso2
<1>9. \A a \in 1 .. n : a = n \/ a \in 1 .. Len(l)
  BY <1>1
<1>10. tso2[0] = 1
  BY <1>1, <1>2, <1>5
<1>11. Sums(l2, tso2)
  BY <1>1, <1>4, <1>6, <1>7, <1>8, <1>9, <1>10 DEF Sums
<1> QED
  BY <1>5, <1>11 DEF l2

\* The initial states.
LEMMA InitInv == Init => IInv
<1> SUFFICES ASSUME Init PROVE IInv
  OBVIOUS
<1> DEFINE tso == [i \in {0} |-> 1]
<1>1. log = <<>> /\ Len(log) = 0 /\ log \in Seq(Entry)
  BY DEF Init
<1>2. LogOK(log)
  BY <1>1, RSMAssumption DEF LogOK
<1>3. Sums(log, tso)
  BY <1>1 DEF Sums
<1>4. StateAt(log, newStateMachine, 0, tso)
  BY <1>3, InitialAt
<1>5. newStateMachine \in RSMState
  BY <1>4 DEF StateAt
<1>6. Empty.index = 0 /\ Empty.state = newStateMachine /\ Empty \in Snapshot
  BY <1>5, RSMAssumption DEF Empty, Snapshot, Lsn
<1> HIDE DEF tso
<1>7. ASSUME NEW r \in Replica PROVE ReplicaInv(r, 0, tso)
  BY <1>1, <1>4, <1>6 DEF Init, ReplicaInv
<1>8. ReaderInv(log, reader, 0)
  BY <1>1 DEF Init, ReaderInv, Reader, NoReader, RecordsRight
<1>9. accepted = Accepts(log, 0) /\ granted = Grants(log, 0, tso)
  BY DEF Init, Accepts, Grants
<1>10. /\ applied \in [Replica -> Lsn] /\ rsm \in [Replica -> RSMState]
       /\ system \in [Replica -> Snapshot] /\ exported \in [Replica -> SUBSET Snapshot]
       /\ info \in [Replica -> [truncatedLsn: Lsn, snapshotIndex: Lsn]]
  BY <1>5, <1>6, RSMAssumption DEF Init, NoInfo, Lsn
<1>11. left \in Scenario
  BY ShardAssumption DEF Init
<1>12. ShardInv(0, tso)
  BY <1>1, <1>2, <1>3, <1>7, <1>8, <1>9, <1>10, <1>11 DEF ShardInv
<1> QED
  BY <1>12 DEF IInv

\* Propose: every state still belongs to its prefix.
LEMMA ProposeInv ==
  ASSUME NEW m, NEW tso, ShardInv(m, tso), NEW e \in Proposals[left.proposals], Propose(e)
  PROVE  IInv'
<1>1. /\ e \in Entry /\ (e.tag = "LeaseHolderIDUpdate" => e.dn \in DN)
      /\ left \in Scenario
  BY ShardAssumption DEF ShardInv, Scenario
<1>2. /\ log \in Seq(Entry) /\ Len(log) \in Nat /\ Len(log) < MaxLog /\ log' = Append(log, e)
      /\ (e.tag = "TruncateLSNUpdate" => e.n <= Len(log))
      /\ UNCHANGED <<applied, rsm, system, exported, info, reader, accepted, granted, left>>
  BY DEF ShardInv, LogOK, Propose, replicaVars, history
<1>3. /\ log' \in Seq(Entry) /\ Len(log') = Len(log) + 1 /\ log'[Len(log) + 1] = e
      /\ \A k \in 1 .. Len(log) : log'[k] = log[k]
  BY <1>1, <1>2
<1>4. PICK tso2 : Sums(log', tso2) /\ \A a \in 0 .. Len(log) : tso2[a] = tso[a]
  BY <1>1, <1>2, SumsAppend DEF ShardInv
<1>5. LogOK(log')
  <2>1. \A k \in 1 .. Len(log') : k \in 1 .. Len(log) \/ k = Len(log) + 1
    BY <1>2, <1>3
  <2>2. ASSUME NEW k \in 1 .. Len(log')
        PROVE  /\ LeaseAt(log', k) => log'[k].dn \in DN
               /\ TruncAt(log', k) => log'[k].n < k
    <3>1. CASE k \in 1 .. Len(log)
      BY SMTT(30), <1>3, <3>1 DEF ShardInv, LogOK, LeaseAt, TruncAt
    <3>2. CASE k = Len(log) + 1
      BY <1>1, <1>2, <1>3, <3>2 DEF LeaseAt, TruncAt, Entry
    <3> QED
      BY <2>1, <3>1, <3>2
  <2>3. Len(log') <= MaxLog
    BY <1>2, <1>3, RSMAssumption
  <2> QED
    BY <1>3, <2>2, <2>3 DEF LogOK
<1>6. m \in 0 .. Len(log) /\ m \in Nat
  BY <1>2 DEF ShardInv
<1>7. ASSUME NEW st, NEW a \in 0 .. Len(log), StateAt(log, st, a, tso)
      PROVE  StateAt(log', st, a, tso2)
  <2>1. a \in Nat /\ \A k \in 1 .. a : log'[k] = log[k]
    BY <1>2, <1>3
  <2> QED
    BY <1>4, <1>7, <2>1, PrefixStateAt
<1>8. ASSUME NEW r \in Replica PROVE ReplicaInv(r, m, tso2)'
  <2>1. ReplicaInv(r, m, tso)
    BY DEF ShardInv
  <2>2. applied[r] \in 0 .. Len(log) /\ system[r].index \in 0 .. Len(log)
        /\ \A s \in exported[r] : s.index \in 0 .. Len(log)
    BY <1>2, <1>6, <2>1 DEF ReplicaInv
  <2>3. \/ system[r].index = 0
        \/ \E k \in 1 .. Len(log') : TruncAt(log', k) /\ system[r].index <= log'[k].n
    <3>1. \A k \in 1 .. Len(log) : k \in 1 .. Len(log')
      BY <1>2, <1>3
    <3> QED
      BY <1>3, <2>1, <3>1 DEF ReplicaInv, TruncAt
  <2> QED
    BY <1>2, <1>7, <2>1, <2>2, <2>3 DEF ReplicaInv
<1>9. ReaderInv(log', reader', m)
  BY Zenon, <1>2, <1>3, <1>6, PrefixReader DEF ShardInv
<1>10. Accepts(log', m) = Accepts(log, m)
  <2>1. ASSUME NEW i \in 1 .. m
        PROVE  log'[i] = log[i] /\ Held(log', i, log'[i].dn) = Held(log, i, log[i].dn)
    <3>1. i \in Nat /\ log'[i] = log[i] /\ \A k \in 1 .. i - 1 : log'[k] = log[k]
      BY <1>2, <1>3, <1>6
    <3> QED
      BY <3>1, PrefixHeld
  <2> QED
    BY <2>1 DEF Accepts, UserAt
<1>11. Grants(log', m, tso2) = Grants(log, m, tso)
  <2>1. ASSUME NEW i \in 1 .. m
        PROVE  log'[i] = log[i] /\ tso2[i - 1] = tso[i - 1]
    BY <1>2, <1>3, <1>4, <1>6
  <2> QED
    BY <2>1 DEF Grants
<1>12. ShardInv(m, tso2)'
  BY SMTT(60), <1>2, <1>3, <1>4, <1>5, <1>6, <1>8, <1>9, <1>10, <1>11 DEF ShardInv
<1> QED
  BY <1>12 DEF IInv

\* A replica a step leaves alone keeps its part of the invariant.
LEMMA SameReplica ==
  ASSUME NEW m \in Nat, NEW n \in Nat, m <= n, NEW tso, NEW q \in Replica, ReplicaInv(q, m, tso),
         log' = log, applied'[q] = applied[q], rsm'[q] = rsm[q], system'[q] = system[q],
         exported'[q] = exported[q]
  PROVE  ReplicaInv(q, n, tso)'
<1>1. applied[q] \in 0 .. n /\ \A s \in exported[q] : s.index \in 0 .. n
  BY DEF ReplicaInv
<1> QED
  BY <1>1 DEF ReplicaInv

\* Apply: what is accepted and granted is decided by the log.
LEMMA ApplyInv ==
  ASSUME NEW m, NEW tso, ShardInv(m, tso), NEW r \in Replica, Apply(r)
  PROVE  IInv'
<1> DEFINE i == applied[r] + 1
           e == log[i]
<1>1. /\ LogOK(log) /\ Sums(log, tso) /\ Len(log) \in Nat /\ Len(log) <= MaxLog /\ m \in 0 .. Len(log)
      /\ m \in Nat /\ ReplicaInv(r, m, tso) /\ applied[r] \in Nat /\ applied[r] <= m
      /\ applied \in [Replica -> Lsn] /\ rsm \in [Replica -> RSMState]
      /\ StateAt(log, rsm[r], applied[r], tso)
  BY SMTT(60) DEF ShardInv, LogOK, ReplicaInv
<1>2. /\ applied[r] < Len(log)
      /\ applied' = [applied EXCEPT ![r] = i]
      /\ rsm' = [rsm EXCEPT ![r] = Update(rsm[r], i, e)]
      /\ accepted' = IF e.tag = "UserEntryUpdate" /\ handleUserUpdate(rsm[r], e)
                     THEN accepted \union {[lsn |-> i, dn |-> e.dn]} ELSE accepted
      /\ granted' = IF e.tag = "TSOUpdate"
                    THEN granted \union {[lsn |-> i, value |-> rsm[r].Tso, n |-> e.n]}
                    ELSE granted
      /\ UNCHANGED <<log, system, exported, info, reader, left>>
  BY DEF Apply
<1>n. PICK n : n = IF i > m THEN i ELSE m
  OBVIOUS
<1>3. /\ i \in 1 .. Len(log) /\ i \in Nat /\ i <= m + 1 /\ n \in 0 .. Len(log) /\ n \in Nat
      /\ m <= n /\ i <= n /\ i \in Lsn /\ i - 1 = applied[r]
      /\ n = m \/ (n = m + 1 /\ i = n)
  BY SMTT(60), <1>1, <1>2, <1>n, RSMAssumption DEF Lsn
<1>4. StateAt(log, Update(rsm[r], i, e), i, tso)
  <2>1. applied[r] \in 0 .. Len(log) - 1
    BY SMTT(60), <1>1, <1>2
  <2> QED
    BY <1>1, <2>1, UpdateAt
<1>5. /\ applied'[r] = i /\ rsm'[r] = Update(rsm[r], i, e)
      /\ \A q \in Replica : q # r => applied'[q] = applied[q] /\ rsm'[q] = rsm[q]
  BY <1>1, <1>2
<1>6. rsm[r].LeaseHolderID = e.dn <=> Held(log, i, e.dn)
  <2>1. Held(log, i, rsm[r].LeaseHolderID)
    BY <1>1 DEF StateAt
  <2>2. i \in 1 .. Len(log) + 1
    BY <1>1, <1>3
  <2>3. Held(log, i, e.dn) => rsm[r].LeaseHolderID = e.dn
    BY <1>1, <2>1, <2>2, HeldOnce
  <2> QED
    BY <2>1, <2>3
<1>7. rsm[r].Tso = tso[i - 1]
  BY <1>1, <1>3 DEF StateAt
<1> HIDE DEF i
<1>8. ASSUME NEW q \in Replica PROVE ReplicaInv(q, n, tso)'
  <2>1. CASE q # r
    <3>1. ReplicaInv(q, m, tso)
      BY DEF ShardInv
    <3> QED
      BY <1>1, <1>2, <1>3, <1>5, <2>1, <3>1, SameReplica
  <2>2. CASE q = r
    <3>1. system[r].index \in 0 .. i /\ i \in 0 .. n
      BY SMTT(60), <1>1, <1>3 DEF ReplicaInv
    <3>2. \A s \in exported[r] : s.index \in 0 .. n
      BY <1>1, <1>3 DEF ReplicaInv
    <3> QED
      BY <1>1, <1>2, <1>4, <1>5, <2>2, <3>1, <3>2 DEF ReplicaInv
  <2> QED
    BY <2>1, <2>2
<1>9. accepted' = Accepts(log, n)
  <2>1. accepted = Accepts(log, m)
    BY DEF ShardInv
  <2>2. CASE n = m
    <3>1. i \in 1 .. m
      BY <1>1, <1>3, <2>2
    <3> QED
      BY <1>2, <1>6, <2>1, <2>2, <3>1 DEF Accepts, UserAt, handleUserUpdate
  <2>3. CASE n = m + 1 /\ i = n
    <3>1. 1 .. n = (1 .. m) \union {i}
      BY <1>1, <1>3, <2>3
    <3> QED
      BY <1>2, <1>6, <2>1, <3>1 DEF Accepts, UserAt, handleUserUpdate
  <2> QED
    BY <1>3, <2>2, <2>3
<1>10. granted' = Grants(log, n, tso)
  <2>1. granted = Grants(log, m, tso)
    BY DEF ShardInv
  <2>2. CASE n = m
    <3>1. i \in 1 .. m
      BY <1>1, <1>3, <2>2
    <3> QED
      BY <1>2, <1>7, <2>1, <2>2, <3>1 DEF Grants
  <2>3. CASE n = m + 1 /\ i = n
    <3>1. 1 .. n = (1 .. m) \union {i}
      BY <1>1, <1>3, <2>3
    <3> QED
      BY Zenon, <1>2, <1>7, <2>1, <3>1 DEF Grants
  <2> QED
    BY <1>3, <2>2, <2>3
<1>11. ReaderInv(log, reader, n)
  BY <1>1, <1>3, ReaderGrows DEF ShardInv
<1>12. applied' \in [Replica -> Lsn] /\ rsm' \in [Replica -> RSMState]
  <2>1. Update(rsm[r], i, e) \in RSMState
    BY <1>4 DEF StateAt
  <2> QED
    BY <1>1, <1>2, <1>3, <2>1
<1>13. ShardInv(n, tso)'
  BY <1>1, <1>2, <1>3, <1>8, <1>9, <1>10, <1>11, <1>12 DEF ShardInv
<1> QED
  BY <1>13 DEF IInv
=============================================================================
