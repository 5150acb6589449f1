--------------------------- MODULE LogShardReplay ---------------------------
(***************************************************************************)
(* The steps of a replay keep the invariant of LogShard.                    *)
(***************************************************************************)
EXTENDS LogShardSnapshots

\* A step of the reader alone.
LEMMA ReaderStep ==
  ASSUME NEW m, NEW tso, ShardInv(m, tso), ReaderInv(log, reader', m), left' \in Scenario,
         UNCHANGED <<log, applied, rsm, system, exported, info, accepted, granted>>
  PROVE  IInv'
<1>1. ASSUME NEW q \in Replica PROVE ReplicaInv(q, m, tso)'
  BY DEF ShardInv, ReplicaInv
<1>2. ShardInv(m, tso)'
  BY <1>1 DEF ShardInv
<1> QED
  BY <1>2 DEF IInv

\* What a linearizable read at a replica sees.
LEMMA ReadFacts ==
  ASSUME NEW m, NEW tso, ShardInv(m, tso), NEW r \in Replica, linearizable(r)
  PROVE  /\ LogOK(log) /\ log \in Seq(Entry) /\ Len(log) \in Nat /\ m = Len(log)
         /\ StateAt(log, rsm[r], Len(log), tso)
         /\ rsm[r].TruncatedLsn \in 0 .. Len(log)
         /\ \A k \in 1 .. Len(log) : TruncAt(log, k) => log[k].n \in Nat /\ log[k].n <= rsm[r].TruncatedLsn
         /\ rsm[r].Index \in 0 .. Len(log)
         /\ \A k \in rsm[r].Index + 1 .. Len(log) : log[k].tag = "Internal"
<1>1. LogOK(log) /\ log \in Seq(Entry) /\ Len(log) \in Nat /\ m \in 0 .. Len(log) /\ ReplicaInv(r, m, tso)
  BY DEF ShardInv, LogOK
<1>2. m = Len(log) /\ StateAt(log, rsm[r], Len(log), tso)
  BY <1>1 DEF ReplicaInv, linearizable
<1>3. rsm[r].TruncatedLsn \in Nat /\ rsm[r].Index \in Nat /\ rsm[r].Index <= Len(log)
      /\ Truncated(log, rsm[r].TruncatedLsn, Len(log))
      /\ \A k \in rsm[r].Index + 1 .. Len(log) : log[k].tag = "Internal"
  BY <1>2 DEF StateAt, RSMState, Lsn
<1>4. ASSUME NEW k \in 1 .. Len(log), TruncAt(log, k)
      PROVE  log[k].n \in Nat /\ log[k].n < Len(log) /\ log[k].n <= rsm[r].TruncatedLsn
  <2>1. log[k].n < k /\ log[k] \in Entry
    BY <1>1, <1>4 DEF LogOK
  <2>2. log[k].n \in Nat
    BY <2>1 DEF Entry
  <2>3. log[k].n <= rsm[r].TruncatedLsn
    BY <1>3, <1>4 DEF Truncated
  <2> QED
    BY <1>1, <2>1, <2>2, <2>3
<1>5. rsm[r].TruncatedLsn <= Len(log)
  BY <1>1, <1>3, <1>4 DEF Truncated
<1> QED
  BY <1>1, <1>2, <1>3, <1>4, <1>5

\* StartReplay
LEMMA StartReplayInv ==
  ASSUME NEW m, NEW tso, ShardInv(m, tso), NEW d \in DN, NEW r \in Replica, StartReplay(d, r)
  PROVE  IInv'
<1>1. /\ linearizable(r) /\ Spend("replays")
      /\ reader' = [NoReader EXCEPT !.pc = "query", !.dn = d, !.at = Len(log),
                      !.from = rsm[r].TruncatedLsn + 1, !.first = rsm[r].TruncatedLsn + 1]
      /\ UNCHANGED <<log, applied, rsm, system, exported, info, accepted, granted>>
  BY DEF StartReplay, replicaVars, history
<1>2. /\ LogOK(log) /\ Len(log) \in Nat /\ m = Len(log) /\ rsm[r].TruncatedLsn \in 0 .. Len(log)
      /\ \A k \in 1 .. Len(log) : TruncAt(log, k) => log[k].n \in Nat /\ log[k].n <= rsm[r].TruncatedLsn
  BY <1>1, ReadFacts
<1>3. rsm[r].TruncatedLsn + 1 \in Nat
  BY <1>2
<1>4. /\ reader' \in Reader /\ reader'.pc = "query" /\ reader'.dn = d /\ reader'.at = Len(log)
      /\ reader'.from = rsm[r].TruncatedLsn + 1 /\ reader'.first = rsm[r].TruncatedLsn + 1
      /\ reader'.records = {}
  BY Zenon, <1>1, <1>2, <1>3 DEF NoReader, Reader
<1>5. /\ reader'.from >= 1 /\ reader'.first >= 1 /\ reader'.first <= m + 1
      /\ \A k \in 1 .. reader'.at : TruncAt(log, k) => log[k].n < reader'.first
  BY <1>2, <1>4
<1>6. Covered(log, reader'.records, reader'.from, reader'.first - 1)
  <2>1. reader'.from .. reader'.first - 1 = {}
    BY <1>2, <1>4
  <2> QED
    BY <2>1 DEF Covered
<1>7. RecordsRight(log, reader'.records, m)
  BY <1>4 DEF RecordsRight
<1>8. ReaderInv(log, reader', m)
  BY <1>2, <1>4, <1>5, <1>6, <1>7 DEF ReaderInv
<1>9. left' \in Scenario
  BY <1>1, SpendScenario DEF ShardInv
<1> QED
  BY <1>1, <1>8, <1>9, ReaderStep

\* queryLog: what is beyond the index is internal, and the end of a chunk is known.
LEMMA QueryInv ==
  ASSUME NEW m, NEW tso, ShardInv(m, tso), NEW r \in Replica, queryLog(r)
  PROVE  IInv'
<1>1. /\ reader.pc = "query" /\ linearizable(r)
      /\ \/ /\ reader.first > rsm[r].Index
            /\ reader' = [reader EXCEPT !.pc = "done"]
         \/ \E high \in reader.first .. rsm[r].Index :
              reader' = [reader EXCEPT !.pc = "mark", !.replica = r, !.high = high,
                           !.next = getNextIndex(reader.first, high, Len(log) + 1)]
      /\ UNCHANGED <<log, applied, rsm, system, exported, info, accepted, granted, left>>
  BY Zenon DEF queryLog, replicaVars, history
<1>2. /\ Len(log) \in Nat /\ m = Len(log) /\ rsm[r].Index \in 0 .. Len(log)
      /\ \A k \in rsm[r].Index + 1 .. Len(log) : log[k].tag = "Internal"
  BY Zenon, <1>1, ReadFacts
<1>3. ReaderInv(log, reader, m) /\ reader \in Reader
  BY DEF ShardInv, ReaderInv
<1>4. /\ reader.at \in Nat /\ reader.at <= m /\ reader.first \in Nat /\ reader.from \in Nat
      /\ reader.from >= 1 /\ reader.first >= 1 /\ reader.first <= m + 1
      /\ reader.dn \in DN
      /\ \A k \in 1 .. reader.at : TruncAt(log, k) => log[k].n < reader.first
      /\ Covered(log, reader.records, reader.from, reader.first - 1)
      /\ RecordsRight(log, reader.records, m)
  BY Zenon, <1>1, <1>3 DEF ReaderInv, Reader
<1>5. ReaderInv(log, reader', m)
  <2>1. CASE reader.first > rsm[r].Index /\ reader' = [reader EXCEPT !.pc = "done"]
    <3>1. /\ reader' \in Reader /\ reader'.pc = "done" /\ reader'.dn = reader.dn
          /\ reader'.at = reader.at /\ reader'.from = reader.from
          /\ reader'.records = reader.records
      BY <1>3, <2>1 DEF Reader
    <3>2. Covered(log, reader.records, reader.from, reader.at)
      <4>1. ASSUME NEW i \in reader.from .. reader.at, UserAt(log, i)
            PROVE  i \in reader.from .. reader.first - 1
        <5>1. CASE i < reader.first
          BY <1>4, <5>1
        <5>2. CASE ~(i < reader.first)
          <6>1. i \in rsm[r].Index + 1 .. Len(log)
            BY <1>2, <1>4, <2>1, <5>2
          <6> QED
            BY <1>2, <4>1, <6>1 DEF UserAt
        <5> QED
          BY <5>1, <5>2
      <4> QED
        BY <1>4, <4>1 DEF Covered
    <3> QED
      BY <1>4, <3>1, <3>2 DEF ReaderInv
  <2>2. ASSUME NEW high \in reader.first .. rsm[r].Index,
               reader' = [reader EXCEPT !.pc = "mark", !.replica = r, !.high = high,
                            !.next = getNextIndex(reader.first, high, Len(log) + 1)]
        PROVE  ReaderInv(log, reader', m)
    <3> DEFINE next == getNextIndex(reader.first, high, Len(log) + 1)
    <3>1. high \in Nat /\ high \in reader.first .. m
      BY <1>2, <1>4
    <3>2. next = high + 1 \/ (next = reader.first /\ reader.at <= high)
      BY <1>2, <1>4, <3>1 DEF getNextIndex
    <3>3. next \in Nat
      BY <1>4, <3>1, <3>2
    <3> HIDE DEF next
    <3>4. /\ reader' \in Reader /\ reader'.pc = "mark" /\ reader'.dn = reader.dn
          /\ reader'.at = reader.at /\ reader'.from = reader.from /\ reader'.first = reader.first
          /\ reader'.records = reader.records /\ reader'.high = high /\ reader'.next = next
      BY Zenon, <1>3, <2>2, <3>1, <3>3 DEF Reader, next
    <3> QED
      BY <1>4, <3>1, <3>2, <3>4 DEF ReaderInv
  <2> QED
    BY Zenon, <1>1, <2>1, <2>2
<1>6. left' \in Scenario
  BY Zenon, <1>1 DEF ShardInv
<1> QED
  BY Zenon, <1>1, <1>5, <1>6, ReaderStep

\* queryLogOutOfRange: the truncation that covers the snapshot is a later one.
LEMMA OutOfRangeInv ==
  ASSUME NEW m, NEW tso, ShardInv(m, tso), NEW r \in Replica, queryLogOutOfRange(r)
  PROVE  IInv'
<1>1. /\ reader.pc = "query" /\ linearizable(r) /\ reader.first <= system[r].index
      /\ reader' = [reader EXCEPT !.pc = "failed"]
      /\ UNCHANGED <<log, applied, rsm, system, exported, info, accepted, granted, left>>
  BY DEF queryLogOutOfRange, replicaVars, history
<1>2. /\ Len(log) \in Nat /\ m = Len(log)
      /\ \A k \in 1 .. Len(log) : TruncAt(log, k) => log[k].n \in Nat
  BY <1>1, ReadFacts
<1>3. ReaderInv(log, reader, m) /\ reader \in Reader /\ ReplicaInv(r, m, tso)
  BY DEF ShardInv, ReaderInv
<1>4. /\ reader.at \in Nat /\ reader.at <= m /\ reader.first \in Nat /\ reader.first >= 1
      /\ reader.dn \in DN
      /\ \A k \in 1 .. reader.at : TruncAt(log, k) => log[k].n < reader.first
      /\ RecordsRight(log, reader.records, m)
  BY <1>1, <1>3 DEF ReaderInv, Reader
<1>5. /\ reader' \in Reader /\ reader'.pc = "failed" /\ reader'.dn = reader.dn
      /\ reader'.at = reader.at /\ reader'.first = reader.first
      /\ reader'.records = reader.records
  BY <1>1, <1>3 DEF Reader
<1>6. system[r].index \in Nat /\ system[r].index # 0
  BY <1>1, <1>3, <1>4 DEF ReplicaInv
<1>7. PICK k \in 1 .. Len(log) : TruncAt(log, k) /\ system[r].index <= log[k].n
  BY <1>3, <1>6 DEF ReplicaInv
<1>8. log[k].n >= reader.first /\ k \in reader.at + 1 .. Len(log)
  BY <1>1, <1>2, <1>4, <1>6, <1>7
<1>9. ReaderInv(log, reader', m)
  BY <1>4, <1>5, <1>7, <1>8 DEF ReaderInv
<1>10. left' \in Scenario
  BY <1>1 DEF ShardInv
<1> QED
  BY <1>1, <1>9, <1>10, ReaderStep

\* markLog: the chunk is marked as the state machine decided.
LEMMA MarkInv ==
  ASSUME NEW m, NEW tso, ShardInv(m, tso), NEW r \in Replica, markLog(r)
  PROVE  IInv'
<1> DEFINE first == reader.first
           holder == getLeaseHolderID(r, first)
           new == markEntries(log, first, reader.high, holder)
           I == {j \in first .. reader.high : log[j].tag \notin {"TruncateLSNUpdate", "TSOUpdate"}}
<1>1. /\ reader.pc = "mark" /\ linearizable(r)
      /\ reader' = [reader EXCEPT
           !.pc = IF reader.next = reader.first THEN "done" ELSE "query",
           !.first = reader.next,
           !.records = reader.records \union new]
      /\ UNCHANGED <<log, applied, rsm, system, exported, info, accepted, granted, left>>
  BY DEF markLog, replicaVars, history
<1>2. /\ LogOK(log) /\ log \in Seq(Entry) /\ Len(log) \in Nat /\ m = Len(log)
      /\ StateAt(log, rsm[r], Len(log), tso) /\ rsm[r].TruncatedLsn \in Nat
      /\ \A k \in 1 .. Len(log) : TruncAt(log, k) => log[k].n \in Nat
  BY <1>1, ReadFacts
<1>3. ReaderInv(log, reader, m) /\ reader \in Reader
  BY DEF ShardInv, ReaderInv
<1>4. /\ reader.at \in Nat /\ reader.at <= m /\ first \in Nat /\ reader.from \in Nat
      /\ reader.from >= 1 /\ first >= 1 /\ first <= m + 1 /\ reader.dn \in DN
      /\ \A k \in 1 .. reader.at : TruncAt(log, k) => log[k].n < first
      /\ Covered(log, reader.records, reader.from, first - 1)
      /\ RecordsRight(log, reader.records, m)
      /\ reader.high \in Nat /\ first <= reader.high /\ reader.high <= m /\ reader.next \in Nat
      /\ reader.next = reader.high + 1 \/ (reader.next = first /\ reader.at <= reader.high)
  BY <1>1, <1>3 DEF ReaderInv, Reader
<1>5. holder = IF LeaseAt(log, first) THEN log[first].dn
               ELSE getLeaseHistory(rsm[r].LeaseHistory, first)
  BY DEF getLeaseHolderID, LeaseAt
<1>6. new = {[Lsn |-> i, Type |-> recordType(log, first, holder, i)] : i \in I}
  BY DEF markEntries
<1> HIDE DEF holder
<1>7. ASSUME NEW i \in first .. reader.high, UserAt(log, i), Untruncated(log, i)
      PROVE  recordType(log, first, holder, i) = "UserRecord" <=> Held(log, i, log[i].dn)
  <2>1. rsm[r].TruncatedLsn <= i
    <3>1. Truncated(log, rsm[r].TruncatedLsn, Len(log))
      BY <1>2 DEF StateAt
    <3> QED
      BY <1>2, <1>4, <1>7, <3>1 DEF Truncated, Untruncated
  <2>2. first \in 1 .. Len(log) /\ i \in first .. Len(log)
    BY <1>2, <1>4
  <2> QED
    BY <1>2, <1>5, <1>7, <2>1, <2>2, MarkRight
<1>8. ASSUME NEW i \in I
      PROVE  recordType(log, first, holder, i) \in {"Internal", "LeaseUpdate", "UserRecord", "LeaseRejected"}
  <2>1. log[i] \in Entry
    BY <1>2, <1>4
  <2>2. log[i].tag \in {"Internal", "LeaseHolderIDUpdate", "UserEntryUpdate"}
    BY <2>1 DEF Entry, Tag
  <2> QED
    BY <2>2 DEF recordType
<1>9. new \in SUBSET [Lsn: Nat, Type: {"Internal", "LeaseUpdate", "UserRecord", "LeaseRejected"}]
  BY <1>4, <1>6, <1>8
<1>10. RecordsRight(log, new, m)
  <2> SUFFICES ASSUME NEW rec \in new
               PROVE  /\ rec.Lsn \in 1 .. m
                      /\ UserAt(log, rec.Lsn) /\ Untruncated(log, rec.Lsn) =>
                           (rec.Type = "UserRecord" <=> Held(log, rec.Lsn, log[rec.Lsn].dn))
    BY DEF RecordsRight
  <2>1. PICK i \in I : rec = [Lsn |-> i, Type |-> recordType(log, first, holder, i)]
    BY <1>6
  <2>2. rec.Lsn = i /\ rec.Type = recordType(log, first, holder, i) /\ i \in first .. reader.high
    BY <2>1
  <2>3. i \in 1 .. m
    BY <1>2, <1>4, <2>2
  <2> QED
    BY <1>7, <2>2, <2>3
<1>11. Covered(log, new, first, reader.high)
  <2> SUFFICES ASSUME NEW i \in first .. reader.high,
                      UserAt(log, i), Held(log, i, log[i].dn), Untruncated(log, i)
               PROVE  [Lsn |-> i, Type |-> "UserRecord"] \in new
    BY DEF Covered
  <2>1. i \in I
    BY DEF UserAt
  <2>2. recordType(log, first, holder, i) = "UserRecord"
    BY <1>7
  <2> QED
    BY <1>6, <2>1, <2>2
<1> HIDE DEF new, I
<1> DEFINE records == reader.records \union new
<1>12. RecordsRight(log, records, m)
  BY <1>4, <1>10 DEF RecordsRight
<1>13. Covered(log, records, reader.from, reader.high)
  <2>1. \A i \in reader.from .. reader.high : i \in reader.from .. first - 1 \/ i \in first .. reader.high
    BY <1>4
  <2> QED
    BY <1>4, <1>11, <2>1 DEF Covered
<1>14. /\ reader' \in Reader /\ reader'.pc = (IF reader.next = first THEN "done" ELSE "query")
       /\ reader'.dn = reader.dn /\ reader'.at = reader.at /\ reader'.from = reader.from
       /\ reader'.first = reader.next /\ reader'.records = records
  <2>1. records \in SUBSET [Lsn: Nat, Type: {"Internal", "LeaseUpdate", "UserRecord", "LeaseRejected"}]
    BY <1>3, <1>9 DEF Reader
  <2> QED
    BY Zenon, <1>1, <1>3, <1>4, <2>1 DEF Reader
<1> HIDE DEF records
<1>15. ReaderInv(log, reader', m)
  <2>1. CASE reader.next = first
    <3>1. Covered(log, records, reader.from, reader.at)
      BY <1>4, <1>13, <2>1 DEF Covered
    <3> QED
      BY <1>4, <1>12, <1>14, <2>1, <3>1 DEF ReaderInv
  <2>2. CASE reader.next # first
    <3>1. reader.next = reader.high + 1 /\ reader.next >= 1 /\ reader.next <= m + 1
          /\ reader.next - 1 = reader.high /\ first <= reader.next
      <4>1. reader.next = reader.high + 1
        BY <1>4, <2>2
      <4>2. m \in Nat /\ first \in Nat /\ reader.high \in Nat /\ first <= reader.high /\ reader.high <= m
        BY <1>2, <1>4
      <4> HIDE DEF first
      <4> QED
        BY <4>1, <4>2
    <3>2. ASSUME NEW k \in 1 .. reader.at, TruncAt(log, k) PROVE log[k].n < reader.next
      <4>1. log[k].n \in Nat /\ log[k].n < first
        BY <1>2, <1>4, <3>2
      <4> QED
        BY <1>4, <3>1, <4>1
    <3> QED
      BY <1>4, <1>12, <1>13, <1>14, <2>2, <3>1, <3>2 DEF ReaderInv
  <2> QED
    BY <2>1, <2>2
<1>16. left' \in Scenario
  BY <1>1 DEF ShardInv
<1> QED
  BY <1>1, <1>15, <1>16, ReaderStep
=============================================================================
