---------------------------- MODULE LogRSMProofs ----------------------------
(***************************************************************************)
(* What belongs to a prefix of the log of a shard (StateAt), and that the   *)
(* operations of the state machine in LogRSM keep it: Update, decoding a    *)
(* snapshot, cutting the lease history, and marking the entries of a read.  *)
(***************************************************************************)
EXTENDS LogRSM, TLAPS, WellFoundedInduction

LeaseAt(l, k) == l[k].tag = "LeaseHolderIDUpdate"
TruncAt(l, k) == l[k].tag = "TruncateLSNUpdate"
UserAt(l, k) == l[k].tag = "UserEntryUpdate"

\* HeldBefore for a log that is given.
Held(l, i, d) ==
  IF d = NoDN THEN \A j \in 1 .. i - 1 : ~LeaseAt(l, j)
  ELSE \E j \in 1 .. i - 1 : /\ LeaseAt(l, j) /\ l[j].dn = d
                             /\ \A k \in j + 1 .. i - 1 : ~LeaseAt(l, k)

\* A lease names a DN, and a truncation is below its own place in the log.
LogOK(l) ==
  /\ l \in Seq(Entry)
  /\ Len(l) <= MaxLog
  /\ \A k \in 1 .. Len(l) : /\ LeaseAt(l, k) => l[k].dn \in DN
                            /\ TruncAt(l, k) => l[k].n < k

\* tso[i] is the timestamp counter after i entries.
Sums(l, tso) ==
  /\ tso \in [0 .. Len(l) -> Nat]
  /\ tso[0] = 1
  /\ \A i \in 1 .. Len(l) :
       tso[i] = IF l[i].tag = "TSOUpdate" THEN tso[i - 1] + l[i].n ELSE tso[i - 1]
  /\ \A i, j \in 0 .. Len(l) : i <= j => tso[i] <= tso[j]

\* v is the largest truncation among the first a entries.
Truncated(l, v, a) ==
  /\ \A k \in 1 .. a : TruncAt(l, k) => l[k].n <= v
  /\ v = 0 \/ \E k \in 1 .. a : TruncAt(l, k) /\ l[k].n = v

\* h has the leases of the first a entries, but for those with a later one below v.
Kept(l, h, v, a) ==
  /\ \A i \in DOMAIN h : i \in 1 .. a /\ LeaseAt(l, i) /\ h[i] = l[i].dn
  /\ \A i \in 1 .. a : LeaseAt(l, i) =>
       i \in DOMAIN h \/ \E k \in DOMAIN h : i < k /\ k < v

\* st belongs to the first a entries of the log.
StateAt(l, st, a, tso) ==
  /\ st \in RSMState
  /\ st.Index <= a
  /\ \A k \in st.Index + 1 .. a : l[k].tag = "Internal"
  /\ Held(l, a + 1, st.LeaseHolderID)
  /\ Truncated(l, st.TruncatedLsn, a)
  /\ Kept(l, st.LeaseHistory, st.TruncatedLsn, a)
  /\ st.Tso = tso[a]
-----------------------------------------------------------------------------
\* A set of numbers that has a bound has a largest element, which Max returns.
LEMMA MaxOfBounded ==
  ASSUME NEW S \in SUBSET Nat, S # {}, NEW b \in Nat, \A x \in S : x <= b
  PROVE  /\ Max(S) \in S
         /\ \A x \in S : x <= Max(S)
<1> DEFINE T == {u \in Nat : \A x \in S : x <= u}
<1>1. b \in T
  OBVIOUS
<1>2. PICK m \in T : \A y \in T : ~(<<y, m>> \in OpToRel(<, Nat))
  BY <1>1, NatLessThanWellFounded, WFMin
<1>3. \A y \in T : ~(y < m)
  BY Zenon, <1>2 DEF OpToRel
<1>4. m \in S
  <2> SUFFICES ASSUME m \notin S PROVE FALSE
    OBVIOUS
  <2>1. m \in Nat /\ \A x \in S : x < m
    OBVIOUS
  <2>2. PICK x \in S : x \in Nat /\ x < m
    BY Zenon, <2>1
  <2>3. m - 1 \in T
    BY <2>1, <2>2
  <2> QED
    BY <2>3, <2>1, <1>3
<1>5. \A x \in S : m >= x
  OBVIOUS
<1>6. \E x \in S : \A y \in S : x >= y
  BY <1>4, <1>5
<1>7. Max(S) \in S /\ \A y \in S : Max(S) >= y
  BY Zenon, <1>6 DEF Max
<1> QED
  BY <1>7

\* What leaseIndex returns: rsm.go's loop over the keys of the lease history.
LEMMA LeaseIndexFacts ==
  ASSUME NEW h, DOMAIN h \subseteq Lsn, NEW lsn \in Nat
  PROVE  /\ leaseIndex(h, lsn) \in Nat
         /\ leaseIndex(h, lsn) # 0 => leaseIndex(h, lsn) \in DOMAIN h /\ leaseIndex(h, lsn) < lsn
         /\ \A key \in DOMAIN h : key < lsn => key <= leaseIndex(h, lsn)
<1> DEFINE S == {0} \union {key \in DOMAIN h : key < lsn}
<1>1. S \in SUBSET Nat /\ S # {} /\ \A x \in S : x <= lsn
  BY DEF Lsn
<1>2. Max(S) \in S /\ \A x \in S : x <= Max(S)
  BY Zenon, <1>1, MaxOfBounded
<1>3. leaseIndex(h, lsn) = Max(S)
  BY DEF leaseIndex
<1> HIDE DEF S
<1>4. Max(S) \in Nat
  BY Zenon, <1>1, <1>2
<1> QED
  BY Zenon, <1>2, <1>3, <1>4 DEF S

\* The type of a lease history, by its domain.
LEMMA HistoryType ==
  ASSUME NEW h
  PROVE  h \in UNION {[S -> DN] : S \in SUBSET Lsn} <=>
         DOMAIN h \subseteq Lsn /\ h \in [DOMAIN h -> DN]
  OBVIOUS

\* At most one DN holds the lease before an entry.
LEMMA HeldOnce ==
  ASSUME NEW l, LogOK(l), NEW i \in 1 .. Len(l) + 1,
         NEW c, NEW d, Held(l, i, c), Held(l, i, d)
  PROVE  c = d
<1>1. ASSUME NEW j \in 1 .. i - 1, LeaseAt(l, j) PROVE l[j].dn # NoDN
  BY <1>1, RSMAssumption DEF LogOK
<1>2. CASE c = NoDN \/ d = NoDN
  BY <1>1, <1>2 DEF Held
<1>3. CASE c # NoDN /\ d # NoDN
  <2>1. PICK j \in 1 .. i - 1 : LeaseAt(l, j) /\ l[j].dn = c /\ \A k \in j + 1 .. i - 1 : ~LeaseAt(l, k)
    BY <1>3 DEF Held
  <2>2. PICK k \in 1 .. i - 1 : LeaseAt(l, k) /\ l[k].dn = d /\ \A n \in k + 1 .. i - 1 : ~LeaseAt(l, n)
    BY <1>3 DEF Held
  <2>3. j = k
    BY <2>1, <2>2
  <2> QED
    BY <2>1, <2>2, <2>3
<1> QED
  BY <1>2, <1>3

-----------------------------------------------------------------------------
\* The state a replica begins with belongs to the empty prefix.
LEMMA InitialAt ==
  ASSUME NEW l, NEW tso, Sums(l, tso)
  PROVE  StateAt(l, newStateMachine, 0, tso)
<1>1. newStateMachine \in RSMState
  <2>1. [i \in {} |-> NoDN] \in UNION {[S -> DN] : S \in SUBSET Lsn}
    BY SMTT(30), HistoryType
  <2> QED
    BY <2>1, RSMAssumption DEF newStateMachine, RSMState, Lsn
<1>2. /\ newStateMachine.Index = 0
      /\ newStateMachine.LeaseHolderID = NoDN
      /\ newStateMachine.TruncatedLsn = 0
      /\ newStateMachine.Tso = 1
      /\ DOMAIN newStateMachine.LeaseHistory = {}
  BY DEF newStateMachine
<1> QED
  BY <1>1, <1>2 DEF StateAt, Held, Truncated, Kept, Sums

\* Entries that are added do not change what belongs to a prefix.
LEMMA PrefixStateAt ==
  ASSUME NEW l, NEW l2, NEW tso, NEW tso2, NEW st, NEW a \in Nat,
         StateAt(l, st, a, tso),
         \A k \in 1 .. a : l2[k] = l[k],
         tso2[a] = tso[a]
  PROVE  StateAt(l2, st, a, tso2)
<1>1. st.Index \in Nat
  BY DEF StateAt, RSMState, Lsn
<1>2. \A k \in st.Index + 1 .. a : l2[k].tag = "Internal"
  BY <1>1 DEF StateAt
<1>3. Held(l2, a + 1, st.LeaseHolderID)
  BY DEF StateAt, Held, LeaseAt
<1>4. Truncated(l2, st.TruncatedLsn, a)
  BY DEF StateAt, Truncated, TruncAt
<1>5. Kept(l2, st.LeaseHistory, st.TruncatedLsn, a)
  BY DEF StateAt, Kept, LeaseAt
<1> QED
  BY <1>2, <1>3, <1>4, <1>5 DEF StateAt

(***************************************************************************)
(* Applying the next entry: Update in rsm.go, with the lease history cut    *)
(* by a truncation.                                                         *)
(***************************************************************************)
LEMMA UpdateAt ==
  ASSUME NEW l, LogOK(l), NEW tso, Sums(l, tso), NEW st, NEW a \in 0 .. Len(l) - 1,
         StateAt(l, st, a, tso)
  PROVE  StateAt(l, Update(st, a + 1, l[a + 1]), a + 1, tso)
<1> DEFINE i == a + 1
           e == l[i]
           at == [st EXCEPT !.Index = i]
           h == st.LeaseHistory
           v == st.TruncatedLsn
<1>0. a \in Nat /\ Len(l) \in Nat /\ Len(l) <= MaxLog /\ l \in Seq(Entry)
  BY DEF LogOK
<1>1. /\ i \in 1 .. Len(l) /\ i \in Nat /\ i \in Lsn /\ a = i - 1 /\ i + 1 - 1 = i
      /\ e.tag \in Tag /\ e.n \in Nat
  <2>1. i \in 1 .. Len(l) /\ i \in Nat /\ i \in Lsn /\ a = i - 1 /\ i + 1 - 1 = i
    BY <1>0, RSMAssumption DEF Lsn
  <2>2. l[i] \in Entry
    BY <1>0, <2>1
  <2> QED
    BY <2>1, <2>2 DEF Entry
<1>2. /\ st \in RSMState /\ at \in RSMState /\ at.Index = i
      /\ at.LeaseHolderID = st.LeaseHolderID /\ at.TruncatedLsn = v
      /\ at.LeaseHistory = h /\ at.Tso = st.Tso
  BY Zenon, <1>1 DEF StateAt, RSMState
<1>3. /\ st.Index \in Nat /\ v \in Nat /\ st.Tso \in Nat /\ st.Index <= a
      /\ DOMAIN h \subseteq Lsn /\ h \in [DOMAIN h -> DN]
  BY HistoryType DEF StateAt, RSMState, Lsn
<1>4. Held(l, i, st.LeaseHolderID) /\ Truncated(l, v, a) /\ Kept(l, h, v, a) /\ st.Tso = tso[a]
      /\ \A k \in st.Index + 1 .. a : l[k].tag = "Internal"
  BY DEF StateAt
<1>5. tso[i] = IF e.tag = "TSOUpdate" THEN tso[a] + e.n ELSE tso[a]
  BY <1>1 DEF Sums
<1> SUFFICES StateAt(l, Update(st, i, e), i, tso)
  OBVIOUS
<1> HIDE DEF i
<1>6. ASSUME ~LeaseAt(l, i) PROVE Held(l, i + 1, st.LeaseHolderID)
  <2>1. \A j \in 1 .. i : j = i \/ j \in 1 .. i - 1
    BY <1>1
  <2> QED
    BY <1>1, <1>4, <1>6, <2>1 DEF Held
<1>7. ~TruncAt(l, i) => Truncated(l, v, i)
  BY <1>1, <1>4 DEF Truncated
<1>8. ~LeaseAt(l, i) => Kept(l, h, v, i)
  BY <1>1, <1>4 DEF Kept
<1>a. ASSUME NEW new \in RSMState, new.Index = i, Held(l, i + 1, new.LeaseHolderID),
             Truncated(l, new.TruncatedLsn, i),
             Kept(l, new.LeaseHistory, new.TruncatedLsn, i), new.Tso = tso[i]
      PROVE  StateAt(l, new, i, tso)
  <2>1. \A k \in i + 1 .. i : l[k].tag = "Internal"
    BY <1>1
  <2> QED
    BY <1>1, <1>a, <2>1 DEF StateAt
<1>9. CASE e.tag = "Internal"
  <2>1. Update(st, i, e) = st
    BY <1>9 DEF Update
  <2>2. \A k \in st.Index + 1 .. i : l[k].tag = "Internal"
    BY <1>1, <1>3, <1>4, <1>9
  <2>3. ~LeaseAt(l, i) /\ ~TruncAt(l, i)
    BY <1>9 DEF LeaseAt, TruncAt
  <2> QED
    BY SMTT(30), <1>1, <1>2, <1>3, <1>4, <1>5, <1>6, <1>7, <1>8, <1>9, <2>1, <2>2, <2>3 DEF StateAt
<1>10. CASE e.tag = "UserEntryUpdate"
  <2>1. Update(st, i, e) = at
    BY <1>10 DEF Update
  <2>2. ~LeaseAt(l, i) /\ ~TruncAt(l, i)
    BY <1>10 DEF LeaseAt, TruncAt
  <2>3. Held(l, i + 1, st.LeaseHolderID) /\ Truncated(l, v, i) /\ Kept(l, h, v, i)
    BY <1>6, <1>7, <1>8, <2>2
  <2>4. at.Tso = tso[i]
    BY <1>2, <1>4, <1>5, <1>10
  <2> QED
    BY Zenon, <1>2, <1>a, <2>1, <2>3, <2>4
<1>11. CASE e.tag = "TSOUpdate"
  <2> DEFINE new == [at EXCEPT !.Tso = @ + e.n]
  <2>1. Update(st, i, e) = new
    BY <1>11 DEF Update, handleTsoUpdate
  <2>2. ~LeaseAt(l, i) /\ ~TruncAt(l, i)
    BY <1>11 DEF LeaseAt, TruncAt
  <2>3. /\ new \in RSMState /\ new.Index = i /\ new.LeaseHolderID = st.LeaseHolderID
        /\ new.TruncatedLsn = v /\ new.LeaseHistory = h /\ new.Tso = st.Tso + e.n
    <3>1. at.Tso + e.n \in Nat
      BY SMTT(30), <1>1, <1>2, <1>3
    <3> QED
      BY Zenon, <1>2, <3>1 DEF RSMState
  <2>4. Held(l, i + 1, st.LeaseHolderID) /\ Truncated(l, v, i) /\ Kept(l, h, v, i)
    BY <1>6, <1>7, <1>8, <2>2
  <2>5. new.Tso = tso[i]
    BY <1>4, <1>5, <1>11, <2>3
  <2> HIDE DEF new
  <2> QED
    BY <1>a, <2>1, <2>3, <2>4, <2>5
<1>12. CASE e.tag = "LeaseHolderIDUpdate"
  <2> DEFINE h2 == [key \in DOMAIN h \union {i} |-> IF key = i THEN e.dn ELSE h[key]]
             new == [at EXCEPT !.LeaseHolderID = e.dn, !.LeaseHistory = h2]
  <2>1. Update(st, i, e) = new
    BY <1>2, <1>12 DEF Update, handleSetLeaseHolderID
  <2>2. LeaseAt(l, i) /\ ~TruncAt(l, i) /\ e.dn \in DN /\ e.dn # NoDN
    BY <1>1, <1>12, RSMAssumption DEF LeaseAt, TruncAt, LogOK
  <2>3. h2 \in UNION {[S -> DN] : S \in SUBSET Lsn}
    <3>1. DOMAIN h2 \subseteq Lsn /\ h2 \in [DOMAIN h2 -> DN]
      BY <1>1, <1>3, <2>2
    <3> QED
      BY Zenon, <3>1, HistoryType
  <2>4. /\ new \in RSMState /\ new.Index = i /\ new.LeaseHolderID = e.dn
        /\ new.TruncatedLsn = v /\ new.LeaseHistory = h2 /\ new.Tso = st.Tso
    BY Zenon, <1>2, <2>2, <2>3 DEF RSMState
  <2>5. Held(l, i + 1, e.dn)
    BY <1>1, <2>2 DEF Held
  <2>6. Kept(l, h2, v, i)
    BY <1>1, <1>4, <2>2 DEF Kept
  <2> HIDE DEF h2, new
  <2> QED
    BY <1>4, <1>5, <1>7, <1>12, <1>a, <2>1, <2>2, <2>4, <2>5, <2>6
<1>13. CASE e.tag = "TruncateLSNUpdate"
  <2>1. ~LeaseAt(l, i) /\ TruncAt(l, i) /\ e.n < i /\ e.n \in Lsn
    <3>1. ~LeaseAt(l, i) /\ TruncAt(l, i)
      BY <1>13 DEF LeaseAt, TruncAt
    <3>2. e.n < i
      BY <1>1, <3>1 DEF LogOK
    <3> QED
      BY <1>0, <1>1, <3>1, <3>2, RSMAssumption DEF Lsn
  <2>2. CASE ~(e.n > v)
    <3>1. Update(st, i, e) = at
      BY <1>2, <1>13, <2>2 DEF Update, handleTruncateLsn
    <3>2. Truncated(l, v, i)
      BY <1>1, <1>3, <1>4, <2>1, <2>2 DEF Truncated
    <3>3. Held(l, i + 1, st.LeaseHolderID) /\ Kept(l, h, v, i)
      BY <1>6, <1>8, <2>1
    <3>4. at.Tso = tso[i]
      BY <1>2, <1>4, <1>5, <1>13
    <3> QED
      BY Zenon, <1>2, <1>a, <3>1, <3>2, <3>3, <3>4
  <2>3. CASE e.n > v
    <3> DEFINE m == leaseIndex(h, e.n)
               h2 == [key \in {k \in DOMAIN h : k >= m} |-> h[key]]
               new == [at EXCEPT !.TruncatedLsn = e.n, !.LeaseHistory = h2]
    <3>1. Update(st, i, e) = new
      BY <1>2, <1>13, <2>3 DEF Update, handleTruncateLsn, truncateLeaseHistory
    <3>2. /\ m \in Nat
          /\ m # 0 => m \in DOMAIN h /\ m < e.n
          /\ \A key \in DOMAIN h : key < e.n => key <= m
      BY Zenon, <1>1, <1>3, LeaseIndexFacts
    <3> HIDE DEF m
    <3>3. h2 \in UNION {[S -> DN] : S \in SUBSET Lsn}
      <4>1. DOMAIN h2 \subseteq Lsn /\ h2 \in [DOMAIN h2 -> DN]
        BY <1>3
      <4> QED
        BY Zenon, <4>1, HistoryType
    <3>4. /\ new \in RSMState /\ new.Index = i /\ new.LeaseHolderID = st.LeaseHolderID
          /\ new.TruncatedLsn = e.n /\ new.LeaseHistory = h2 /\ new.Tso = st.Tso
      BY Zenon, <1>2, <2>1, <3>3 DEF RSMState
    <3>5. Truncated(l, e.n, i)
      <4>1. ASSUME NEW k \in 1 .. a PROVE l[k].n \in Nat
        <5>1. k \in 1 .. Len(l)
          BY <1>0, <1>1
        <5>2. l[k] \in Entry
          BY <1>0, <5>1
        <5> QED
          BY <5>2 DEF Entry
      <4>2. \A k \in 1 .. i : TruncAt(l, k) => l[k].n <= e.n
        BY SMTT(30), <1>1, <1>3, <1>4, <2>3, <4>1 DEF Truncated
      <4> QED
        BY <1>1, <2>1, <4>2 DEF Truncated
    <3>6. Kept(l, h2, e.n, i)
      <4>1. \A k \in DOMAIN h2 : k \in 1 .. i /\ LeaseAt(l, k) /\ h2[k] = l[k].dn
        BY <1>1, <1>4 DEF Kept
      <4>2. ASSUME NEW k \in 1 .. i, LeaseAt(l, k), k \notin DOMAIN h2
            PROVE  \E j \in DOMAIN h2 : k < j /\ j < e.n
        <5>1. k \in 1 .. a
          BY <1>1, <2>1, <4>2
        <5>2. CASE k \in DOMAIN h
          <6>1. k < m /\ m \in DOMAIN h2 /\ m < e.n
            BY <3>2, <4>2, <5>1, <5>2
          <6> QED
            BY <6>1
        <5>3. CASE k \notin DOMAIN h
          <6>1. PICK j \in DOMAIN h : k < j /\ j < v
            BY <1>4, <4>2, <5>1, <5>3 DEF Kept
          <6>2. j \in Nat /\ j < e.n /\ j <= m
            BY SMTT(30), <1>1, <1>3, <2>3, <3>2, <6>1 DEF Lsn
          <6>3. m \in DOMAIN h2 /\ k < m /\ m < e.n
            BY <3>2, <5>1, <6>1, <6>2
          <6> QED
            BY <6>3
        <5> QED
          BY <5>2, <5>3
      <4> QED
        BY Zenon, <4>1, <4>2 DEF Kept
    <3> HIDE DEF h2, new
    <3> QED
      BY SMTT(30), <1>4, <1>5, <1>6, <1>13, <1>a, <2>1, <3>1, <3>4, <3>5, <3>6
  <2> QED
    BY <2>2, <2>3
<1> QED
  BY <1>1, <1>9, <1>10, <1>11, <1>12, <1>13 DEF Tag

(***************************************************************************)
(* Recovering from a snapshot that is not older than the state it is        *)
(* decoded into: what gob leaves of the old state is part of the new one.   *)
(***************************************************************************)
LEMMA RecoverAt ==
  ASSUME NEW l, LogOK(l), NEW tso, NEW st, NEW saved,
         NEW a \in Nat, NEW b \in Nat, a <= b, b <= Len(l),
         StateAt(l, st, a, tso), StateAt(l, saved, b, tso)
  PROVE  StateAt(l, RecoverFromSnapshot(st, saved), b, tso)
<1> DEFINE new == RecoverFromSnapshot(st, saved)
           h == st.LeaseHistory
           g == saved.LeaseHistory
           h2 == [key \in DOMAIN h \union DOMAIN g |-> IF key \in DOMAIN g THEN g[key] ELSE h[key]]
<1>1. /\ st \in RSMState /\ saved \in RSMState
      /\ st.Index \in Nat /\ st.Index <= a /\ saved.Index \in Nat /\ saved.Index <= b
      /\ st.TruncatedLsn \in Nat /\ saved.TruncatedLsn \in Nat
      /\ st.LeaseHolderID \in DN \union {NoDN}
      /\ DOMAIN h \subseteq Lsn /\ h \in [DOMAIN h -> DN]
      /\ DOMAIN g \subseteq Lsn /\ g \in [DOMAIN g -> DN]
  BY SMTT(30), HistoryType DEF StateAt, RSMState, Lsn
<1>2. /\ Held(l, a + 1, st.LeaseHolderID) /\ Held(l, b + 1, saved.LeaseHolderID)
      /\ Truncated(l, st.TruncatedLsn, a) /\ Truncated(l, saved.TruncatedLsn, b)
      /\ Kept(l, h, st.TruncatedLsn, a) /\ Kept(l, g, saved.TruncatedLsn, b)
      /\ saved.Tso = tso[b]
      /\ \A k \in saved.Index + 1 .. b : l[k].tag = "Internal"
  BY DEF StateAt
<1>3. new.TruncatedLsn = saved.TruncatedLsn
  <2>1. CASE saved.TruncatedLsn # 0
    BY <2>1 DEF RecoverFromSnapshot
  <2>2. CASE saved.TruncatedLsn = 0
    <3>1. \A k \in 1 .. a : TruncAt(l, k) => l[k].n <= 0
      BY <1>2, <2>2 DEF Truncated
    <3>2. st.TruncatedLsn = 0
      BY SMTT(30), <1>1, <1>2, <3>1 DEF Truncated
    <3> QED
      BY <2>2, <3>2 DEF RecoverFromSnapshot
  <2> QED
    BY <2>1, <2>2
<1>4. new.LeaseHolderID = saved.LeaseHolderID
  <2>1. CASE saved.LeaseHolderID # NoDN
    BY <2>1 DEF RecoverFromSnapshot
  <2>2. CASE saved.LeaseHolderID = NoDN
    <3>1. \A j \in 1 .. a : ~LeaseAt(l, j)
      BY <1>2, <2>2 DEF Held
    <3>2. st.LeaseHolderID = NoDN
      BY <1>2, <3>1 DEF Held
    <3> QED
      BY <2>2, <3>2 DEF RecoverFromSnapshot
  <2> QED
    BY <2>1, <2>2
<1>5. new.LeaseHistory = h2 /\ new.Tso = saved.Tso
  BY DEF RecoverFromSnapshot
<1>6. new.Index \in Nat /\ new.Index <= b /\ \A k \in new.Index + 1 .. b : l[k].tag = "Internal"
  <2>1. new.Index = IF saved.Index = 0 THEN st.Index ELSE saved.Index
    BY DEF RecoverFromSnapshot
  <2> HIDE DEF new
  <2> QED
    BY SMTT(30), <1>1, <1>2, <2>1
<1>7. new \in RSMState
  <2>1. h2 \in UNION {[S -> DN] : S \in SUBSET Lsn}
    <3>1. DOMAIN h2 \subseteq Lsn /\ h2 \in [DOMAIN h2 -> DN]
      BY <1>1
    <3> QED
      BY Zenon, <3>1, HistoryType
  <2> QED
    BY Zenon, <1>1, <2>1 DEF RecoverFromSnapshot, RSMState
<1>8. Kept(l, h2, saved.TruncatedLsn, b)
  <2>1. ASSUME NEW i \in DOMAIN h2
        PROVE  i \in 1 .. b /\ LeaseAt(l, i) /\ h2[i] = l[i].dn
    BY <1>2 DEF Kept
  <2>2. ASSUME NEW i \in 1 .. b, LeaseAt(l, i)
        PROVE  i \in DOMAIN h2 \/ \E k \in DOMAIN h2 : i < k /\ k < saved.TruncatedLsn
    BY <1>2, <2>2 DEF Kept
  <2> QED
    BY Zenon, <2>1, <2>2 DEF Kept
<1> HIDE DEF new, h2
<1> QED
  BY <1>2, <1>3, <1>4, <1>5, <1>6, <1>7, <1>8 DEF StateAt, new

(***************************************************************************)
(* The lease history names the holder before low when no lease is taken     *)
(* from low to i - 1 and nothing after i is needed: getLeaseHistory.        *)
(***************************************************************************)
LEMMA HistoryHolds ==
  ASSUME NEW l, LogOK(l), NEW tso, NEW st, NEW a \in Nat, a <= Len(l), StateAt(l, st, a, tso),
         NEW low \in 1 .. a + 1, NEW i \in low .. a + 1, st.TruncatedLsn <= i,
         \A k \in low .. i - 1 : ~LeaseAt(l, k)
  PROVE  Held(l, i, getLeaseHistory(st.LeaseHistory, low))
<1> DEFINE h == st.LeaseHistory
           m == leaseIndex(h, low)
           v == st.TruncatedLsn
<1>1. /\ DOMAIN h \subseteq Lsn /\ DOMAIN h \subseteq Nat /\ v \in Nat
      /\ i \in Nat /\ low \in Nat /\ 1 <= low /\ low <= i /\ i <= a + 1
  BY HistoryType DEF StateAt, RSMState, Lsn
<1>2. Kept(l, h, v, a)
  BY DEF StateAt
<1>3. /\ m \in Nat
      /\ m # 0 => m \in DOMAIN h /\ m < low
      /\ \A key \in DOMAIN h : key < low => key <= m
  BY <1>1, LeaseIndexFacts
<1>4. getLeaseHistory(h, low) = IF m = 0 THEN NoDN ELSE h[m]
  BY DEF getLeaseHistory
<1> HIDE DEF m
<1>5. ASSUME NEW k \in 1 .. i - 1, LeaseAt(l, k) PROVE k <= m /\ m # 0
  <2>1. k \in 1 .. a /\ k < low
    BY <1>1, <1>5
  <2>2. CASE k \in DOMAIN h
    BY <1>3, <2>1, <2>2
  <2>3. CASE k \notin DOMAIN h
    <3>1. PICK j \in DOMAIN h : k < j /\ j < v
      BY <1>2, <1>5, <2>1, <2>3 DEF Kept
    <3>2. j \in 1 .. i - 1 /\ LeaseAt(l, j)
      BY <1>1, <1>2, <3>1 DEF Kept
    <3>3. j < low
      BY <1>1, <3>2
    <3>4. j <= m
      BY <1>3, <3>3
    <3> QED
      BY <1>1, <1>3, <2>1, <3>1, <3>2, <3>4
  <2> QED
    BY <2>2, <2>3
<1>6. CASE m = 0
  BY <1>4, <1>5, <1>6 DEF Held
<1>7. CASE m # 0
  <2>1. m \in 1 .. i - 1 /\ LeaseAt(l, m) /\ h[m] = l[m].dn
    BY <1>1, <1>2, <1>3, <1>7 DEF Kept
  <2>2. h[m] # NoDN
    <3>1. m \in 1 .. Len(l)
      BY <1>1, <2>1 DEF LogOK
    <3> QED
      BY <2>1, <3>1, RSMAssumption DEF LogOK
  <2>3. \A k \in m + 1 .. i - 1 : ~LeaseAt(l, k)
    BY <1>1, <1>3, <1>5
  <2> QED
    BY <1>4, <1>7, <2>1, <2>2, <2>3 DEF Held
<1> QED
  BY <1>6, <1>7

\* The lease taken last among the entries low to i: markEntries in store.go.
LEMMA LastLease ==
  ASSUME NEW l, LogOK(l), NEW low \in Nat, low >= 1, NEW i \in Nat, i <= Len(l),
         leaseUpdates(l, low, i) # {}
  PROVE  /\ Max(leaseUpdates(l, low, i)) \in low .. i
         /\ LeaseAt(l, Max(leaseUpdates(l, low, i)))
         /\ l[Max(leaseUpdates(l, low, i))].dn \in DN
         /\ \A k \in Max(leaseUpdates(l, low, i)) + 1 .. i : ~LeaseAt(l, k)
<1> DEFINE S == leaseUpdates(l, low, i)
           m == Max(S)
<1>1. S \in SUBSET Nat /\ \A x \in S : x <= i
  BY DEF leaseUpdates
<1>2. m \in S /\ \A x \in S : x <= m
  BY Zenon, <1>1, MaxOfBounded
<1> HIDE DEF m
<1>3. m \in low .. i /\ LeaseAt(l, m)
  BY <1>2 DEF leaseUpdates, LeaseAt
<1>4. m \in 1 .. Len(l)
  BY <1>3 DEF LogOK
<1>5. l[m].dn \in DN
  BY <1>3, <1>4 DEF LogOK
<1>6. \A k \in m + 1 .. i : ~LeaseAt(l, k)
  BY <1>2, <1>3 DEF leaseUpdates, LeaseAt
<1> QED
  BY <1>3, <1>5, <1>6 DEF m

(***************************************************************************)
(* A user entry that is not truncated is marked UserRecord when its DN held *)
(* the lease before it, and LeaseRejected when not.                         *)
(***************************************************************************)
LEMMA MarkRight ==
  ASSUME NEW l, LogOK(l), NEW tso, NEW st, StateAt(l, st, Len(l), tso),
         NEW low \in 1 .. Len(l), NEW i \in low .. Len(l), UserAt(l, i), st.TruncatedLsn <= i,
         NEW holder,
         holder = IF LeaseAt(l, low) THEN l[low].dn ELSE getLeaseHistory(st.LeaseHistory, low)
  PROVE  recordType(l, low, holder, i) = "UserRecord" <=> Held(l, i, l[i].dn)
<1> DEFINE d == leaseHolderAt(l, low, holder, i)
<1>0. Len(l) \in Nat /\ i \in Nat /\ low \in Nat /\ 1 <= low /\ low <= i /\ i <= Len(l)
  BY DEF LogOK
<1>1. Held(l, i, d)
  <2>1. CASE leaseUpdates(l, low, i) = {}
    <3>1. \A k \in low .. i : ~LeaseAt(l, k)
      BY <2>1 DEF leaseUpdates, LeaseAt
    <3>2. d = getLeaseHistory(st.LeaseHistory, low)
      BY <1>0, <2>1, <3>1 DEF leaseHolderAt
    <3>3. low \in 1 .. Len(l) + 1 /\ i \in low .. Len(l) + 1 /\ \A k \in low .. i - 1 : ~LeaseAt(l, k)
      BY <1>0, <3>1
    <3> QED
      BY <1>0, <3>2, <3>3, HistoryHolds
  <2>2. CASE leaseUpdates(l, low, i) # {}
    <3> DEFINE m == Max(leaseUpdates(l, low, i))
    <3>1. m \in low .. i /\ LeaseAt(l, m) /\ l[m].dn \in DN /\ \A k \in m + 1 .. i : ~LeaseAt(l, k)
      BY <1>0, <2>2, LastLease
    <3>2. d = l[m].dn
      BY <2>2 DEF leaseHolderAt
    <3> HIDE DEF m
    <3>3. m # i
      BY <3>1 DEF LeaseAt, UserAt
    <3>4. m \in 1 .. i - 1 /\ \A k \in m + 1 .. i - 1 : ~LeaseAt(l, k)
      BY <1>0, <3>1, <3>3
    <3>5. d # NoDN
      BY <3>1, <3>2, RSMAssumption
    <3> HIDE DEF d
    <3> QED
      BY <3>1, <3>2, <3>4, <3>5 DEF Held
  <2> QED
    BY <2>1, <2>2
<1>2. recordType(l, low, holder, i) = IF l[i].dn = d THEN "UserRecord" ELSE "LeaseRejected"
  BY DEF recordType, UserAt
<1> HIDE DEF d
<1>3. i \in 1 .. Len(l) + 1
  BY <1>0
<1>4. Held(l, i, l[i].dn) => l[i].dn = d
  BY <1>1, <1>3, HeldOnce
<1> QED
  BY <1>1, <1>2, <1>4
=============================================================================
