------------------------------- MODULE LogRSM -------------------------------
(***************************************************************************)
(* The replicated state machine of one log shard, pkg/logservice/rsm.go, as *)
(* operators on its state, and the marking of log entries by               *)
(* pkg/logservice/store.go.  A log entry is abstracted to its command, the  *)
(* DN replica it carries and its number: the Lsn to truncate at or the      *)
(* count of timestamps.  Entries raft appends for itself are "Internal";    *)
(* they are never given to Update.                                          *)
(***************************************************************************)
EXTENDS Integers, Sequences, FiniteSets, FiniteSetsExt

CONSTANTS
  DN,     \* DN replica IDs
  NoDN,   \* the ID 0
  MaxLog  \* bound: entries of the raft log

ASSUME RSMAssumption ==
  /\ NoDN \notin DN
  /\ MaxLog \in Nat

Lsn == 0 .. MaxLog
Tag == {"Internal", "LeaseHolderIDUpdate", "UserEntryUpdate", "TruncateLSNUpdate", "TSOUpdate"}
Entry == [tag: Tag, dn: DN \union {NoDN}, n: Nat]

RSMState ==
  [Index: Lsn, LeaseHolderID: DN \union {NoDN}, TruncatedLsn: Lsn, Tso: Nat,
   LeaseHistory: UNION {[S -> DN] : S \in SUBSET Lsn}]

newStateMachine ==
  [Index |-> 0, LeaseHolderID |-> NoDN, TruncatedLsn |-> 0, Tso |-> 1,
   LeaseHistory |-> [i \in {} |-> NoDN]]

\* Mutant: an off-by-one that takes the lease taken at lsn itself for the one in force.
leaseIndexInclusive(h, lsn) == Max({0} \union {key \in DOMAIN h : key <= lsn})

\* The largest key of the history below lsn, 0 if there is none.
leaseIndex(h, lsn) == Max({0} \union {key \in DOMAIN h : key < lsn})

getLeaseHistory(h, lsn) ==
  LET i == leaseIndex(h, lsn) IN IF i = 0 THEN NoDN ELSE h[i]

\* Mutant: forget every lease taken before lsn, the one in force included.
truncateLeaseHistoryAll(h, lsn) == [key \in {k \in DOMAIN h : k >= lsn} |-> h[key]]

truncateLeaseHistory(h, lsn) ==
  [key \in {k \in DOMAIN h : k >= leaseIndex(h, lsn)} |-> h[key]]

handleSetLeaseHolderID(st, e) ==
  [st EXCEPT !.LeaseHolderID = e.dn,
             !.LeaseHistory = [key \in DOMAIN st.LeaseHistory \union {st.Index} |->
                                 IF key = st.Index THEN e.dn ELSE st.LeaseHistory[key]]]

handleTruncateLsn(st, e) ==
  IF e.n > st.TruncatedLsn
  THEN [st EXCEPT !.TruncatedLsn = e.n,
                  !.LeaseHistory = truncateLeaseHistory(st.LeaseHistory, e.n)]
  ELSE st

\* The result of an accepted append is its Lsn; a rejected one carries the holder.
handleUserUpdate(st, e) == st.LeaseHolderID = e.dn

handleTsoUpdate(st, e) == [st EXCEPT !.Tso = @ + e.n]

Update(st, i, e) ==
  LET at == [st EXCEPT !.Index = i]
  IN  CASE e.tag = "Internal"            -> st
        [] e.tag = "LeaseHolderIDUpdate" -> handleSetLeaseHolderID(at, e)
        [] e.tag = "TruncateLSNUpdate"   -> handleTruncateLsn(at, e)
        [] e.tag = "UserEntryUpdate"     -> at
        [] e.tag = "TSOUpdate"           -> handleTsoUpdate(at, e)

\* Mutant: the TSO is not part of the snapshot.
RecoverFromSnapshotNoTso(st, saved) ==
  [saved EXCEPT !.Tso = st.Tso]

(***************************************************************************)
(* gob leaves out fields that are zero and decodes a map into the one that  *)
(* is there: the keys the snapshot does not have stay.                      *)
(***************************************************************************)
RecoverFromSnapshot(st, saved) ==
  [Index |-> IF saved.Index = 0 THEN st.Index ELSE saved.Index,
   LeaseHolderID |-> IF saved.LeaseHolderID = NoDN THEN st.LeaseHolderID ELSE saved.LeaseHolderID,
   TruncatedLsn |-> IF saved.TruncatedLsn = 0 THEN st.TruncatedLsn ELSE saved.TruncatedLsn,
   Tso |-> saved.Tso,
   LeaseHistory |-> [key \in DOMAIN st.LeaseHistory \union DOMAIN saved.LeaseHistory |->
                       IF key \in DOMAIN saved.LeaseHistory
                       THEN saved.LeaseHistory[key] ELSE st.LeaseHistory[key]]]

(***************************************************************************)
(* queryLog marks the entries low .. high of a log: the holder before the   *)
(* first one comes from the state machine, later ones from the lease        *)
(* updates among them.  A record is [Lsn, Type]; truncations and timestamp  *)
(* requests give none.                                                      *)
(***************************************************************************)
leaseUpdates(log, low, i) == {j \in low .. i : log[j].tag = "LeaseHolderIDUpdate"}

leaseHolderAt(log, low, holder, i) ==
  IF leaseUpdates(log, low, i) = {} THEN holder ELSE log[Max(leaseUpdates(log, low, i))].dn

recordType(log, low, holder, i) ==
  CASE log[i].tag = "Internal"            -> "Internal"
    [] log[i].tag = "LeaseHolderIDUpdate" -> "LeaseUpdate"
    [] log[i].tag = "UserEntryUpdate"     ->
         IF log[i].dn = leaseHolderAt(log, low, holder, i) THEN "UserRecord" ELSE "LeaseRejected"

markEntries(log, low, high, holder) ==
  {[Lsn |-> i, Type |-> recordType(log, low, holder, i)] :
     i \in {j \in low .. high : log[j].tag \notin {"TruncateLSNUpdate", "TSOUpdate"}}}

\* Mutant: the next read begins one entry too late.
getNextIndexSkips(first, high, last) ==
  IF high >= first /\ high + 1 < last THEN high + 2 ELSE first

\* high is the last entry returned, last the end of the log's range.
getNextIndex(first, high, last) ==
  IF high >= first /\ high + 1 < last THEN high + 1 ELSE first
=============================================================================
