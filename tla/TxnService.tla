----------------------------- MODULE TxnService -----------------------------
(***************************************************************************)
(* The TxnServices of several DN shards running transactions together: one-  *)
(* and two-phase commit, rollback, the zombie collector and recovery         *)
(* (pkg/txn/service), over the KVTxnStorage of each shard (KVStore), for     *)
(* clients that behave like pkg/txn/client/operator.go.                      *)
(*                                                                          *)
(* A handler runs under the lock of its txnContext and is one action.  Commit *)
(* gives the lock up while its Prepare requests are out, and is two: Start2PC *)
(* and one of PreparesDone, PrepareFailed, PrepareIndexPanics, SendFails.     *)
(* txnContexts come from a pool and are used again, so transactions maps a    *)
(* transaction to a place in heap, and a handler that kept a pointer across   *)
(* such a gap may find another transaction there.                            *)
(*                                                                          *)
(* Requests between shards are in net until they are handled, in any order.   *)
(* Time is a natural per shard (see HLC): a message brings the clock of its   *)
(* sender, of which the model keeps the timestamp the message is about.       *)
(***************************************************************************)
EXTENDS KVStore, FiniteSets

CONSTANTS
  Shard,
  ShardOf,        \* key -> the shard that holds it
  Snapshots,      \* the SnapshotTS a transaction may start with
  NumCtx,         \* bound: txnContexts in a pool
  Scenarios       \* what clients do, and bounds on faults and reads, see Scenario

\* batch: the sequences of keys one Write call of a client carries; sendErrors:
\* errors of sender.Send among the shards; late: Write calls a client gives up
\* on; zombieGC: does gcZombieTxn ever find a transaction too old?  readTS: the
\* SnapshotTS of clients that read.  restarted becomes true when a shard restarts.
Scenario == [batch : SUBSET (Seq(Key) \ {<<>>}), sendErrors : Nat, late : Nat,
             zombieGC : BOOLEAN, crashes : Nat, reads : Nat,
             readTS : SUBSET (Nat \ {0}), restarted : {FALSE}]

ASSUME ServiceAssumption ==
  /\ ShardOf \in [Key -> Shard]
  /\ Snapshots \subseteq Nat \ {0}
  /\ NumCtx \in Nat
  /\ Scenarios \subseteq Scenario

VARIABLES
  clock,         \* shard -> its hybrid logical clock
  kv, log,       \* shard -> its storage and the storage's log
  transactions,  \* shard -> transaction -> its txnContext in the map
  heap,          \* shard -> txnContext -> the TxnMeta in it
  task,          \* shard -> txnContext -> the commit or check task that has it
  prep,          \* transaction -> the Commit handler that awaits its Prepares
  net,           \* requests among the shards
  writes,        \* Write requests of the clients
  client,        \* transaction -> where its operator is
  dnShards,      \* transaction -> the DNShards its operator knows
  snapshot,      \* transaction -> SnapshotTS
  reading,       \* the read that waits for a transaction
  up,            \* shard -> has its process not died?
  reply,         \* history: transaction -> what Commit or Rollback answered
  acked,         \* history: transaction -> keys whose Write was acknowledged
  reads,         \* history: what finished reads returned
  faults         \* the scenario, with the faults that are left of it

dnVars == <<clock, kv, log, transactions, heap, task>>
clientVars == <<writes, client, dnShards, acked>>
readVars == <<reading, reads>>
vars == <<dnVars, prep, net, clientVars, snapshot, readVars, up, reply, faults>>

Ctx == 1 .. NumCtx
NoCtx == 0

Max(a, b) == IF a >= b THEN a ELSE b
MaxOf(S) == CHOOSE x \in S : \A y \in S : y <= x
Members(seq) == {seq[i] : i \in DOMAIN seq}

\* TxnMeta of a context; a released one holds the zero TxnMeta and no notifier.
ZeroMeta == [txn |-> NoTxn, status |-> "Active", preparedTS |-> 0, commitTS |-> 0,
             shards |-> <<>>]
NoPTS == [s \in Shard |-> 0]
NoPrep == [ctx |-> NoCtx, wait |-> {}, pts |-> NoPTS]
NoTask == [kind |-> "none", meta |-> ZeroMeta, wait |-> {}, pts |-> NoPTS]
NotReading == [key |-> NoTxn, ts |-> 0, txn |-> NoTxn, ctx |-> NoCtx]

CtxMeta == [txn : Txn \cup {NoTxn}, status : {"Active", "Prepared", "Committing"},
            preparedTS : Nat, commitTS : Nat, shards : Seq(Shard)]
Request == [type : {"Prepare", "CommitDNShard", "RollbackDNShard", "GetStatus"},
            txn : Txn, from : Shard, to : Shard, shards : Seq(Shard), commitTS : Nat]

\* Contexts, requests and tasks stay well formed: a context that has been given
\* back to the pool is one that resetLocked has cleared (service.go:319-324).
TypeOK ==
  /\ clock \in [Shard -> Nat]
  /\ kv \in [Shard -> Store]
  /\ transactions \in [Shard -> [Txn -> Ctx \cup {NoCtx}]]
  /\ heap \in [Shard -> [Ctx -> CtxMeta]]
  /\ net \subseteq Request
  /\ client \in [Txn -> {"open", "writing", "committing", "closed"}]
  /\ reply \in [Txn -> {"none", "committed", "failed", "rolledBack", "unknown"}]
  /\ \A s \in Shard, c \in Ctx :
       task[s][c].kind \in {"none", "commit", "send", "check"}
  /\ \A t \in Txn : prep[t].ctx \in Ctx \cup {NoCtx} /\ prep[t].wait \subseteq Shard
  /\ up \in [Shard -> BOOLEAN]

Init ==
  /\ clock = [s \in Shard |-> 0]
  /\ kv = [s \in Shard |-> NewKVTxnStorage]
  /\ log = [s \in Shard |-> <<>>]
  /\ transactions = [s \in Shard |-> [t \in Txn |-> NoCtx]]
  /\ heap = [s \in Shard |-> [c \in Ctx |-> ZeroMeta]]
  /\ task = [s \in Shard |-> [c \in Ctx |-> NoTask]]
  /\ prep = [t \in Txn |-> NoPrep]
  /\ net = {}
  /\ writes = {}
  /\ client = [t \in Txn |-> "open"]
  /\ dnShards = [t \in Txn |-> <<>>]
  /\ snapshot \in [Txn -> Snapshots]
  /\ reading = NotReading
  /\ up = [s \in Shard |-> TRUE]
  /\ reply = [t \in Txn |-> "none"]
  /\ acked = [t \in Txn |-> {}]
  /\ reads = {}
  /\ faults \in Scenarios

Spend(kind) ==
  /\ faults[kind] > 0
  /\ faults' = [faults EXCEPT ![kind] = @ - 1]

\* getTxnContext finds a context and its ID is the transaction's.
Found(s, t) == transactions[s][t] # NoCtx /\ heap[s][transactions[s][t]].txn = t
metaOf(s, t) == heap[s][transactions[s][t]]
coordinator(t) == dnShards[t][1]

\* One request of a kind to each shard of a list.
requests(type, t, from, to, shards, cts) ==
  {[type |-> type, txn |-> t, from |-> from, to |-> s, shards |-> shards,
    commitTS |-> cts] : s \in to}

saveLog(s, t, status, keys, pts, cts, shards) ==
  log' = [log EXCEPT ![s] = Append(@,
            [txn |-> t, status |-> status, keys |-> keys, preparedTS |-> pts,
             commitTS |-> cts, shards |-> shards])]

\* Mutant: the context is marked aborted and not released.
removeAndMark(s, t, c) ==
  /\ transactions' = [transactions EXCEPT ![s][t] = NoCtx]
  /\ heap' = [heap EXCEPT ![s][c].status = "Aborted"]

\* removeTxn and releaseTxnContext: the context goes back to the pool empty.
removeAndRelease(s, t, c) ==
  /\ transactions' = [transactions EXCEPT ![s][t] = NoCtx]
  /\ heap' = [heap EXCEPT ![s][c] = ZeroMeta]

\* The process of a shard dies of a panic or a logger.Fatal.
Panics(s) ==
  /\ up' = [up EXCEPT ![s] = FALSE]
  /\ UNCHANGED <<dnVars, prep, net, clientVars, snapshot, readVars, reply, faults>>

(***************************************************************************)
(* The client: Write calls grow DNShards, then one Commit or one Rollback.   *)
(***************************************************************************)
addPartitions(shards, keys) ==
  LET after[n \in 0 .. Len(keys)] ==
        IF n = 0 THEN shards
        ELSE IF ShardOf[keys[n]] \in Members(after[n - 1]) THEN after[n - 1]
        ELSE Append(after[n - 1], ShardOf[keys[n]])
  IN after[Len(keys)]

\* Bound: a client writes a key once.
ClientWrite(t, keys) ==
  /\ client[t] = "open"
  /\ \A w \in writes : w.txn = t => w.key \notin Members(keys)
  /\ acked[t] \cap Members(keys) = {}
  /\ client' = [client EXCEPT ![t] = "writing"]
  /\ dnShards' = [dnShards EXCEPT ![t] = addPartitions(@, keys)]
  /\ writes' = writes \cup
       {[txn |-> t, key |-> k, shards |-> dnShards'[t], late |-> FALSE] :
          k \in Members(keys)}
  /\ UNCHANGED <<dnVars, prep, net, snapshot, readVars, up, reply, acked, faults>>

\* The Send of a Write call fails; its requests may still arrive.
WriteGivenUp(t) ==
  /\ client[t] = "writing"
  /\ Spend("late")
  /\ client' = [client EXCEPT ![t] = "open"]
  /\ writes' = {IF w.txn = t THEN [w EXCEPT !.late = TRUE] ELSE w : w \in writes}
  /\ UNCHANGED <<dnVars, prep, net, dnShards, snapshot, readVars, up, reply, acked>>

\* service.Write: maybeAddTxn makes a context for a transaction it does not
\* know, whether it is new or over, and keeps it if storage.Write fails.
ServiceWrite(w) ==
  LET t == w.txn
      s == ShardOf[w.key]
      free == {c \in Ctx : heap[s][c] = ZeroMeta}
      accepts == /\ transactions[s][t] = NoCtx \/ (Found(s, t) /\ metaOf(s, t).status = "Active")
                 /\ kv[s].owner[w.key] \in {t, NoTxn}
  IN
  /\ up[s]
  /\ IF transactions[s][t] = NoCtx
       THEN \E c \in free :
              /\ \A d \in free : c <= d
              /\ transactions' = [transactions EXCEPT ![s][t] = c]
              /\ heap' = [heap EXCEPT ![s][c] = [ZeroMeta EXCEPT !.txn = t, !.shards = w.shards]]
       ELSE UNCHANGED <<transactions, heap>>
  /\ kv' = IF accepts THEN [kv EXCEPT ![s] = Write(@, t, <<w.key>>)] ELSE kv
  /\ acked' = IF accepts /\ ~w.late THEN [acked EXCEPT ![t] = @ \cup {w.key}] ELSE acked
  /\ clock' = [clock EXCEPT ![s] = Max(@, snapshot[t])]
  /\ writes' = writes \ {w}
  /\ client' = IF client[t] = "writing" /\ \A x \in writes' : x.txn = t => x.late
                 THEN [client EXCEPT ![t] = "open"] ELSE client
  /\ UNCHANGED <<log, task, prep, net, dnShards, snapshot, readVars, up, reply, faults>>

(***************************************************************************)
(* Commit and Rollback, called by the client.                                *)
(***************************************************************************)
\* The client hears one answer.
Answer(t, answer) ==
  /\ reply' = [reply EXCEPT ![t] = IF @ = "none" THEN answer ELSE @]
  /\ client' = [client EXCEPT ![t] = "closed"]

\* The coordinator does not know the transaction, or finds it not active: then
\* it forgets the context.
CommitRefused(t) ==
  LET s == coordinator(t) IN
  /\ client[t] = "open"
  /\ dnShards[t] # <<>>
  /\ up[s]
  /\ \/ ~Found(s, t) /\ UNCHANGED <<transactions, heap>>
     \/ /\ Found(s, t)
        /\ metaOf(s, t).status # "Active"
        /\ removeAndRelease(s, t, transactions[s][t])
  /\ Answer(t, "failed")
  /\ UNCHANGED <<clock, kv, log, task, prep, net, writes, dnShards, acked, snapshot,
                 readVars, up, faults>>

\* Only one shard: storage.Commit decides.  The context goes either way, the
\* uncommitted data of a commit that failed does not.
Commit1PC(t) ==
  LET s == coordinator(t)
      commits == kv[s].txn[t] # NoMeta /\ CanCommit(kv[s], t, snapshot[t], clock[s] + 1)
  IN
  /\ client[t] = "open"
  /\ Len(dnShards[t]) = 1
  /\ up[s]
  /\ Found(s, t)
  /\ metaOf(s, t).status = "Active"
  /\ clock' = [clock EXCEPT ![s] = @ + 1]
  /\ IF commits
       THEN /\ saveLog(s, t, "Committed", getWriteKeysLocked(kv[s], t), 0, clock'[s], dnShards[t])
            /\ kv' = [kv EXCEPT ![s] = commitKeysLocked(@, t, clock'[s])]
       ELSE UNCHANGED <<log, kv>>
  /\ Answer(t, IF commits \/ kv[s].txn[t] = NoMeta THEN "committed" ELSE "failed")
  /\ removeAndRelease(s, t, transactions[s][t])
  /\ UNCHANGED <<task, prep, net, writes, dnShards, acked, snapshot, readVars, up, faults>>

\* Several shards: send Prepare to all of them and unlock the context.
Start2PC(t) ==
  LET s == coordinator(t) IN
  /\ client[t] = "open"
  /\ Len(dnShards[t]) > 1
  /\ up[s]
  /\ Found(s, t)
  /\ metaOf(s, t).status = "Active"
  /\ prep' = [prep EXCEPT ![t] = [ctx |-> transactions[s][t], pts |-> NoPTS,
                                  wait |-> Members(dnShards[t])]]
  /\ net' = net \cup requests("Prepare", t, s, Members(dnShards[t]), dnShards[t], 0)
  /\ client' = [client EXCEPT ![t] = "committing"]
  /\ UNCHANGED <<dnVars, writes, dnShards, acked, snapshot, readVars, up, reply, faults>>

\* Commit has the lock again and reads the TxnMeta of the context it held.
awaited(t) ==
  /\ prep[t].ctx # NoCtx
  /\ up[coordinator(t)]
held(t) == heap[coordinator(t)][prep[t].ctx]

endPrepare(t, answer) ==
  /\ prep' = [prep EXCEPT ![t] = NoPrep]
  /\ Answer(t, answer)

\* Mutant: Commit goes ahead if some shard prepared.
PreparesDoneAny(t) ==
  LET s == coordinator(t)
      cts == MaxOf({held(t).preparedTS} \cup {prep[t].pts[x] : x \in Shard})
  IN
  /\ awaited(t)
  /\ prep[t].wait = {}
  /\ Len(held(t).shards) >= Len(dnShards[t])
  /\ \E x \in Members(dnShards[t]) : prep[t].pts[x] # 0
  /\ heap' = [heap EXCEPT ![s][prep[t].ctx].commitTS = cts]
  /\ transactions' = [transactions EXCEPT ![s][t] = NoCtx]
  /\ task' = [task EXCEPT ![s][prep[t].ctx] = [NoTask EXCEPT !.kind = "commit"]]
  /\ clock' = [clock EXCEPT ![s] = Max(@, cts)]
  /\ endPrepare(t, "committed")
  /\ UNCHANGED <<kv, log, net, writes, dnShards, acked, snapshot, readVars, up, faults>>

\* Mutant: CommitTS is the PreparedTS of the coordinator.
PreparesDoneOwnTS(t) ==
  LET s == coordinator(t)
      cts == held(t).preparedTS
  IN
  /\ awaited(t)
  /\ prep[t].wait = {}
  /\ Len(held(t).shards) >= Len(dnShards[t])
  /\ \A x \in Members(dnShards[t]) : prep[t].pts[x] # 0
  /\ heap' = [heap EXCEPT ![s][prep[t].ctx].commitTS = cts]
  /\ transactions' = [transactions EXCEPT ![s][t] = NoCtx]
  /\ task' = [task EXCEPT ![s][prep[t].ctx] = [NoTask EXCEPT !.kind = "commit"]]
  /\ clock' = [clock EXCEPT ![s] = Max(@, cts)]
  /\ endPrepare(t, "committed")
  /\ UNCHANGED <<kv, log, net, writes, dnShards, acked, snapshot, readVars, up, faults>>

\* All shards prepared: CommitTS is the largest PreparedTS, the client is told,
\* and the context leaves the map for the asynchronous commit task.
PreparesDone(t) ==
  LET s == coordinator(t)
      cts == MaxOf({held(t).preparedTS} \cup {prep[t].pts[x] : x \in Shard})
  IN
  /\ awaited(t)
  /\ prep[t].wait = {}
  /\ Len(held(t).shards) >= Len(dnShards[t])
  /\ \A x \in Members(dnShards[t]) : prep[t].pts[x] # 0
  /\ heap' = [heap EXCEPT ![s][prep[t].ctx].commitTS = cts]
  /\ transactions' = [transactions EXCEPT ![s][t] = NoCtx]
  /\ task' = [task EXCEPT ![s][prep[t].ctx] = [NoTask EXCEPT !.kind = "commit"]]
  /\ clock' = [clock EXCEPT ![s] = Max(@, cts)]
  /\ endPrepare(t, "committed")
  /\ UNCHANGED <<kv, log, net, writes, dnShards, acked, snapshot, readVars, up, faults>>

\* Some shard did not prepare: roll back on the shards the context knows of.
PrepareFailed(t) ==
  LET s == coordinator(t) IN
  /\ awaited(t)
  /\ prep[t].wait = {}
  /\ Len(held(t).shards) >= Len(dnShards[t])
  /\ \E x \in Members(dnShards[t]) : prep[t].pts[x] = 0
  /\ net' = net \cup requests("RollbackDNShard", held(t).txn, s, Members(held(t).shards), <<>>, 0)
  /\ removeAndRelease(s, t, prep[t].ctx)
  /\ endPrepare(t, "failed")
  /\ UNCHANGED <<clock, kv, log, task, writes, dnShards, acked, snapshot, readVars, up, faults>>

\* newTxn.DNShards[idx] where the context has fewer DNShards than responses.
PrepareIndexPanics(t) ==
  /\ awaited(t)
  /\ prep[t].wait = {}
  /\ Len(held(t).shards) < Len(dnShards[t])
  /\ Panics(coordinator(t))

\* Mutant: Commit does not return after it has started the rollback.
SendFailsOn(t) ==
  LET s == coordinator(t) IN
  /\ awaited(t)
  /\ Spend("sendErrors")
  /\ net' = net \cup requests("RollbackDNShard", t, s, Members(dnShards[t]), <<>>, 0)
  /\ Answer(t, "failed")
  /\ UNCHANGED <<dnVars, prep, writes, dnShards, acked, snapshot, readVars, up>>

\* sender.Send returns an error: whatever the shards did, the transaction is
\* aborted.  changeStatus needs the notifier of the context.
SendFails(t) ==
  LET s == coordinator(t) IN
  /\ awaited(t)
  /\ faults.sendErrors > 0
  /\ IF held(t) = ZeroMeta
       THEN Panics(s)
       ELSE /\ Spend("sendErrors")
            /\ net' = net \cup requests("RollbackDNShard", t, s, Members(dnShards[t]), <<>>, 0)
            /\ removeAndRelease(s, t, prep[t].ctx)
            /\ endPrepare(t, "failed")
            /\ UNCHANGED <<clock, kv, log, task, writes, dnShards, acked, snapshot,
                           readVars, up>>

ClientRollback(t) ==
  LET s == coordinator(t) IN
  /\ client[t] = "open"
  /\ dnShards[t] # <<>>
  /\ up[s]
  /\ net' = IF Found(s, t)
              THEN net \cup requests("RollbackDNShard", t, s, Members(dnShards[t]), <<>>, 0)
              ELSE net
  /\ Answer(t, "rolledBack")
  /\ UNCHANGED <<dnVars, prep, writes, dnShards, acked, snapshot, readVars, up, faults>>

\* Mutant: the collector leaves the coordinator's own context to others.
GcZombieTxnOthers(s, t) ==
  /\ up[s]
  /\ faults.zombieGC
  /\ Found(s, t)
  /\ metaOf(s, t).shards[1] # s
  /\ net' = net \cup requests("RollbackDNShard", t, s, Members(metaOf(s, t).shards), <<>>, 0)
  /\ UNCHANGED <<dnVars, prep, clientVars, snapshot, readVars, up, reply, faults>>

\* gcZombieTxn rolls back what has been in the map for too long, on the shards
\* that the context of the coordinator lists.
GcZombieTxn(s, t) ==
  /\ up[s]
  /\ faults.zombieGC
  /\ Found(s, t)
  /\ metaOf(s, t).shards[1] = s
  /\ net' = net \cup requests("RollbackDNShard", t, s, Members(metaOf(s, t).shards), <<>>, 0)
  /\ UNCHANGED <<dnVars, prep, clientVars, snapshot, readVars, up, reply, faults>>

(***************************************************************************)
(* Prepare, CommitDNShard, RollbackDNShard and GetStatus, called by shards.  *)
(***************************************************************************)
\* The response to a Prepare request; pts is 0 for an error.
prepareResponse(m, pts) ==
  prep' = IF m.to \in prep[m.txn].wait
            THEN [prep EXCEPT ![m.txn].wait = @ \ {m.to}, ![m.txn].pts[m.to] = pts]
            ELSE prep

\* The commit task holds the lock of its context until it is done.
locked(s, c) == c # NoCtx /\ task[s][c].kind = "send"

isRequest(m, type) ==
  m.type = type /\ up[m.to] /\ ~locked(m.to, transactions[m.to][m.txn])

\* Mutant: Prepare does not log.
PrepareUnlogged(m) ==
  LET s == m.to t == m.txn pts == clock[s] + 1 IN
  /\ isRequest(m, "Prepare")
  /\ Found(s, t)
  /\ metaOf(s, t).status = "Active"
  /\ CanPrepare(kv[s], t, snapshot[t])
  /\ clock' = [clock EXCEPT ![s] = pts]
  /\ kv' = [kv EXCEPT ![s] = changeUncommittedTxnStatusLocked(@, t,
              [status |-> "Prepared", preparedTS |-> pts, commitTS |-> 0])]
  /\ heap' = [heap EXCEPT ![s][transactions[s][t]] =
                [@ EXCEPT !.status = "Prepared", !.preparedTS = pts, !.shards = m.shards]]
  /\ prepareResponse(m, pts)
  /\ net' = net \ {m}
  /\ UNCHANGED <<log, transactions, task, clientVars, snapshot, readVars, up, reply, faults>>

PrepareOK(m) ==
  LET s == m.to t == m.txn pts == clock[s] + 1 IN
  /\ isRequest(m, "Prepare")
  /\ Found(s, t)
  /\ metaOf(s, t).status = "Active"
  /\ CanPrepare(kv[s], t, snapshot[t])
  /\ clock' = [clock EXCEPT ![s] = pts]
  /\ saveLog(s, t, "Prepared", getWriteKeysLocked(kv[s], t), pts, 0, m.shards)
  /\ kv' = [kv EXCEPT ![s] = changeUncommittedTxnStatusLocked(@, t,
              [status |-> "Prepared", preparedTS |-> pts, commitTS |-> 0])]
  /\ heap' = [heap EXCEPT ![s][transactions[s][t]] =
                [@ EXCEPT !.status = "Prepared", !.preparedTS = pts, !.shards = m.shards]]
  /\ prepareResponse(m, pts)
  /\ net' = net \ {m}
  /\ UNCHANGED <<transactions, task, clientVars, snapshot, readVars, up, reply, faults>>

\* storage.Prepare fails, and the handler rolls the storage back.
PrepareConflicts(m) ==
  LET s == m.to t == m.txn IN
  /\ isRequest(m, "Prepare")
  /\ Found(s, t)
  /\ metaOf(s, t).status = "Active"
  /\ ~CanPrepare(kv[s], t, snapshot[t])
  /\ clock' = [clock EXCEPT ![s] = IF kv[s].txn[t] = NoMeta THEN @ ELSE @ + 1]
  /\ kv' = [kv EXCEPT ![s] = Rollback(@, t)]
  /\ prepareResponse(m, 0)
  /\ net' = net \ {m}
  /\ UNCHANGED <<log, transactions, heap, task, clientVars, snapshot, readVars, up,
                 reply, faults>>

\* No such transaction here, or it is prepared already.
PrepareAnswered(m) ==
  LET s == m.to t == m.txn IN
  /\ isRequest(m, "Prepare")
  /\ Found(s, t) => metaOf(s, t).status # "Active"
  /\ prepareResponse(m, IF Found(s, t) /\ metaOf(s, t).status = "Prepared"
                          THEN metaOf(s, t).preparedTS ELSE 0)
  /\ net' = net \ {m}
  /\ UNCHANGED <<dnVars, clientVars, snapshot, readVars, up, reply, faults>>

\* A response takes the shard off the list of the task that waits for it.
taskResponse(m, kind, pts) ==
  task' = [task EXCEPT ![m.from] = [c \in Ctx |->
    IF @[c].kind = kind /\ @[c].meta.txn = m.txn
      THEN [@[c] EXCEPT !.wait = @ \ {m.to}, !.pts[m.to] = pts] ELSE @[c]]]

\* storage.Commit at cts returns nil.
commitStorage(s, t, cts, shards) ==
  IF kv[s].txn[t] = NoMeta THEN UNCHANGED <<kv, log>>
  ELSE /\ CanCommit(kv[s], t, snapshot[t], cts)
       /\ saveLog(s, t, "Committed", {}, kv[s].txn[t].preparedTS, cts, shards)
       /\ kv' = [kv EXCEPT ![s] = commitKeysLocked(@, t, cts)]

\* An error of storage.Commit is answered and the request sent again, so the
\* model leaves it in net.
CommitDNShard(m) ==
  LET s == m.to t == m.txn IN
  /\ isRequest(m, "CommitDNShard")
  /\ Found(s, t) => metaOf(s, t).status = "Prepared"
  /\ clock' = [clock EXCEPT ![s] = Max(@, m.commitTS)]
  /\ IF Found(s, t)
       THEN /\ commitStorage(s, t, m.commitTS, metaOf(s, t).shards)
            /\ removeAndRelease(s, t, transactions[s][t])
       ELSE UNCHANGED <<kv, log, transactions, heap>>
  /\ taskResponse(m, "send", 0)
  /\ net' = net \ {m}
  /\ UNCHANGED <<prep, clientVars, snapshot, readVars, up, reply, faults>>

\* logger.Fatal("commit on invalid status").
CommitDNShardPanics(m) ==
  /\ isRequest(m, "CommitDNShard")
  /\ Found(m.to, m.txn)
  /\ metaOf(m.to, m.txn).status # "Prepared"
  /\ Panics(m.to)

\* The rollback task sends again until it is answered.
RollbackDNShard(m) ==
  LET s == m.to t == m.txn IN
  /\ isRequest(m, "RollbackDNShard")
  /\ IF Found(s, t)
       THEN /\ metaOf(s, t).status \in {"Active", "Prepared"}
            /\ kv' = [kv EXCEPT ![s] = Rollback(@, t)]
            /\ removeAndRelease(s, t, transactions[s][t])
       ELSE UNCHANGED <<kv, transactions, heap>>
  /\ \/ net' = net \ {m} /\ UNCHANGED faults
     \/ Spend("sendErrors") /\ UNCHANGED net
  /\ UNCHANGED <<clock, log, task, prep, clientVars, snapshot, readVars, up, reply>>

GetStatus(m) ==
  LET s == m.to t == m.txn IN
  /\ isRequest(m, "GetStatus")
  /\ taskResponse(m, "check", IF Found(s, t) /\ metaOf(s, t).status = "Prepared"
                                THEN metaOf(s, t).preparedTS ELSE 0)
  /\ net' = net \ {m}
  /\ UNCHANGED <<clock, kv, log, transactions, heap, prep, clientVars, snapshot,
                 readVars, up, reply, faults>>

(***************************************************************************)
(* startAsyncCommitTask and startAsyncCheckCommitTask.                       *)
(***************************************************************************)
others(meta) == Members(Tail(meta.shards))

\* Log the decision, unless it was recovered, and tell the other shards.
\* storage.Committing is tried for ever if the storage has no such transaction.
CommittingTask(s, c) ==
  LET meta == heap[s][c] IN
  /\ up[s]
  /\ task[s][c].kind = "commit"
  /\ IF meta.status = "Committing"
       THEN UNCHANGED <<kv, log, heap>>
       ELSE /\ kv[s].txn[meta.txn] # NoMeta
            /\ saveLog(s, meta.txn, "Committing", {}, meta.preparedTS, meta.commitTS, meta.shards)
            /\ kv' = [kv EXCEPT ![s] = changeUncommittedTxnStatusLocked(@, meta.txn,
                        [status |-> "Committing", commitTS |-> meta.commitTS,
                         preparedTS |-> kv[s].txn[meta.txn].preparedTS])]
            /\ heap' = [heap EXCEPT ![s][c].status = "Committing"]
  /\ task' = [task EXCEPT ![s][c] =
                [NoTask EXCEPT !.kind = "send", !.meta = meta, !.wait = others(meta)]]
  /\ net' = net \cup requests("CommitDNShard", meta.txn, s, others(meta), <<>>, meta.commitTS)
  /\ UNCHANGED <<clock, transactions, prep, clientVars, snapshot, readVars, up, reply, faults>>

\* parallelSendWithRetry: one request failed, all are sent again.
SendAgain(s, c) ==
  LET meta == task[s][c].meta IN
  /\ up[s]
  /\ task[s][c].kind = "send"
  /\ Spend("sendErrors")
  /\ task' = [task EXCEPT ![s][c].wait = others(meta)]
  /\ net' = net \cup requests("CommitDNShard", meta.txn, s, others(meta), <<>>, meta.commitTS)
  /\ UNCHANGED <<clock, kv, log, transactions, heap, prep, clientVars, snapshot,
                 readVars, up, reply>>

\* Every other shard has committed: commit here, or die of
\* logger.Fatal("commit failed after prepared").
CommitTaskDone(s, c) ==
  LET meta == task[s][c].meta IN
  /\ up[s]
  /\ task[s][c].kind = "send"
  /\ task[s][c].wait = {}
  /\ IF kv[s].txn[meta.txn] = NoMeta \/ CanCommit(kv[s], meta.txn, snapshot[meta.txn], meta.commitTS)
       THEN /\ commitStorage(s, meta.txn, meta.commitTS, meta.shards)
            /\ heap' = [heap EXCEPT ![s][c] = ZeroMeta]
            /\ task' = [task EXCEPT ![s][c] = NoTask]
            /\ UNCHANGED <<clock, transactions, prep, net, clientVars, snapshot, readVars,
                           up, reply, faults>>
       ELSE Panics(s)

\* Mutant: the check commits whatever the other shards answered.
CheckDoneAlways(s, c) ==
  LET k == task[s][c]
      meta == k.meta
  IN
  /\ up[s]
  /\ k.kind = "check"
  /\ k.wait = {}
  /\ Found(s, meta.txn)
  /\ heap' = [heap EXCEPT ![s][c] = [meta EXCEPT !.commitTS = meta.preparedTS]]
  /\ transactions' = [transactions EXCEPT ![s][meta.txn] = NoCtx]
  /\ task' = [task EXCEPT ![s][c] = [NoTask EXCEPT !.kind = "commit"]]
  /\ UNCHANGED <<clock, net, kv, log, prep, clientVars, snapshot, readVars, up, reply, faults>>

\* The recovered coordinator knows the status of every shard.  CommitTS is its
\* own PreparedTS; a larger one of another shard replaces PreparedTS.
CheckDone(s, c) ==
  LET k == task[s][c]
      meta == k.meta
      later == {i \in 2 .. Len(meta.shards) : k.pts[meta.shards[i]] > meta.preparedTS}
  IN
  /\ up[s]
  /\ k.kind = "check"
  /\ k.wait = {}
  /\ IF \A x \in others(meta) : k.pts[x] # 0
       THEN /\ heap' = [heap EXCEPT ![s][c] =
                 [meta EXCEPT !.commitTS = meta.preparedTS,
                              !.preparedTS = IF later = {} THEN @
                                             ELSE k.pts[meta.shards[MaxOf(later)]]]]
            /\ transactions' = [transactions EXCEPT ![s][meta.txn] = NoCtx]
            /\ task' = [task EXCEPT ![s][c] = [NoTask EXCEPT !.kind = "commit"]]
            /\ clock' = [clock EXCEPT ![s] = MaxOf({@} \cup {k.pts[x] : x \in Shard})]
            /\ UNCHANGED net
       ELSE /\ net' = net \cup
                 requests("RollbackDNShard", meta.txn, s, Members(meta.shards), <<>>, 0)
            /\ task' = [task EXCEPT ![s][c] = NoTask]
            /\ UNCHANGED <<heap, transactions, clock>>
  /\ UNCHANGED <<kv, log, prep, clientVars, snapshot, readVars, up, reply, faults>>

(***************************************************************************)
(* Recovery: the process restarts, the storage replays its log, addLog makes *)
(* a context for what is left, and end starts the tasks of the transactions  *)
(* this shard coordinates.  Requests it had sent may be lost or arrive.       *)
(***************************************************************************)
lastRecord(s, t) == log[s][MaxOf({i \in DOMAIN log[s] : log[s][i].txn = t})]

\* Mutant: a recovered decision is made again from the PreparedTS.
recoveredMetaOwnTS(s, t) ==
  LET klog == lastRecord(s, t) IN
  [txn |-> t, status |-> klog.status, preparedTS |-> klog.preparedTS,
   commitTS |-> klog.preparedTS, shards |-> klog.shards]

recoveredMeta(s, t) ==
  LET klog == lastRecord(s, t) IN
  [txn |-> t, status |-> klog.status, preparedTS |-> klog.preparedTS,
   commitTS |-> klog.commitTS, shards |-> klog.shards]

\* Mutant: only prepared transactions get a task.
recoveredTaskPrepared(s, meta) ==
  IF meta.txn = NoTxn \/ meta.shards[1] # s \/ meta.status # "Prepared" THEN NoTask
  ELSE [NoTask EXCEPT !.kind = "check", !.meta = meta, !.wait = others(meta)]

recoveredTask(s, meta) ==
  IF meta.txn = NoTxn \/ meta.shards[1] # s THEN NoTask
  ELSE IF meta.status = "Committing" THEN [NoTask EXCEPT !.kind = "commit"]
  ELSE [NoTask EXCEPT !.kind = "check", !.meta = meta, !.wait = others(meta)]

Recovered(s) ==
  LET store == StartRecovery(log[s])
      left == {t \in Txn : store.txn[t] # NoMeta}
      place == CHOOSE f \in [left -> Ctx] : \A t, u \in left : f[t] = f[u] => t = u
  IN
  /\ kv' = [kv EXCEPT ![s] = store]
  /\ heap' = [heap EXCEPT ![s] = [c \in Ctx |->
       IF \E t \in left : place[t] = c
         THEN recoveredMeta(s, CHOOSE t \in left : place[t] = c) ELSE ZeroMeta]]
  /\ task' = [task EXCEPT ![s] = [c \in Ctx |-> recoveredTask(s, heap'[s][c])]]
  /\ transactions' = [transactions EXCEPT ![s] = [t \in Txn |->
       IF t \in left /\ task'[s][place[t]].kind # "commit" THEN place[t] ELSE NoCtx]]

Restart(s) ==
  LET cut == {t \in Txn : prep[t].ctx # NoCtx /\ coordinator(t) = s} IN
  /\ up[s]
  /\ faults.crashes > 0
  /\ faults' = [faults EXCEPT !.crashes = @ - 1, !.restarted = TRUE]
  /\ IF RecoveryPanics(log[s])
     THEN /\ up' = [up EXCEPT ![s] = FALSE]
          /\ UNCHANGED <<dnVars, prep, net, clientVars, snapshot, readVars, reply>>
     ELSE
       /\ Recovered(s)
       /\ \E lost \in SUBSET {m \in net : m.from = s} :
            net' = (net \ lost) \cup UNION
              {requests("GetStatus", task'[s][c].meta.txn, s, task'[s][c].wait, <<>>, 0) :
                 c \in {d \in Ctx : task'[s][d].kind = "check"}}
       /\ prep' = [t \in Txn |-> IF t \in cut THEN NoPrep ELSE prep[t]]
       /\ reply' = [t \in Txn |-> IF t \in cut THEN "unknown" ELSE reply[t]]
       /\ client' = [t \in Txn |-> IF t \in cut THEN "closed" ELSE client[t]]
       /\ reading' = IF reading # NotReading /\ ShardOf[reading.key] = s
                       THEN NotReading ELSE reading
       /\ UNCHANGED <<clock, log, writes, dnShards, acked, snapshot, up, reads>>

(***************************************************************************)
(* Read, of a client that only reads.                                       *)
(***************************************************************************)
Returned(key, ts) ==
  [key |-> key, ts |-> ts, txn |-> readValue(kv[ShardOf[key]], key, ts)]

\* A reader that must wait for a transaction without a context does not wait,
\* and result.Read then fails: it returns nothing.
Read(key, ts) ==
  LET s == ShardOf[key]
      t == kv[s].owner[key]
  IN
  /\ up[s]
  /\ reading = NotReading
  /\ Cardinality(reads) < faults.reads
  /\ clock' = [clock EXCEPT ![s] = Max(@, ts)]
  /\ IF ~needWait(kv[s], key, ts)
       THEN reads' = reads \cup {Returned(key, ts)} /\ UNCHANGED reading
       ELSE /\ reading' = IF Found(s, t) THEN [key |-> key, ts |-> ts, txn |-> t,
                                               ctx |-> transactions[s][t]]
                          ELSE NotReading
            /\ UNCHANGED reads
  /\ UNCHANGED <<kv, log, transactions, heap, task, prep, net, clientVars, snapshot,
                 up, reply, faults>>

\* The context was released, which notified the waiters.
ContinueRead ==
  LET s == ShardOf[reading.key] IN
  /\ reading # NotReading
  /\ up[s]
  /\ heap[s][reading.ctx].txn # reading.txn
  /\ reads' = IF needWait(kv[s], reading.key, reading.ts) THEN reads
              ELSE reads \cup {Returned(reading.key, reading.ts)}
  /\ reading' = NotReading
  /\ UNCHANGED <<dnVars, prep, net, clientVars, snapshot, up, reply, faults>>

\* The reader's context is done before the waiter is notified.
WaitTimesOut ==
  /\ reading # NotReading
  /\ reading' = NotReading
  /\ UNCHANGED <<dnVars, prep, net, clientVars, snapshot, reads, up, reply, faults>>

ClientStep(t) ==
  \/ \E keys \in faults.batch : ClientWrite(t, keys)
  \/ WriteGivenUp(t)
  \/ CommitRefused(t)
  \/ Commit1PC(t)
  \/ Start2PC(t)
  \/ ClientRollback(t)

CommitStep(t) == PreparesDone(t) \/ PrepareFailed(t)

Handle(m) ==
  \/ PrepareOK(m)
  \/ PrepareConflicts(m)
  \/ PrepareAnswered(m)
  \/ CommitDNShard(m)
  \/ RollbackDNShard(m)
  \/ GetStatus(m)

TaskStep(s, c) == CommittingTask(s, c) \/ CommitTaskDone(s, c) \/ CheckDone(s, c)

Next ==
  \/ \E t \in Txn : ClientStep(t) \/ CommitStep(t) \/ SendFails(t) \/ PrepareIndexPanics(t)
  \/ \E w \in writes : ServiceWrite(w)
  \/ \E m \in net : Handle(m) \/ CommitDNShardPanics(m)
  \/ \E s \in Shard, c \in Ctx : TaskStep(s, c) \/ SendAgain(s, c)
  \/ \E s \in Shard, t \in Txn : GcZombieTxn(s, t)
  \/ \E s \in Shard : Restart(s)
  \/ \E key \in Key, ts \in faults.readTS : Read(key, ts)
  \/ ContinueRead
  \/ WaitTimesOut

Spec == Init /\ [][Next]_vars

(***************************************************************************)
(* Properties.                                                               *)
(***************************************************************************)
CommittedOn(t, s) == \E v \in kv[s].committed : v.txn = t
Committed(t, k) == \E v \in kv[ShardOf[k]].committed : v.key = k /\ v.txn = t
HeldOrCommitted(t, k) == kv[ShardOf[k]].owner[k] = t \/ Committed(t, k)

\* All shards or none: once a shard has committed a transaction, every write of
\* it that any shard acknowledged is committed too, or still held to be committed
\* (Commit: "All DNShards prepared means the transaction is committed").
Atomicity ==
  \A t \in Txn, s \in Shard :
    CommittedOn(t, s) => \A k \in acked[t] : HeldOrCommitted(t, k)

\* What Commit answered is what happens: a transaction whose client was told
\* that it failed or rolled back is committed nowhere, ever.
FailedIsFinal ==
  \A t \in Txn : reply[t] \in {"failed", "rolledBack"} =>
    \A s \in Shard : ~CommittedOn(t, s)

\* ... and of one whose client was told that it is committed, every acknowledged
\* write is committed or still held for the commit task, on every shard.
CommittedIsKept ==
  \A t \in Txn : reply[t] = "committed" =>
    \A k \in acked[t] : HeldOrCommitted(t, k)

\* A transaction has one commit timestamp, on whatever shards and whichever of
\* Commit, the commit task or recovery chose it.
CommitTSAgree ==
  \A s, x \in Shard :
    \A v \in kv[s].committed, w \in kv[x].committed : v.txn = w.txn => v.ts = w.ts

\* "For a 2pc transaction, commitTS = max(preparedTS)" (proto/txn.proto:84),
\* which is what lets a reader ignore a transaction prepared after its snapshot.
preparedTSs(t) ==
  {p \in 1 .. MaxOf({clock[s] : s \in Shard}) :
     \E s \in Shard : \E i \in DOMAIN log[s] :
       log[s][i].txn = t /\ log[s][i].status = "Prepared" /\ log[s][i].preparedTS = p}
MaxOfPrepared ==
  \A s \in Shard : \A v \in kv[s].committed :
    preparedTSs(v.txn) # {} => v.ts = MaxOf(preparedTSs(v.txn))

\* ... as Commit takes care of.  Recovery does not.
CommitTSIsMax == ~faults.restarted => MaxOfPrepared

\* Two reads at one snapshot, on different shards, see all of a transaction or
\* nothing: who sees its write of one key sees it, or a later one, of the other.
AtomicVisibility ==
  \A r, q \in reads :
    r.ts = q.ts /\ r.txn # NoTxn /\ q.key \in acked[r.txn] =>
      \E v \in kv[ShardOf[q.key]].committed, w \in kv[ShardOf[r.key]].committed :
        /\ v.key = q.key /\ v.txn = q.txn
        /\ w.key = r.key /\ w.txn = r.txn
        /\ v.ts >= w.ts

\* No step of a transaction brings down a process, as long as no shard has had
\* to recover.
AllUp == \A s \in Shard : up[s]
NeverPanics == ~faults.restarted => AllUp

\* What the storage holds uncommitted has a context in the service, without
\* which nobody commits it or rolls it back ("The transaction is removed from
\* the map after it has been committed or aborted", service.go:49).
HeldHasContext ==
  \A s \in Shard, t \in Txn :
    up[s] /\ kv[s].txn[t] # NoMeta => \E c \in Ctx : heap[s][c].txn = t

\* A reader that must wait for a transaction finds its context: "The transaction
\* can not found, it means the concurrent transaction to be waited for has
\* already been committed or aborted" (service_cn_handler.go:71).
WaitedIsFound ==
  \A key \in Key, ts \in faults.readTS :
    LET s == ShardOf[key] IN
    up[s] /\ needWait(kv[s], key, ts) => Found(s, kv[s].owner[key])

(***************************************************************************)
(* Progress.  Requests are sent until they are answered and the stopper runs  *)
(* every task, so requests, tasks and Commit's second half are fair; so are   *)
(* the ticker of gcZombieTxn and a reader whose waiter has been notified.     *)
(* Clients, failures and timeouts are not.                                   *)
(***************************************************************************)
Fairness ==
  /\ \A t \in Txn :
       /\ WF_vars(CommitStep(t))
       /\ \A s \in Shard :
            /\ WF_vars(\E m \in net : m.txn = t /\ m.to = s /\ Handle(m))
            /\ WF_vars(GcZombieTxn(s, t))
  /\ \A s \in Shard, c \in Ctx : WF_vars(TaskStep(s, c))
  /\ WF_vars(ContinueRead)

FairSpec == Spec /\ Fairness

\* A transaction whose client was told that it is committed gets committed on
\* every shard it wrote to, through restarts of the shards (startAsyncCommitTask
\* and recovery), unless a process dies for good.
CommitCompletes ==
  \A t \in Txn : reply[t] = "committed" ~>
    ~AllUp \/ \A k \in acked[t] : Committed(t, k)

\* A context in the map goes away once its client has finished, even if a Write
\* that was delayed put it there ("We use the zombieTimeout setting to solve this
\* problem", service.go:58).
ZombiesAreCollected ==
  \A s \in Shard, t \in Txn :
    faults.zombieGC /\ client[t] = "closed" ~> (Found(s, t) => ~up[s])

\* A read that waits for a transaction is told when that is over, whichever of
\* Commit, the commit task or a rollback ends it on its shard (notifier.close):
\* the read does not depend on its timeout, as long as no shard restarts.
ReadsReturn ==
  reading # NotReading ~> reading = NotReading \/ faults.restarted \/ ~AllUp
=============================================================================
