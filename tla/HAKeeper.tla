------------------------------ MODULE HAKeeper ------------------------------
(***************************************************************************)
(* HAKeeper and the log stores it keeps alive: the check loop of its       *)
(* leader (pkg/logservice/store_hakeeper_check.go, pkg/hakeeper/checkers/  *)
(* coordinator.go) over the state machine of HAKeeperRSM, the heartbeats   *)
(* and commands of the log stores (service_commands.go, store.go), and the *)
(* raft group of one log shard.                                            *)
(*                                                                         *)
(* confs is the history of the group's configurations, which dragonboat    *)
(* keeps: its length is the ConfigChangeIndex.                             *)
(***************************************************************************)
EXTENDS HAKeeperCheckers

CONSTANTS
  Leader,               \* log stores with a HAKeeper replica, by name
  CheckBootstrapCycles, \* checkBootstrapCycles
  Scenarios             \* initial state and number of faults of each kind

VARIABLES
  rsm,     \* HAKeeper's state machine
  term,    \* raft term of HAKeeper's group, and
  leader,  \* its leader
  hk,      \* [Leader -> the memory of store_hakeeper_check.go]
  confs,   \* configurations of the log shard, each [replica ID -> store]
  stores,  \* [Store -> the log store]
  late,    \* heartbeats whose sender gave up, still to be applied
  groups,  \* history: initial members that replicas were started with
  killed,  \* history: replicas that handleKillZombie has stopped
  budget   \* faults, batches of IDs and configuration changes left

vars == <<rsm, term, leader, hk, confs, stores, late, groups, killed, budget>>

Conf == IF confs = <<>> THEN NoMembers ELSE Last(confs)

Spend(kind) == /\ budget[kind] > 0
               /\ budget' = [budget EXCEPT ![kind] = @ - 1]

(* Crashes and slow heartbeats hit the stores that a scenario names.       *)
SpendOn(s, kind) == s \in budget.faulty /\ Spend(kind)

(***************************************************************************)
(* Initial states: an empty cluster; one that has been bootstrapped on the *)
(* first stores; and one that has since replaced the replica of its dead   *)
(* store N by a new one, which has yet to be started on store N+1.         *)
(***************************************************************************)
NewLeader == [pc |-> "idle", term |-> 0, st |-> <<>>, cmds |-> <<>>, ops |-> {},
              nextID |-> 1, lastID |-> 0, cycles |-> 0, teardown |-> {}]

(* A store that the scenario leaves out has not been started yet.          *)
NewStore(s, id) ==
  [up |-> s \in budget.present, closing |-> FALSE, running |-> id,
   known |-> IF id = 0 THEN 0 ELSE 1, metadata |-> {id} \ {0}, inbox |-> <<>>]

N == NumberOfReplicas
FirstMembers == [i \in 1..N |-> i]
Replaced == [i \in (1..N + 1) \ {N} |-> i]

Bootstrapped ==
  [NewRSMState EXCEPT
     !.State = Running, !.Term = 1, !.NextID = IDBatch,
     !.Shard = [Epoch |-> 1, Replicas |-> FirstMembers],
     !.Stores = [s \in budget.present |->
                   IF s \in 1..N THEN [ReplicaID |-> s, Epoch |-> 1]
                   ELSE [ReplicaID |-> 0, Epoch |-> 0]]]

InitEmpty ==
  /\ rsm = NewRSMState
  /\ hk = [h \in Leader |-> NewLeader]
  /\ confs = <<>> /\ groups = {}
  /\ stores = [s \in Store |-> NewStore(s, 0)]

InitWith(r, c, ops, nextID, dead, known) ==
  /\ rsm = r
  /\ hk = [h \in Leader |->
             IF h = leader
             THEN [NewLeader EXCEPT !.ops = ops, !.nextID = nextID,
                                    !.lastID = IDBatch,
                                    !.cycles = CheckBootstrapCycles]
             ELSE NewLeader]
  /\ confs = c /\ groups = {FirstMembers}
  /\ stores = [s \in Store |->
                 IF s \in dead THEN [NewStore(s, s) EXCEPT !.up = FALSE,
                                       !.running = 0, !.known = 0]
                 ELSE IF s \in 1..N THEN [NewStore(s, s) EXCEPT !.known = known]
                 ELSE NewStore(s, 0)]

Init ==
  /\ budget \in Scenarios
  /\ term = 1
  /\ leader \in Leader
  /\ late = {} /\ killed = {}
  /\ \/ budget.start = "empty" /\ InitEmpty
     \/ /\ budget.start = "bootstrapped"
        /\ InitWith(Bootstrapped, <<FirstMembers>>, {}, N + 1, {}, 1)
     \/ /\ budget.start = "replaced"
        /\ InitWith([Bootstrapped EXCEPT
                       !.Shard = [Epoch |-> 3, Replicas |-> Replaced],
                       !.Stores = [s \in DOMAIN @ |->
                                     IF s < N THEN [ReplicaID |-> s, Epoch |-> 3]
                                     ELSE @[s]],
                       !.expired = {N}],
                    <<FirstMembers, [i \in 1..N - 1 |-> i], Replaced>>,
                    {Op("Add", N + 1, N + 1)}, N + 2, {N}, 3)

(***************************************************************************)
(* The check loop of the leader.  A check reads the state machine, may     *)
(* have to propose GetID, decides, and proposes its commands; the leader   *)
(* may have lost its office or the state may have moved on in between.     *)
(***************************************************************************)
SetHK(h, r) == hk' = [hk EXCEPT ![h] = r]
groupVars == <<confs, stores, late, groups, killed>>

Proposing(me, cmds) ==
  IF cmds = <<>> THEN [me EXCEPT !.pc = "idle", !.st = <<>>]
  ELSE [me EXCEPT !.pc = "propose", !.st = <<>>, !.cmds = cmds]

(* bootstrap: the commands for any stores that may be the most recent.     *)
BootstrapPlans(me, st) ==
  IF Cardinality(DOMAIN st.Stores) < NumberOfReplicas
  THEN {Proposing(me, <<>>)}
  ELSE {Proposing([me EXCEPT !.nextID = @ + NumberOfReplicas],
                  bootstrapLogService(S, me.nextID)) :
          S \in bootstrapStores(st)}

(* healthCheck: Coordinator.Check with the operators that                  *)
(* RemoveFinishedOperator leaves.  A check that finds no store for a new   *)
(* replica has taken an ID for it all the same; as a bound, such checks    *)
(* end before they use up the batch.                                       *)
HealthPlans(me, st, ops) ==
  LET fits == newAdds(st, ops) = 0 \/ candidates(st) # {}
      stop == IF me.teardown # {} THEN me.teardown ELSE DOMAIN st.Stores
  IN  IF me.teardown # {} \/ ~healthy(st)
      THEN {Proposing([me EXCEPT !.ops = ops, !.teardown = stop],
                      shutdownStores(stop))}
      ELSE IF fits /\ buildPanics(st, ops)
      THEN {[me EXCEPT !.pc = "panicked", !.st = <<>>]}
      ELSE IF ~fits /\ me.lastID - me.nextID < NumberOfReplicas THEN {}
      ELSE {Proposing([me EXCEPT
                         !.ops = ops \cup {o \in Range(new) : o.kind # "Kill"},
                         !.nextID = @ + IF fits THEN newAdds(st, ops) ELSE 1],
                      Dispatch(st, new)) : new \in Check(st, ops, me.nextID)}

Plans(me, st, ops) == IF st.State = Bootstrapping THEN BootstrapPlans(me, st)
                      ELSE HealthPlans(me, st, ops)

(* RemoveFinishedOperator shrinks the slice it ranges over, which may make *)
(* it skip finished operators; they stay until the next check.             *)
RemoveFinishedOperator(me, st, skips) ==
  LET finished == {o \in me.ops : IsFinish(st, o)}
  IN  {me.ops \ (finished \ skipped) :
         skipped \in {S \in SUBSET finished : S = {} <=> ~skips}}

(* hakeeperCheck in the states Bootstrapping and Running; a check that has *)
(* IDs left goes on without a step in between.                             *)
CheckRead(h, skips) ==
  LET st == CheckerState(rsm)
      me == [hk[h] EXCEPT !.term = term]
  IN  /\ h = leader /\ me.pc = "idle" /\ ~rsm.panicked
      /\ rsm.State \in {Bootstrapping, Running}
      /\ IF me.lastID - me.nextID + 1 < NumberOfReplicas
         THEN ~skips /\ SetHK(h, [me EXCEPT !.pc = "getid", !.st = st])
         ELSE \E ops \in RemoveFinishedOperator(me, st, skips) :
                \E r \in Plans(me, st, ops) : SetHK(h, r)
      /\ IF skips THEN Spend("skips") ELSE UNCHANGED budget
      /\ UNCHANGED <<rsm, term, leader, groupVars>>

(* updateIDAlloc, then the rest of getScheduleCommand.                     *)
GetID(h) ==
  LET me == [hk[h] EXCEPT !.nextID = rsm.NextID + 1,
                          !.lastID = rsm.NextID + IDBatch]
  IN  /\ me.pc = "getid" /\ ~rsm.panicked
      /\ Spend("batches")
      /\ rsm' = handleGetIDCmd(rsm)
      /\ IF assertState(rsm)
         THEN \E ops \in RemoveFinishedOperator(me, me.st, FALSE) :
                \E r \in Plans(me, me.st, ops) : SetHK(h, r)
         ELSE UNCHANGED hk
      /\ UNCHANGED <<term, leader, groupVars>>

(* A check that has commands for DN or CN stores only.                     *)
OtherCommands(h) ==
  /\ h = leader /\ hk[h].pc = "idle" /\ rsm.State = Running /\ ~rsm.panicked
  /\ SetHK(h, [hk[h] EXCEPT !.pc = "propose", !.term = term, !.cmds = <<>>])
  /\ Spend("others")
  /\ UNCHANGED <<rsm, term, leader, groupVars>>

Batch(h) == [Term |-> hk[h].term, Commands |-> hk[h].cmds]

(* addScheduleCommands                                                     *)
Propose(h) ==
  /\ hk[h].pc = "propose" /\ ~rsm.panicked
  /\ rsm' = handleUpdateCommandsCmd(rsm, Batch(h))
  /\ SetHK(h, IF HasBootstrapping(Batch(h))
              THEN [hk[h] EXCEPT !.pc = "assertReceived", !.cmds = <<>>,
                                 !.cycles = CheckBootstrapCycles]
              ELSE [hk[h] EXCEPT !.pc = "idle", !.cmds = <<>>])
  /\ UNCHANGED <<term, leader, groupVars, budget>>

(* It returns an error; the batch may have been applied all the same.      *)
ProposeFails(h) ==
  /\ hk[h].pc = "propose" /\ ~rsm.panicked
  /\ rsm' \in {rsm, handleUpdateCommandsCmd(rsm, Batch(h))}
  /\ SetHK(h, [hk[h] EXCEPT !.pc = "idle", !.cmds = <<>>])
  /\ Spend("errors")
  /\ UNCHANGED <<term, leader, groupVars>>

(* It panics when the state machine is elsewhere.                         *)
assertHAKeeperState(h, at, state, next) ==
  /\ hk[h].pc = at /\ ~rsm.panicked
  /\ SetHK(h, [hk[h] EXCEPT !.pc = IF rsm.State = state THEN next
                                   ELSE "panicked",
                            !.st = IF rsm.State = state /\ next # "idle"
                                   THEN @ ELSE <<>>])
  /\ UNCHANGED <<rsm, term, leader, groupVars, budget>>

setBootstrapState(h, at, state, next) ==
  /\ hk[h].pc = at /\ ~rsm.panicked
  /\ rsm' = handleSetStateCmd(rsm, state)
  /\ SetHK(h, [hk[h] EXCEPT !.pc = next])
  /\ UNCHANGED <<term, leader, groupVars, budget>>

(* checkBootstrap: with no cycles left the bootstrap has failed, then it   *)
(* goes on to look at the shards all the same.                             *)
CheckBootstrapState(h) ==
  LET st == CheckerState(rsm)
  IN  /\ h = leader /\ hk[h].pc = "idle" /\ ~rsm.panicked
      /\ rsm.State = CommandsReceived
      /\ SetHK(h, IF hk[h].cycles = 0
                  THEN [hk[h] EXCEPT !.pc = "setFailed", !.st = st]
                  ELSE IF CheckBootstrap(st)
                  THEN [hk[h] EXCEPT !.pc = "setRunning"]
                  ELSE [hk[h] EXCEPT !.cycles = @ - 1])
      /\ UNCHANGED <<rsm, term, leader, groupVars, budget>>

(* The rest of checkBootstrap.  After a failure bootstrapCheckCycles wraps *)
(* around, but nobody reads it again: Failed is final.                     *)
BootstrapStep(h) ==
  \/ assertHAKeeperState(h, "assertReceived", CommandsReceived, "idle")
  \/ setBootstrapState(h, "setFailed", Failed, "assertFailed")
  \/ assertHAKeeperState(h, "assertFailed", Failed,
       IF hk[h].pc = "assertFailed" /\ CheckBootstrap(hk[h].st)
       THEN "setRunning" ELSE "idle")
  \/ setBootstrapState(h, "setRunning", Running, "assertRunning")
  \/ assertHAKeeperState(h, "assertRunning", Running, "idle")

(* handleBootstrapFailure                                                  *)
HandleBootstrapFailure(h) ==
  /\ h = leader /\ hk[h].pc = "idle" /\ rsm.State = Failed /\ ~rsm.panicked
  /\ SetHK(h, [hk[h] EXCEPT !.pc = "panicked"])
  /\ UNCHANGED <<rsm, term, leader, groupVars, budget>>

Effective(op) ==
  CASE op.kind = "Add" -> op.ReplicaID \in DOMAIN Conf
    [] op.kind = "Remove" -> op.ReplicaID \notin DOMAIN Conf
    [] op.kind = "Start" -> stores[op.StoreID].running # 0

(* The heartbeats since have fetched all commands that a store waits for,  *)
(* and told HAKeeper the configuration in force.                           *)
Settled ==
  /\ rsm.Shard.Epoch = Len(confs)
  /\ \A s \in Store : stores[s].up /\ ~stores[s].closing =>
       rsm.ScheduleCommands[s] = <<>> /\ stores[s].inbox = <<>>

(* Mutant: only an operator that is done expires.                          *)
OperatorExpiresDone(h, early) ==
  /\ hk[h].pc = "idle" /\ early
  /\ \E op \in hk[h].ops :
       /\ Effective(op)
       /\ SetHK(h, [hk[h] EXCEPT !.ops = @ \ {op}])
  /\ Spend("expiries")
  /\ UNCHANGED <<rsm, term, leader, groupVars>>

(* CheckExpired: an operator is 15 seconds old, which is long enough for   *)
(* several heartbeats, or those take longer, too (early).                  *)
OperatorExpires(h, early) ==
  /\ hk[h].pc = "idle"
  /\ \E op \in hk[h].ops :
       /\ early <=> Effective(op) \/ ~Settled
       /\ SetHK(h, [hk[h] EXCEPT !.ops = @ \ {op}])
  /\ IF early THEN Spend("expiries") ELSE UNCHANGED budget
  /\ UNCHANGED <<rsm, term, leader, groupVars>>

LeaderChange(h) ==
  /\ hk[h].pc # "panicked"
  /\ leader' = h /\ term' = term + 1
  /\ Spend("leaders")
  /\ UNCHANGED <<rsm, hk, groupVars>>

(* BootstrapHAKeeper: setInitialClusterInfo.                               *)
SetInitialClusterInfo ==
  /\ rsm.State = Created
  /\ rsm' = handleInitialClusterRequestCmd(rsm)
  /\ UNCHANGED <<term, leader, hk, groupVars, budget>>

(***************************************************************************)
(* The log stores.  A store sends a heartbeat, then executes the commands  *)
(* of the answer one after the other.                                      *)
(***************************************************************************)
SetStore(s, r) == stores' = [stores EXCEPT ![s] = r]
hkVars == <<term, leader, hk>>

(* Replica i has been removed by the configuration of epoch e.             *)
RemovedBy(i, e) ==
  \E j \in 2..e : i \in DOMAIN confs[j - 1] /\ i \notin DOMAIN confs[j]

(* What a replica may have applied: it lags behind, is pending (0) until   *)
(* it has applied a configuration, and stops when it applies its removal.  *)
Epochs(s) ==
  IF stores[s].running = 0 THEN {0}
  ELSE {e \in stores[s].known..Len(confs) : ~RemovedBy(stores[s].running, e)}

(* getHeartbeatMessage                                                     *)
Message(s, e) == IF e = 0 THEN Heartbeat(s, 0, 0, NoMembers)
                 ELSE Heartbeat(s, stores[s].running, e, confs[e])

Sends(s) == /\ stores[s].up /\ ~stores[s].closing /\ stores[s].inbox = <<>>
            /\ ~rsm.panicked

SendHeartbeat(s, e) ==
  /\ Sends(s) /\ e \in Epochs(s)
  /\ rsm' = handleLogHeartbeat(rsm, Message(s, e))
  /\ SetStore(s, [stores[s] EXCEPT !.known = e,
                                   !.inbox = rsm.ScheduleCommands[s]])
  /\ UNCHANGED <<hkVars, confs, late, groups, killed, budget>>

(* The sender's context ends; the heartbeat is applied later or never, and *)
(* the commands of its answer are lost.                                    *)
HeartbeatGivenUp(s, e) ==
  /\ Sends(s) /\ e \in Epochs(s)
  /\ late' = late \cup {Message(s, e)}
  /\ SetStore(s, [stores[s] EXCEPT !.known = e])
  /\ SpendOn(s, "late")
  /\ UNCHANGED <<rsm, hkVars, confs, groups, killed>>

LateHeartbeat(m) ==
  /\ ~rsm.panicked
  /\ rsm' = handleLogHeartbeat(rsm, m)
  /\ late' = late \ {m}
  /\ UNCHANGED <<hkVars, confs, stores, groups, killed, budget>>

(* The command a store is executing.                                       *)
Executes(s, type) == /\ stores[s].inbox # <<>>
                     /\ Head(stores[s].inbox).ChangeType = type
Executed(s) == [stores[s] EXCEPT !.inbox = Tail(@)]

(* A majority of the members runs, and s hosts one of them.                *)
Available(s) ==
  /\ stores[s].running \in DOMAIN Conf
  /\ 2 * Cardinality({i \in DOMAIN Conf : /\ stores[Conf[i]].up
                                          /\ stores[Conf[i]].running = i})
       > Cardinality(DOMAIN Conf)

(* dragonboat's ordered configuration changes: the change is rejected      *)
(* unless it was decided for the configuration in force.                   *)
Accepts(c) ==
  /\ c.Epoch = Len(confs) /\ budget.changes > 0
  /\ \/ /\ c.ChangeType = "Add"
        /\ c.ReplicaID \notin DOMAIN Conf
     \/ /\ c.ChangeType = "Remove"
        /\ c.ReplicaID \in DOMAIN Conf /\ Cardinality(DOMAIN Conf) > 1

Changed(c) ==
  IF c.ChangeType = "Remove" THEN Restrict(Conf, DOMAIN Conf \ {c.ReplicaID})
  ELSE [i \in DOMAIN Conf \cup {c.ReplicaID} |->
          IF i = c.ReplicaID THEN c.StoreID ELSE Conf[i]]

(* handleAddReplica and handleRemoveReplica.  The metadata record that     *)
(* removeReplica deletes is in the file of the replica's own store.        *)
ChangeReplicas(s) ==
  LET c == Head(stores[s].inbox)
  IN  /\ Executes(s, "Add") \/ Executes(s, "Remove")
      /\ Available(s) /\ Accepts(c)
      /\ confs' = Append(confs, Changed(c))
      /\ SetStore(s, Executed(s))
      /\ Spend("changes")
      /\ UNCHANGED <<rsm, hkVars, late, groups, killed>>

(* The request is rejected or times out.                                   *)
ChangeReplicasFails(s) ==
  LET c == Head(stores[s].inbox)
  IN  /\ Executes(s, "Add") \/ Executes(s, "Remove")
      /\ IF Available(s) /\ Accepts(c) THEN Spend("errors")
         ELSE UNCHANGED budget
      /\ SetStore(s, Executed(s))
      /\ UNCHANGED <<rsm, hkVars, confs, late, groups, killed>>

(* Mutant: the metadata file is not written.                               *)
StartReplicaOnly(s) ==
  LET c == Head(stores[s].inbox)
      founds == c.InitialMembers # NoMembers
  IN  /\ Executes(s, "Start")
      /\ SetStore(s, [Executed(s) EXCEPT !.running = c.ReplicaID, !.known = 0])
      /\ groups' = IF founds THEN groups \cup {c.InitialMembers} ELSE groups
      /\ confs' = IF founds /\ confs = <<>> THEN <<c.InitialMembers>> ELSE confs
      /\ UNCHANGED <<rsm, hkVars, late, killed, budget>>

(* handleStartReplica: with initial members it founds the group, without   *)
(* it joins; a store runs one replica of a shard.                          *)
StartReplica(s) ==
  LET c == Head(stores[s].inbox)
      founds == c.InitialMembers # NoMembers
  IN  /\ Executes(s, "Start")
      /\ IF stores[s].running # 0
         THEN SetStore(s, Executed(s)) /\ UNCHANGED <<confs, groups>>
         ELSE /\ SetStore(s, [Executed(s) EXCEPT !.running = c.ReplicaID,
                                !.known = 0,
                                !.metadata = @ \cup {c.ReplicaID}])
              /\ groups' = IF founds THEN groups \cup {c.InitialMembers}
                           ELSE groups
              /\ confs' = IF founds /\ confs = <<>> THEN <<c.InitialMembers>>
                          ELSE confs
      /\ UNCHANGED <<rsm, hkVars, late, killed, budget>>

(* handleKillZombie                                                        *)
KillZombie(s) ==
  LET id == Head(stores[s].inbox).ReplicaID
      stops == stores[s].running = id
  IN  /\ Executes(s, "Kill")
      /\ SetStore(s, [Executed(s) EXCEPT
                        !.running = IF stops THEN 0 ELSE @,
                        !.known = IF stops THEN 0 ELSE @,
                        !.metadata = @ \ {id}])
      /\ killed' = killed \cup {id}
      /\ UNCHANGED <<rsm, hkVars, confs, late, groups, budget>>

(* handleShutdownStore: Close waits for all tasks of the stopper, this one *)
(* among them; the heartbeats end and the replicas go on.                  *)
ShutdownStore(s) ==
  /\ Executes(s, "Shutdown")
  /\ SetStore(s, [stores[s] EXCEPT !.closing = TRUE, !.inbox = <<>>])
  /\ UNCHANGED <<rsm, hkVars, confs, late, groups, killed, budget>>

(* A replica that applies its own removal stops; its metadata stays.       *)
RemovedStops(s) ==
  /\ stores[s].up /\ stores[s].running # 0
  /\ RemovedBy(stores[s].running, Len(confs))
  /\ SetStore(s, [stores[s] EXCEPT !.running = 0, !.known = 0])
  /\ UNCHANGED <<rsm, hkVars, confs, late, groups, killed, budget>>

Crash(s) ==
  /\ stores[s].up
  /\ SetStore(s, [stores[s] EXCEPT !.up = FALSE, !.closing = FALSE,
                                   !.running = 0, !.known = 0, !.inbox = <<>>])
  /\ SpendOn(s, "crashes")
  /\ UNCHANGED <<rsm, hkVars, confs, late, groups, killed>>

(* startReplicas: the replicas of the metadata file; the service does not  *)
(* come up if it names two of one shard.                                   *)
Restart(s) ==
  /\ ~stores[s].up /\ Cardinality(stores[s].metadata) < 2
  /\ SetStore(s, [stores[s] EXCEPT !.up = TRUE,
                                   !.running = Max(stores[s].metadata \cup {0})])
  /\ Spend("restarts")
  /\ UNCHANGED <<rsm, hkVars, confs, late, groups, killed>>

(* HAKeeper's ticks pass without a heartbeat: of a store that sends none,  *)
(* or of one that is slow.                                                 *)
ExpireStore(s, slow) ==
  /\ s \in DOMAIN rsm.Stores \ rsm.expired
  /\ ~rsm.panicked
  /\ slow <=> stores[s].up /\ ~stores[s].closing
  /\ rsm' = handleTick(rsm, s)
  /\ IF slow THEN SpendOn(s, "slow") ELSE UNCHANGED budget
  /\ UNCHANGED <<hkVars, groupVars>>

LeaderStep(h) ==
  \/ \E skips \in BOOLEAN : CheckRead(h, skips)
  \/ GetID(h) \/ OtherCommands(h) \/ Propose(h) \/ ProposeFails(h)
  \/ CheckBootstrapState(h) \/ BootstrapStep(h) \/ HandleBootstrapFailure(h)
  \/ \E early \in BOOLEAN : OperatorExpires(h, early)
  \/ LeaderChange(h)

StoreStep(s) ==
  \/ \E e \in Epochs(s) : SendHeartbeat(s, e) \/ HeartbeatGivenUp(s, e)
  \/ ChangeReplicas(s) \/ ChangeReplicasFails(s) \/ StartReplica(s)
  \/ KillZombie(s) \/ ShutdownStore(s) \/ RemovedStops(s)
  \/ Crash(s) \/ Restart(s)
  \/ \E slow \in BOOLEAN : ExpireStore(s, slow)

Next ==
  \/ \E h \in Leader : LeaderStep(h)
  \/ \E s \in Store : StoreStep(s)
  \/ \E m \in late : LateHeartbeat(m)
  \/ SetInitialClusterInfo

Spec == Init /\ [][Next]_vars

(***************************************************************************)
(* Fairness: the tickers of the check loop and of the heartbeats, the      *)
(* commands in an answer, a running replica that gets to know its group's  *)
(* configuration, and time.  Faults are not fair.                          *)
(***************************************************************************)
FairLeader(h) ==
  /\ WF_vars(CheckRead(h, FALSE)) /\ WF_vars(GetID(h)) /\ WF_vars(Propose(h))
  /\ WF_vars(CheckBootstrapState(h)) /\ WF_vars(BootstrapStep(h))
  /\ WF_vars(OperatorExpires(h, FALSE))

FairStore(s) ==
  /\ WF_vars(SendHeartbeat(s, Max(Epochs(s))))
  /\ WF_vars(ChangeReplicas(s) \/ ChangeReplicasFails(s))
  /\ WF_vars(StartReplica(s)) /\ WF_vars(KillZombie(s))
  /\ WF_vars(ShutdownStore(s)) /\ WF_vars(ExpireStore(s, FALSE))

FairSpec ==
  /\ Spec
  /\ \A h \in Leader : FairLeader(h)
  /\ \A s \in Store : FairStore(s)
  /\ WF_vars(SetInitialClusterInfo)

(***************************************************************************)
(* Properties                                                              *)
(***************************************************************************)

(* Types, and what the records of stores and leaders always satisfy.       *)
TypeOK ==
  /\ rsm.State \in {Created, Bootstrapping, CommandsReceived, Failed, Running}
  /\ rsm.Term <= term /\ rsm.Shard.Epoch <= Len(confs)
  /\ leader \in Leader
  /\ \A h \in Leader : /\ hk[h].cycles \in 0..CheckBootstrapCycles
                       /\ hk[h].nextID <= hk[h].lastID + 1
                       /\ hk[h].lastID <= rsm.NextID
  /\ \A s \in Store : /\ stores[s].running \in stores[s].metadata \cup {0}
                      /\ stores[s].known <= Len(confs)
                      /\ stores[s].running = 0 => stores[s].known = 0

(* However leaders change while the cluster is bootstrapped, all replicas  *)
(* that are started with initial members get the same ones: the log shard  *)
(* is founded once (handleUpdateCommandsCmd takes bootstrap commands in    *)
(* the state Bootstrapping only).                                          *)
FoundedOnce == Cardinality(groups) <= 1

(* Lost, repeated and late commands never make the shard larger than       *)
(* NumberOfReplicas nor put two of its replicas on one store: a change is  *)
(* applied to the configuration it was decided for.                        *)
PlacementIsRight ==
  /\ Cardinality(DOMAIN Conf) <= NumberOfReplicas
  /\ \A i, j \in DOMAIN Conf : Conf[i] = Conf[j] => i = j

(* handleKillZombie hits replicas that have left the group, never one that *)
(* is a member and only lags behind.                                       *)
OnlyZombiesAreKilled == killed \cap DOMAIN Conf = {}

(* A killed replica is not started again, by a delayed command of an old   *)
(* leader or from the metadata file.                                       *)
KilledStayDead == \A s \in Store : stores[s].running \notin killed

(* The shard gets back to its full size: in the end each of its N replicas *)
(* runs on a store that is up, although a store has crashed and a command  *)
(* or the answer to a heartbeat was lost.                                  *)
RepairCompletes ==
  <>[](/\ Cardinality(DOMAIN Conf) = N
       /\ \A i \in DOMAIN Conf : /\ stores[Conf[i]].up
                                  /\ stores[Conf[i]].running = i)
=============================================================================
