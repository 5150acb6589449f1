-------------------------- MODULE HAKeeperCheckers --------------------------
(***************************************************************************)
(* What the leader of HAKeeper decides from a CheckerState: the checkers   *)
(* of the log service and of the system's health, the operators and the    *)
(* bootstrap manager (pkg/hakeeper/checkers, operator, bootstrap).         *)
(*                                                                         *)
(* st is the part of the state machine that StateQuery returns.  An        *)
(* operator is the record of its single step.                              *)
(***************************************************************************)
EXTENDS HAKeeperRSM, Integers, FiniteSetsExt, SequencesExt

CheckerState(r) == [State |-> r.State, Shard |-> r.Shard, Stores |-> r.Stores,
                    expired |-> r.expired]

workingStores(st) == DOMAIN st.Stores \ st.expired
expiredStores(st) == DOMAIN st.Stores \cap st.expired

Reported(st, stores) == {st.Stores[s].ReplicaID : s \in stores} \ {0}

(***************************************************************************)
(* syshealth.Check: a shard with a replica on an expired store must have   *)
(* a majority of replicas reported by working stores.                      *)
(***************************************************************************)
healthy(st) ==
  \/ Reported(st, expiredStores(st)) = {}
  \/ 2 * Cardinality(Reported(st, workingStores(st))) > NumberOfReplicas

(***************************************************************************)
(* checkers/logservice: the replicas that should stay, the ones that must  *)
(* be started, added, removed or killed.                                   *)
(***************************************************************************)
Lowest(S, n) == {x \in S : Cardinality({y \in S : y < x}) < n}

(* Mutant: replicas on expired stores do not count.                        *)
toAddAlive(st) ==
  IF st.Shard.Epoch = 0 THEN 0
  ELSE Max({NumberOfReplicas
            - Cardinality({i \in DOMAIN st.Shard.Replicas :
                             st.Shard.Replicas[i] \notin expiredStores(st)}), 0})

toAdd(st) ==
  IF st.Shard.Epoch = 0 THEN 0
  ELSE Max({NumberOfReplicas - Cardinality(DOMAIN st.Shard.Replicas), 0})

(* Replicas on expired stores go; of the others as many as are too many,   *)
(* the oldest first (LeaderID = NoLeader).                                 *)
fixedLogShardInfo(st) ==
  LET all == DOMAIN st.Shard.Replicas
      alive == {i \in all : st.Shard.Replicas[i] \notin expiredStores(st)}
  IN  alive \ Lowest(alive, Cardinality(alive) - NumberOfReplicas)

toRemove(st) == DOMAIN st.Shard.Replicas \ fixedLogShardInfo(st)

replicaStarted(st, s) == s \in DOMAIN st.Stores /\ st.Stores[s].ReplicaID # 0

toStart(st) ==
  {i \in fixedLogShardInfo(st) : ~replicaStarted(st, st.Shard.Replicas[i])}

(* Mutant: a replica that lags behind is taken for a zombie.               *)
zombiesByEpoch(st) ==
  {s \in workingStores(st) : /\ st.Stores[s].ReplicaID # 0
                             /\ st.Stores[s].Epoch < st.Shard.Epoch}

zombies(st) ==
  {s \in workingStores(st) :
     /\ st.Stores[s].ReplicaID \notin DOMAIN st.Shard.Replicas \cup {0}
     /\ st.Stores[s].Epoch < st.Shard.Epoch}

candidates(st) == workingStores(st) \ Range(st.Shard.Replicas)
selectStore(st) == Min(candidates(st))

(***************************************************************************)
(* operator: steps, when they are finished, and the commands they become.  *)
(***************************************************************************)
Op(kind, id, store) == [kind |-> kind, ReplicaID |-> id, StoreID |-> store]

IsFinish(st, op) ==
  CASE op.kind = "Add" -> op.ReplicaID \in DOMAIN st.Shard.Replicas
    [] op.kind = "Remove" -> op.ReplicaID \notin DOMAIN st.Shard.Replicas
    [] op.kind = "Start" -> replicaStarted(st, op.StoreID)
                            \/ op.StoreID \notin DOMAIN st.Stores

Executing(ops, kind) == {o.ReplicaID : o \in {p \in ops : p.kind = kind}}

(* The peer that proposes the change: the smallest one that stays.         *)
buildTarget(st, removed) ==
  Min({st.Shard.Replicas[i] : i \in DOMAIN st.Shard.Replicas \ removed})

(* buildSteps indexes an empty list when the last peer is to be removed.   *)
buildPanics(st, ops) ==
  /\ toRemove(st) \ Executing(ops, "Remove") # {}
  /\ Cardinality(DOMAIN st.Shard.Replicas) = 1

generateScheduleCommand(st, op) ==
  CASE op.kind = "Add" ->
         Command(buildTarget(st, {}), "Add", op.StoreID, op.ReplicaID,
                 st.Shard.Epoch, NoMembers)
    [] op.kind = "Remove" ->
         Command(buildTarget(st, {op.ReplicaID}), "Remove", op.StoreID,
                 op.ReplicaID, st.Shard.Epoch, NoMembers)
    [] op.kind \in {"Start", "Kill"} ->
         Command(op.StoreID, op.kind, op.StoreID, op.ReplicaID, 0, NoMembers)

(***************************************************************************)
(* logservice.Check: the new operators, in the order of their kinds and,   *)
(* within a kind, in the order in which Go ranges over a map.  Without a   *)
(* store for a new replica it returns no operator at all.                  *)
(***************************************************************************)
newAdds(st, ops) == Max({toAdd(st) - Cardinality(Executing(ops, "Add")), 0})

Check(st, ops, nextID) ==
  LET adds == {Op("Add", nextID + i, selectStore(st)) : i \in 0..(newAdds(st, ops) - 1)}
      On(ids, kind) == {Op(kind, i, st.Shard.Replicas[i]) :
                          i \in ids \ Executing(ops, kind)}
      kills == {Op("Kill", st.Stores[s].ReplicaID, s) : s \in zombies(st)}
  IN  IF newAdds(st, ops) > 0 /\ candidates(st) = {} THEN {<<>>}
      ELSE {SetToSeq(adds) \o r \o s \o SetToSeq(kills) :
              r \in SetToSeqs(On(toRemove(st), "Remove")),
              s \in SetToSeqs(On(toStart(st), "Start"))}

(* Dispatch: commands for the steps that are not finished already.         *)
Dispatch(st, ops) ==
  LET open == SelectSeq(ops, LAMBDA o : o.kind = "Kill" \/ ~IsFinish(st, o))
  IN  [i \in DOMAIN open |-> generateScheduleCommand(st, open[i])]

shutdownStores(stores) ==
  LET order == SetToSeq(stores)
  IN  [i \in DOMAIN order |->
         Command(order[i], "Shutdown", order[i], 0, 0, NoMembers)]

(***************************************************************************)
(* bootstrap.Manager: the stores heard of last get the first replicas.     *)
(***************************************************************************)
bootstrapStores(st) ==
  {S \in kSubset(NumberOfReplicas, DOMAIN st.Stores) :
     S \cap expiredStores(st) # {} => workingStores(st) \subseteq S}

bootstrapLogService(stores, nextID) ==
  LET order == SetToSeq(stores)
      members == [i \in nextID..(nextID + NumberOfReplicas - 1) |->
                    order[i - nextID + 1]]
  IN  [k \in DOMAIN order |->
         Command(order[k], "Start", order[k], nextID + k - 1, 0, members)]

CheckBootstrap(st) ==
  /\ st.Shard.Epoch > 0
  /\ 2 * Cardinality(DOMAIN st.Shard.Replicas) > NumberOfReplicas
=============================================================================
