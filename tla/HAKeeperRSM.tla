---------------------------- MODULE HAKeeperRSM ----------------------------
(***************************************************************************)
(* The replicated state machine of HAKeeper (pkg/hakeeper/rsm.go,          *)
(* pkg/pb/logservice/logservice.go), for one log shard.                    *)
(*                                                                         *)
(* Log stores are numbers, for the checkers choose the smallest UUID.  A   *)
(* store's Tick is abstracted to the set of expired stores.  The machine   *)
(* is a record; each handler maps it to the next one.                      *)
(***************************************************************************)
EXTENDS Naturals, FiniteSets, Sequences

CONSTANTS
  Store,             \* log stores, a set of positive numbers
  NumberOfReplicas,  \* of the log shard
  IDBatch            \* defaultIDBatchSize

NoMembers == <<>>

Created == "Created"
Bootstrapping == "Bootstrapping"
CommandsReceived == "BootstrapCommandsReceived"
Failed == "BootstrapFailed"
Running == "Running"

(* A ScheduleCommand for a log store: UUID executes it, StoreID hosts the  *)
(* replica it is about.                                                    *)
Command(uuid, type, store, id, epoch, members) ==
  [UUID |-> uuid, ChangeType |-> type, StoreID |-> store, ReplicaID |-> id,
   Epoch |-> epoch, InitialMembers |-> members]

IsBootstrapping(c) == c.InitialMembers # NoMembers

NoCommands == [s \in Store |-> <<>>]

NewRSMState ==
  [State |-> Created, Term |-> 0, NextID |-> 0, panicked |-> FALSE,
   Shard |-> [Epoch |-> 0, Replicas |-> NoMembers],
   Stores |-> NoMembers, expired |-> {}, ScheduleCommands |-> NoCommands]

handleInitialClusterRequestCmd(r) ==
  IF r.State = Created THEN [r EXCEPT !.State = Bootstrapping] ELSE r

handleSetStateCmd(r, state) ==
  IF \/ r.State = Bootstrapping /\ state = CommandsReceived
     \/ r.State = CommandsReceived /\ state \in {Failed, Running}
  THEN [r EXCEPT !.State = state]
  ELSE r

HasBootstrapping(b) ==
  \E i \in DOMAIN b.Commands : IsBootstrapping(b.Commands[i])

(* Mutants of Ignored: a batch of an old leader is taken; bootstrap        *)
(* commands are taken in every state.                                      *)
IgnoredAnyTerm(r, b) == HasBootstrapping(b) /\ r.State # Bootstrapping
IgnoredAnyState(r, b) == r.Term > b.Term

(* handleUpdateCommandsCmd drops a batch of an older term, and one with    *)
(* bootstrap commands once they have been received.                        *)
Ignored(r, b) ==
  \/ r.Term > b.Term
  \/ HasBootstrapping(b) /\ r.State # Bootstrapping

(* All commands that have not been fetched are replaced.                   *)
handleUpdateCommandsCmd(r, b) ==
  IF Ignored(r, b) THEN r
  ELSE [(IF HasBootstrapping(b) THEN handleSetStateCmd(r, CommandsReceived)
         ELSE r)
        EXCEPT !.Term = b.Term,
               !.ScheduleCommands =
                 [s \in Store |-> SelectSeq(b.Commands,
                                            LAMBDA c : c.UUID = s)]]

(* A heartbeat: the store, and the replica it runs (0: none that is not    *)
(* pending) with the configuration the replica has applied.                *)
Heartbeat(uuid, id, epoch, replicas) ==
  [UUID |-> uuid, ReplicaID |-> id, Epoch |-> epoch, Replicas |-> replicas]

updateStores(r, hb) ==
  [r EXCEPT !.Stores =
     [s \in DOMAIN @ \cup {hb.UUID} |->
        IF s = hb.UUID THEN [ReplicaID |-> hb.ReplicaID, Epoch |-> hb.Epoch]
        ELSE @[s]],
     !.expired = @ \ {hb.UUID}]

updateShards(r, hb) ==
  IF hb.ReplicaID = 0 \/ hb.Epoch < r.Shard.Epoch THEN r
  ELSE IF hb.Epoch > r.Shard.Epoch
       THEN [r EXCEPT !.Shard = [Epoch |-> hb.Epoch, Replicas |-> hb.Replicas]]
       ELSE [r EXCEPT !.panicked = @ \/ r.Shard.Replicas # hb.Replicas]

(* The answer is the store's commands, which are deleted here whether or   *)
(* not it arrives.                                                         *)
handleLogHeartbeat(r, hb) ==
  [updateShards(updateStores(r, hb), hb)
   EXCEPT !.ScheduleCommands[hb.UUID] = <<>>]

(* GetIDUpdate: the IDs NextID+1 .. NextID+IDBatch, after assertState.     *)
assertState(r) == r.State \in {Running, Bootstrapping}

handleGetIDCmd(r) ==
  IF assertState(r) THEN [r EXCEPT !.NextID = @ + IDBatch]
  ELSE [r EXCEPT !.panicked = TRUE]

(* Ticks pass without a heartbeat of s.                                    *)
handleTick(r, s) == [r EXCEPT !.expired = @ \cup {s}]
=============================================================================
