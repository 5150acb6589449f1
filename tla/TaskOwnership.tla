--------------------------- MODULE TaskOwnership ---------------------------
(***************************************************************************)
(* What the task framework promises of the ownership of a task, without    *)
(* the scheduler, the queues of the runners or the table: each allocation  *)
(* opens a new epoch of the task and names its one owner, runners hold     *)
(* leases of epochs they were the owner of, and only the holder of the     *)
(* current lease completes the task.                                       *)
(***************************************************************************)
EXTENDS Integers

CONSTANTS Task, CN, NoCN

VARIABLES
  epoch,   \* [Task -> how often it has been allocated]
  owner,   \* [Task -> the CN store of the last allocation, or NoCN]
  done,    \* [Task -> whether the task is completed]
  held     \* [CN -> the leases <<task, epoch>> its runner still has]

vars == <<epoch, owner, done, held>>

Init ==
  /\ epoch = [t \in Task |-> 0]
  /\ owner = [t \in Task |-> NoCN]
  /\ done = [t \in Task |-> FALSE]
  /\ held = [c \in CN |-> {}]

(* A completed task may be allocated again: see AllocateCond of TaskService*)
Allocate(t, c) ==
  /\ epoch' = [epoch EXCEPT ![t] = @ + 1]
  /\ owner' = [owner EXCEPT ![t] = c]
  /\ done' = [done EXCEPT ![t] = FALSE]
  /\ UNCHANGED held

(* A runner learns of tasks it owns, or forgets leases.                    *)
Mine(c) == {<<t, epoch[t]>> : t \in {u \in Task : owner[u] = c}}

Hold(c) ==
  /\ UNCHANGED <<epoch, owner, done>>
  /\ held'[c] \subseteq held[c] \cup Mine(c)
  /\ held' = [held EXCEPT ![c] = held'[c]]

(* The runner completes the task; it may forget leases with it.            *)
Complete(c, t) ==
  /\ <<t, epoch[t]>> \in held[c]
  /\ ~done[t]
  /\ done' = [done EXCEPT ![t] = TRUE]
  /\ held'[c] \subseteq held[c]
  /\ held' = [held EXCEPT ![c] = held'[c]]
  /\ UNCHANGED <<epoch, owner>>

Next ==
  \/ \E c \in CN : Hold(c)
  \/ \E t \in Task, c \in CN : Allocate(t, c) \/ Complete(c, t)

Spec == Init /\ [][Next]_vars

TypeOK ==
  /\ epoch \in [Task -> Nat]
  /\ owner \in [Task -> CN \cup {NoCN}]
  /\ done \in [Task -> BOOLEAN]
  /\ held \in [CN -> SUBSET (Task \X Nat)]

(* A lease is of an epoch the task has passed, or of its current epoch and *)
(* then held by the owner.                                                 *)
LeasesAreFenced ==
  \A c \in CN : \A l \in held[c] :
    /\ l[2] <= epoch[l[1]]
    /\ l[2] = epoch[l[1]] => owner[l[1]] = c

(* Only the owner completes a task, and it does so in the epoch in which   *)
(* it was made the owner: no step both completes a task and changes hands, *)
(* and no lease of another runner could have completed it.                 *)
OnlyTheOwnerCompletes ==
  [][\A t \in Task : ~done[t] /\ done'[t] =>
       /\ owner'[t] = owner[t] /\ epoch'[t] = epoch[t]
       /\ \A c \in CN : <<t, epoch[t]>> \in held[c] => c = owner[t]]_vars
=============================================================================
