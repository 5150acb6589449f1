---------------------------- MODULE TaskService ----------------------------
(***************************************************************************)
(* The asynchronous task service (pkg/taskservice/task_service.go) and the *)
(* table it keeps its tasks in (mysql_task_storage.go, mem_task_storage.go)*)
(*                                                                         *)
(* A task is a row of sys_async_task.  Every call of the service is one    *)
(* statement or one transaction on that table, so each is one step here,   *)
(* except Allocate, which reads the row in one transaction and writes it   *)
(* conditionally in the next: its two halves are AllocateRead and          *)
(* AllocateUpdate, and other callers run between them.                     *)
(***************************************************************************)
EXTENDS Integers, Sequences, FiniteSets

CONSTANTS
  CN,        \* the CN stores; each runs one task runner
  Scheduler, \* the HAKeeper stores, each with a task service of its own
  NoCN,      \* the empty runner name of a task nobody runs
  MaxTasks,  \* bound: rows of the table
  MaxEpoch   \* bound: allocations of one task

VARIABLE
  rows       \* sys_async_task: the row of task ID i is rows[i]

IDs == 1..Len(rows)

(* task.Task, without what no condition reads.  Metadata.ID of a task that *)
(* a cron task made is "parent:n"; n stands for it.                        *)
Row == [ID : 1..MaxTasks, MetadataID : 1..MaxTasks,
        Status : {"Created", "Running", "Completed"},
        TaskRunner : CN \cup {NoCN}, Epoch : 0..MaxEpoch,
        Result : {"none", "ok", "failed"}]

newTaskFromMetadata(id, n) ==
  [ID |-> id, MetadataID |-> n, Status |-> "Created",
   TaskRunner |-> NoCN, Epoch |-> 0, Result |-> "none"]

(* The unique index on task_metadata_id.                                   *)
taskExists(n) == \E i \in IDs : rows[i].MetadataID = n

(* QueryTask with a status condition, ordered by task_id.                  *)
WithStatus(s) == SelectSeq(rows, LAMBDA t : t.Status = s)

(* Allocate, first half: what the row read becomes.                        *)
Reassigned(old, cn) ==
  [old EXCEPT !.Status = "Running", !.TaskRunner = cn,
              !.Epoch = IF old.Status = "Running" THEN old.Epoch + 1 ELSE 1]

(* The conditions of the three conditional updates.  None of them is the   *)
(* whole story of its caller: Allocate's has no condition on the status.   *)
AllocateCondNoEpoch(new) == rows[new.ID].Status # "Completed"

AllocateCond(new) == rows[new.ID].Epoch = new.Epoch - 1

CompleteCond(cn, t) ==
  LET r == rows[t.ID]
  IN r.Status = "Running" /\ r.TaskRunner = cn /\ r.Epoch = t.Epoch

HeartbeatCond(t) ==
  LET r == rows[t.ID]
  IN r.Status = "Running" /\ r.Epoch <= t.Epoch /\ r.TaskRunner = t.TaskRunner

(* mysqlTaskStorage.Update: the caller's copy replaces the row.            *)
Update(t) == rows' = [rows EXCEPT ![t.ID] = t]

AllocateUpdate(new) ==
  IF AllocateCond(new) THEN Update(new) ELSE UNCHANGED rows

CompleteByRunnerOnly(cn, t) ==
  IF rows[t.ID].Status = "Running" /\ rows[t.ID].TaskRunner = cn
    THEN Update([rows[t.ID] EXCEPT !.Status = "Completed", !.Result = t.Result])
    ELSE UNCHANGED rows

Complete(cn, t) ==
  IF CompleteCond(cn, t)
    THEN Update([t EXCEPT !.Status = "Completed"])
    ELSE UNCHANGED rows

Heartbeat(t) == IF HeartbeatCond(t) THEN Update(t) ELSE UNCHANGED rows
=============================================================================
