--------------------------- MODULE TaskFramework ---------------------------
(***************************************************************************)
(* The task framework put together: cron jobs make tasks, the schedulers   *)
(* of HAKeeper allocate them to CN stores, the runners of the CN stores    *)
(* execute and complete them, all through the one task table.              *)
(*                                                                         *)
(* The faults, each bounded by budget: a CN store crashes and starts       *)
(* again, its heartbeats to HAKeeper come late, an executor returns an     *)
(* error, a statement on the task table fails (before or after it is       *)
(* applied), the HAKeeper leader changes and the old one goes on a while.  *)
(***************************************************************************)
EXTENDS TaskRunner, TaskScheduler, CronTasks

CONSTANT
  Budgets        \* bound: the [fires, errors, expiries, failures, leaders,
                 \* crashes, starts] that one behaviour may have, and the CN
                 \* stores that are up when it begins; one of a set

VARIABLES
  leader,        \* the leader of the HAKeeper shard
  leads,         \* the stores that hold themselves for it
  budget,        \* what is left of it
  ended          \* history: [ID, Epoch, TaskRunner, Result] of every execution
                 \* that came to an end

vars == <<rows, runner, up, expired, sched, TriggerTimes, crons, leader,
          leads, budget, ended>>

Init ==
  /\ budget \in Budgets
  /\ up = budget["up"]
  /\ expired = CN \ up
  /\ rows = <<>>
  /\ RunnerInit
  /\ SchedulerInit
  /\ CronInit
  /\ leader \in Scheduler
  /\ leads = {leader}
  /\ ended = {}

Spend(kind) == /\ budget[kind] > 0
               /\ budget' = [budget EXCEPT ![kind] = @ - 1]

(* A step that the table answers, or one of its failures.                  *)
Reliably == UNCHANGED budget
OutcomeOf(t) == [ID |-> t.ID, Epoch |-> t.Epoch, TaskRunner |-> t.TaskRunner,
                 Result |-> t.Result]

RunnerStep(c) ==
  /\ \/ Fetch(c) \/ Dispatch(c) \/ RetryScan(c) \/ RetryRun(c) \/ Done(c)
     \/ \E t \in runner[c].running : Heartbeats(c, t)
  /\ Reliably
  /\ UNCHANGED <<schedVars, cronVars, leader, leads, ended>>

ExecutionSucceeds(c) ==
  \E rt \in BagToSet(runner[c].exec) :
    /\ Succeed(c, rt)
    /\ ended' = ended \cup {OutcomeOf([rt.task EXCEPT !.Result = "ok"])}
    /\ Reliably
    /\ UNCHANGED <<schedVars, cronVars, leader, leads>>

ExecutionFails(c) ==
  \E rt \in BagToSet(runner[c].exec) :
    /\ Fail(c, rt)
    /\ ended' = IF rt.retryTimes < MaxRetryTimes THEN ended
                ELSE ended \cup {OutcomeOf([rt.task EXCEPT !.Result = "failed"])}
    /\ Spend("failures")
    /\ UNCHANGED <<schedVars, cronVars, leader, leads>>

CNCrash(c) == /\ Crash(c)
              /\ Spend("crashes")
              /\ UNCHANGED <<schedVars, cronVars, leader, leads, ended>>

CNRestart(c) == /\ Restart(c)
                /\ Spend("starts")
                /\ UNCHANGED <<schedVars, cronVars, leader, leads, ended>>

(* hakeeperCheck of a store that leads: StartScheduleCronTask, Schedule.   *)
SchedulerStep(h) ==
  /\ \/ h \in leads /\ crons[h].state = "started" /\ QueryRunning(h, FALSE)
     \/ QueryCreated(h, FALSE)
     \/ AllocateRead(h, FALSE)
     \/ AllocateWrite(h)
  /\ Reliably
  /\ UNCHANGED <<runnerVars, cronVars, leader, leads, ended>>

SchedulerError(h) ==
  /\ \/ h \in leads /\ crons[h].state = "started" /\ QueryRunning(h, TRUE)
     \/ QueryCreated(h, TRUE)
     \/ AllocateRead(h, TRUE)
     \/ AllocateWriteFails(h)
  /\ Spend("errors")
  /\ UNCHANGED <<runnerVars, cronVars, leader, leads, ended>>

(* A CN store that is down expires for good; one that is up may seem to.   *)
ExpireDead(c) == /\ c \notin up
                 /\ Expire(c)
                 /\ Reliably
                 /\ UNCHANGED <<runnerVars, cronVars, leader, leads, ended>>

ExpireAlive(c) == /\ c \in up
                  /\ Expire(c)
                  /\ Spend("expiries")
                  /\ UNCHANGED <<runnerVars, cronVars, leader, leads, ended>>

CNHeartbeat(c) == /\ c \in up
                  /\ Unexpire(c)
                  /\ Reliably
                  /\ UNCHANGED <<runnerVars, cronVars, leader, leads, ended>>

CronStep(h) ==
  /\ \/ h \in leads /\ StartScheduleCronTask(h)
     \/ FetchCronTask(h, FALSE, FALSE)
     \/ RetryRunCron(h, FALSE)
     \/ UpdateCronTask(h)
     \/ AddToRetrySchedule(h)
     \/ StopperStopped(h)
     \/ CronStopped(h)
  /\ Reliably
  /\ UNCHANGED <<runnerVars, schedVars, leader, leads, ended>>

(* The job fires: at its time, or at once when it is late.                 *)
CronFires(h) ==
  /\ Run(h, FALSE) \/ FetchCronTask(h, TRUE, FALSE)
  /\ Spend("fires")
  /\ UNCHANGED <<runnerVars, schedVars, leader, leads, ended>>

CronError(h) ==
  /\ \/ RetryRunCron(h, TRUE)
     \/ UpdateCronTaskFails(h)
  /\ Spend("errors")
  /\ UNCHANGED <<runnerVars, schedVars, leader, leads, ended>>

CronFiresIntoError(h) ==
  /\ Run(h, TRUE) \/ FetchCronTask(h, TRUE, TRUE)
  /\ budget["fires"] > 0 /\ budget["errors"] > 0
  /\ budget' = [budget EXCEPT !["fires"] = @ - 1, !["errors"] = @ - 1]
  /\ UNCHANGED <<runnerVars, schedVars, leader, leads, ended>>

(* A new leader; the old one notices at its next check, between two calls  *)
(* of Schedule, and stops its cron jobs.                                   *)
LeaderChange(h) ==
  /\ h # leader
  /\ leader' = h
  /\ leads' = leads \cup {h}
  /\ Spend("leaders")
  /\ UNCHANGED <<rows, runnerVars, schedVars, cronVars, ended>>

StepDown(h) ==
  /\ h \in leads /\ h # leader
  /\ sched[h].pc = "idle"
  /\ leads' = leads \ {h}
  /\ IF crons[h].state = "started" THEN StopScheduleCronTask(h)
     ELSE crons[h].state = "stopped" /\ UNCHANGED <<rows, cronVars>>
  /\ Reliably
  /\ UNCHANGED <<runnerVars, schedVars, leader, ended>>

Next ==
  \/ \E c \in CN : \/ RunnerStep(c) \/ ExecutionSucceeds(c) \/ ExecutionFails(c)
                   \/ CNCrash(c) \/ CNRestart(c)
                   \/ ExpireDead(c) \/ ExpireAlive(c) \/ CNHeartbeat(c)
  \/ \E h \in Scheduler : \/ SchedulerStep(h) \/ SchedulerError(h)
                          \/ CronStep(h) \/ CronFires(h) \/ CronError(h)
                          \/ CronFiresIntoError(h)
                          \/ LeaderChange(h) \/ StepDown(h)

Spec == Init /\ [][Next]_vars

(* Every goroutine goes on: the loops of the runner and of the scheduler   *)
(* run on timers for as long as their process does, an executor returns, a *)
(* CN store that is up heartbeats.  Firing and faults are not promised.    *)
Alone(A) == A /\ Reliably /\ UNCHANGED <<schedVars, cronVars, leader, leads, ended>>

FairSpec ==
  /\ Spec
  /\ \A c \in CN : /\ WF_vars(Alone(Fetch(c)))
                   /\ WF_vars(Alone(Dispatch(c)))
                   /\ WF_vars(Alone(RetryScan(c)))
                   /\ WF_vars(Alone(RetryRun(c)))
                   /\ WF_vars(Alone(Done(c)))
                   /\ WF_vars(ExecutionSucceeds(c))
                   /\ WF_vars(ExpireDead(c))
                   /\ WF_vars(CNHeartbeat(c))
  /\ \A h \in Scheduler : WF_vars(SchedulerStep(h)) /\ WF_vars(CronStep(h))

(***************************************************************************)
(* Properties                                                              *)
(***************************************************************************)
TypeOK ==
  /\ rows \in Seq(Row) /\ Len(rows) <= MaxTasks
  /\ \A i \in IDs : rows[i].ID = i
  /\ \A c \in CN :
       /\ runner[c].lastTaskID \in 0..Len(rows)
       /\ runner[c].parallelism \in 0..Parallelism
       /\ runner[c].running \subseteq Row
       /\ BagToSet(runner[c].exec) \subseteq RunningTask
       /\ \A q \in {runner[c].retryTasks, runner[c].needRetry, runner[c].done} :
            q \in Seq(RunningTask)
  /\ up \subseteq CN /\ expired \subseteq CN
  /\ TriggerTimes \in 0..MaxTasks
  /\ leader \in leads /\ leads \subseteq Scheduler
  /\ \A h \in Scheduler :
       /\ sched[h].pc \in {"idle", "created", "allocate", "update"}
       /\ crons[h].state \in {"stopped", "started", "stopping", "closing"}
       /\ crons[h].job.at \in {"none", "idle", "read", "failed"}

(* Everything the runner of c holds of a task.                             *)
Copies(c) ==
  LET r == runner[c]
      tasksOf(q) == {q[i].task : i \in DOMAIN q}
  IN ToSet(r.wait) \cup r.running \cup {rt.task : rt \in BagToSet(r.exec)}
     \cup tasksOf(r.retryTasks) \cup tasksOf(r.needRetry) \cup tasksOf(r.done)

(* What the table and the runners hold, seen as epochs, owners and leases. *)
Ownership ==
  INSTANCE TaskOwnership WITH
    Task <- 1..MaxTasks,
    epoch <- [i \in 1..MaxTasks |-> IF i \in IDs THEN rows[i].Epoch ELSE 0],
    owner <- [i \in 1..MaxTasks |-> IF i \in IDs THEN rows[i].TaskRunner ELSE NoCN],
    done <- [i \in 1..MaxTasks |-> i \in IDs /\ rows[i].Status = "Completed"],
    held <- [c \in CN |-> {<<t.ID, t.Epoch>> : t \in Copies(c)}]

(* The framework implements TaskOwnership: allocations open a new epoch,   *)
(* runners take leases only of tasks that are theirs (doFetch), and a task *)
(* is completed only by the holder of its current lease (Complete).        *)
ImplementsOwnership == Ownership!Spec

(* The result a completed task shows is the outcome of an execution that   *)
(* the runner named in the row began at the row's epoch and finished.      *)
ResultIsTheOwners ==
  \A i \in IDs : rows[i].Status = "Completed" => OutcomeOf(rows[i]) \in ended

(* Two leaders with a job each, retries and lost answers: there is one     *)
(* task for every trigger counted in sys_cron_task and none besides        *)
(* (UpdateCronTask).                                                       *)
OneTaskPerTrigger ==
  /\ {rows[i].MetadataID : i \in IDs} = 1..TriggerTimes
  /\ Len(rows) = TriggerTimes

(* Every execution holds a token of parallelismC: no more than Parallelism *)
(* run at once, and releaseParallel never finds the channel empty, which   *)
(* would be its panic "BUG".                                               *)
ExecutionsHoldTokens ==
  \A c \in CN : BagCardinality(runner[c].exec) <= runner[c].parallelism

(* A task is executed in the end: "If the scheduler does not receive the   *)
(* heartbeat for a long time, it will reassign the task executor to        *)
(* execute the task" (types.go, Heartbeat).  doFetch asks only for rows    *)
(* above lastTaskID, so a task that is given to a runner that has already  *)
(* fetched a later one is never executed by it.                            *)
EveryTaskCompletes ==
  \A i \in 1..MaxTasks :
    (i \in IDs) ~> (i \in IDs /\ rows[i].Status = "Completed")

=============================================================================
