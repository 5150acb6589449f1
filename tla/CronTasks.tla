----------------------------- MODULE CronTasks -----------------------------
(***************************************************************************)
(* Cron tasks (pkg/taskservice/task_service_cron.go): while a HAKeeper     *)
(* store leads, it keeps a job for the cron task; when the job fires it    *)
(* makes the next task "parent:n" and counts n in sys_cron_task.           *)
(*                                                                         *)
(* One cron task is modelled: the jobs of several share only the crons     *)
(* lock and retryC.  UpdateCronTask first reads (taskExists and            *)
(* getTriggerTimes) and then writes in a transaction, two steps: jobs of   *)
(* two stores that both hold themselves for the leader run between them.   *)
(* The crons lock is held across a step only by StopScheduleCronTask while *)
(* it waits for cron.Stop (state "closing").                               *)
(***************************************************************************)
EXTENDS TaskService, SequencesExt

CONSTANT
  RetryCap       \* capacity of retryC

VARIABLES
  TriggerTimes,  \* sys_cron_task.trigger_times
  crons          \* [Scheduler -> the crons struct and its job]

cronVars == <<TriggerTimes, crons>>

(* job.at: the run in progress has read ("read") or failed ("failed");     *)
(* job.by: it was started by the cron library or through the stopper.      *)
NoJob == [TriggerTimes |-> -1, at |-> "none", by |-> "none"]

NewJob(n) == [TriggerTimes |-> n, at |-> "idle", by |-> "none"]

Stopped == [state |-> "stopped", job |-> NoJob, retryC |-> <<>>]

CronInit == TriggerTimes = 0 /\ crons = [h \in Scheduler |-> Stopped]

SetCrons(h, c) == crons' = [crons EXCEPT ![h] = c]

StartScheduleCronTask(h) ==
  /\ crons[h].state = "stopped"
  /\ SetCrons(h, [Stopped EXCEPT !.state = "started"])
  /\ UNCHANGED <<rows, TriggerTimes>>

(* doRun: UpdateCronTask's reads.  When the task exists or the count is    *)
(* not the one expected, UpdateCronTask does nothing and answers no error, *)
(* and the job goes on as if it had made the task.                         *)
DoRunRead(job, by, fails) ==
  LET n == job.TriggerTimes + 1
      ahead == NewJob(n)
      reads == [job EXCEPT !.at = "read", !.by = by]
      failed == [job EXCEPT !.at = "failed", !.by = by]
  IN IF ~fails
       THEN {IF taskExists(n) \/ TriggerTimes # n - 1 THEN ahead ELSE reads}
       ELSE \* taskExists fails, or getTriggerTimes: it answers 0 for the
            \* count, and nobody looks at its error
            {failed} \cup IF taskExists(n) THEN {}
                          ELSE {IF n # 1 THEN ahead ELSE reads}

(* fetchCronTasks and scheduleCronTaskLocked: a job for the cron task, run *)
(* at once when its next time is past.                                     *)
FetchCronTask(h, late, fails) ==
  LET c == crons[h]
  IN /\ c.state = "started"
     /\ c.job = NoJob
     /\ IF late
          THEN \E j \in DoRunRead(NewJob(TriggerTimes), "stopper", fails) :
                 SetCrons(h, [c EXCEPT !.job = j])
          ELSE SetCrons(h, [c EXCEPT !.job = NewJob(TriggerTimes)])
     /\ UNCHANGED <<rows, TriggerTimes>>

(* The cron library fires the job until cron.Stop.                         *)
Run(h, fails) ==
  LET c == crons[h]
  IN /\ c.state \in {"started", "stopping"}
     /\ c.job.at = "idle"
     /\ \E j \in DoRunRead(c.job, "cron", fails) :
          SetCrons(h, [c EXCEPT !.job = j])
     /\ UNCHANGED <<rows, TriggerTimes>>

(* retryTriggerCronTask, retryScheduleCronTask, retryRun: the entry is     *)
(* dropped when the job has moved on since (NextTime, which changes with   *)
(* TriggerTimes).                                                          *)
RetryStillDue(job, n) == job.TriggerTimes = n

RetryRunCron(h, fails) ==
  LET c == crons[h]
      rest == [c EXCEPT !.retryC = Tail(@)]
  IN /\ c.state = "started"
     /\ c.retryC # <<>>
     /\ c.job.at = "idle"
     /\ IF RetryStillDue(c.job, Head(c.retryC))
          THEN \E j \in DoRunRead(c.job, "stopper", fails) :
                 SetCrons(h, [rest EXCEPT !.job = j])
          ELSE SetCrons(h, rest)
     /\ UNCHANGED <<rows, TriggerTimes>>

(* UpdateCronTask's transaction: the insert is refused by the unique index,*)
(* or the task and the new count are written together.                     *)
CronWritesTwice(n) ==
  /\ rows' = Append(rows, newTaskFromMetadata(Len(rows) + 1, n))
  /\ TriggerTimes' = n

CronWrites(n) ==
  /\ ~taskExists(n)
  /\ rows' = Append(rows, newTaskFromMetadata(Len(rows) + 1, n))
  /\ TriggerTimes' = n

UpdateCronTask(h) ==
  LET c == crons[h]
      n == c.job.TriggerTimes + 1
  IN /\ c.job.at = "read"
     /\ \/ /\ CronWrites(n)
           /\ SetCrons(h, [c EXCEPT !.job = NewJob(n)])
        \/ /\ taskExists(n)
           /\ SetCrons(h, [c EXCEPT !.job.at = "failed"])
           /\ UNCHANGED <<rows, TriggerTimes>>

(* The transaction fails, or is committed and its answer lost.             *)
UpdateCronTaskFails(h) ==
  LET c == crons[h]
  IN /\ c.job.at = "read"
     /\ \/ CronWrites(c.job.TriggerTimes + 1)
        \/ UNCHANGED <<rows, TriggerTimes>>
     /\ SetCrons(h, [c EXCEPT !.job.at = "failed"])

(* addToRetrySchedule needs the crons lock, and room in retryC.            *)
AddToRetrySchedule(h) ==
  LET c == crons[h]
  IN /\ c.job.at = "failed"
     /\ c.state # "closing"
     /\ c.state = "started" => Len(c.retryC) < RetryCap
     /\ SetCrons(h, [c EXCEPT
          !.job = NewJob(c.job.TriggerTimes),
          !.retryC = IF c.state = "started" THEN Append(@, c.job.TriggerTimes) ELSE @])
     /\ UNCHANGED <<rows, TriggerTimes>>

(* StopScheduleCronTask: it marks the struct, waits for the stopper's      *)
(* goroutines, takes the lock and waits for the jobs the cron library runs.*)
StopScheduleCronTask(h) ==
  /\ crons[h].state = "started"
  /\ SetCrons(h, [crons[h] EXCEPT !.state = "stopping"])
  /\ UNCHANGED <<rows, TriggerTimes>>

StopperStopped(h) ==
  /\ crons[h].state = "stopping"
  /\ crons[h].job.by # "stopper"
  /\ SetCrons(h, [crons[h] EXCEPT !.state = "closing"])
  /\ UNCHANGED <<rows, TriggerTimes>>

CronStopped(h) ==
  /\ crons[h].state = "closing"
  /\ crons[h].job.at \in {"idle", "none"}
  /\ SetCrons(h, Stopped)
  /\ UNCHANGED <<rows, TriggerTimes>>
=============================================================================
