----------------------------- MODULE TaskRunner -----------------------------
(***************************************************************************)
(* The task runner of every CN store (pkg/taskservice/task_runner.go).     *)
(*                                                                         *)
(* Its six goroutines are the actions Fetch, Dispatch, RetryScan with      *)
(* RetryRun, Done, Heartbeats, and the executions themselves (Succeed,     *)
(* Fail).  parallelismC is the number of tokens in it; waitTasksC and the  *)
(* tasks fetched but not yet in it are one queue, and so are doneC and the *)
(* senders waiting for room in it.  A runner fetches an ID at most once in *)
(* its life, for lastTaskID only grows, so an ID also names the context of *)
(* the execution: canceled is the set of those that the heartbeat         *)
(* cancelled.                                                              *)
(***************************************************************************)
EXTENDS TaskService, SequencesExt, BagsExt

CONSTANTS
  Parallelism,   \* runnerParallelism
  MaxWaitTasks,  \* capacity of waitTasksC and of the retry list
  MaxDone,       \* bound: finished executions not yet completed
  FetchLimit,    \* rows of one fetch
  MaxRetryTimes  \* Metadata.Options.MaxRetryTimes of every task

VARIABLES
  runner,        \* [CN -> the memory of the runner]
  up             \* the CN stores whose process runs

runnerVars == <<runner, up>>

RunningTask == [task : Row, retryTimes : 0..MaxRetryTimes]

NewRunner ==
  [lastTaskID |-> 0, wait |-> <<>>, parallelism |-> 0, running |-> {},
   exec |-> EmptyBag, retryTasks |-> <<>>, needRetry |-> <<>>,
   done |-> <<>>, canceled |-> {}]

RunnerInit == runner = [c \in CN |-> NewRunner] /\ up \subseteq CN

Set(c, r) == runner' = [runner EXCEPT ![c] = r]

(* doFetch and addTasks.  The query asks for this runner's rows above      *)
(* lastTaskID, whatever their status; the next fetch comes only when all   *)
(* the rows of the last one are in waitTasksC.                             *)
Fetched(c) ==
  LET mine == SelectSeq(rows, LAMBDA t :
                /\ t.ID > runner[c].lastTaskID
                /\ t.TaskRunner = c)
  IN SubSeq(mine, 1, IF Len(mine) < FetchLimit THEN Len(mine) ELSE FetchLimit)

Fetch(c) ==
  LET r == runner[c]
      tasks == Fetched(c)
  IN /\ c \in up
     /\ Len(r.wait) <= MaxWaitTasks
     /\ tasks # <<>>
     /\ Set(c, [r EXCEPT !.lastTaskID = Last(tasks).ID, !.wait = @ \o tasks])
     /\ UNCHANGED <<rows, up>>

(* runTask starts rt once parallelismC has room.                           *)
Started(r, rt) ==
  [r EXCEPT !.parallelism = @ + 1, !.exec = @ (+) SetToBag({rt})]

DispatchWithoutRoom(c) ==
  LET r == runner[c]
      rt == [task |-> Head(r.wait), retryTimes |-> 0]
  IN /\ c \in up
     /\ r.wait # <<>>
     /\ Set(c, [Started(r, rt) EXCEPT !.wait = Tail(@),
                                      !.running = @ \cup {rt.task}])
     /\ UNCHANGED <<rows, up>>

Dispatch(c) ==
  LET r == runner[c]
      rt == [task |-> Head(r.wait), retryTimes |-> 0]
  IN /\ c \in up
     /\ r.wait # <<>>
     /\ r.parallelism < Parallelism
     /\ Set(c, [Started(r, rt) EXCEPT !.wait = Tail(@),
                                      !.running = @ \cup {rt.task}])
     /\ UNCHANGED <<rows, up>>

Ended(r, rt) == [r EXCEPT !.exec = @ (-) SetToBag({rt})]

(* addDoneTask: releaseParallel, then doneC.                               *)
addDoneTask(r, rt, result) ==
  [r EXCEPT !.parallelism = @ - 1,
            !.done = Append(@, [rt EXCEPT !.task.Result = result])]

Succeed(c, rt) ==
  /\ c \in up
  /\ BagIn(rt, runner[c].exec)
  /\ Len(runner[c].done) < MaxDone
  /\ Set(c, addDoneTask(Ended(runner[c], rt), rt, "ok"))
  /\ UNCHANGED <<rows, up>>

removeRunningTask(r, id) ==
  [r EXCEPT !.running = {t \in @ : t.ID # id}]

(* The executor returned an error.  A retry is put on the retry list with  *)
(* the token of parallelismC still taken; only when the list is full is    *)
(* the task dropped and the token returned.                                *)
AfterFailure(r, rt) ==
  IF rt.retryTimes < MaxRetryTimes
    THEN IF Len(r.retryTasks) >= MaxWaitTasks
           THEN [removeRunningTask(r, rt.task.ID) EXCEPT !.parallelism = @ - 1]
           ELSE [r EXCEPT !.retryTasks =
                   Append(@, [rt EXCEPT !.retryTimes = @ + 1])]
    ELSE addDoneTask(r, rt, "failed")

Fail(c, rt) ==
  /\ c \in up
  /\ BagIn(rt, runner[c].exec)
  /\ Len(runner[c].done) < MaxDone
  /\ Set(c, AfterFailure(Ended(runner[c], rt), rt))
  /\ UNCHANGED <<rows, up>>

(* retry: the first n entries of the list are due.  The list is cut at the *)
(* first entry that is not; when all of them are due it is not cut.        *)
RetryScan(c) ==
  LET r == runner[c]
  IN /\ c \in up
     /\ r.needRetry = <<>>
     /\ \E n \in 1..Len(r.retryTasks) :
          Set(c, [r EXCEPT
                !.needRetry = SubSeq(r.retryTasks, 1, n),
                !.retryTasks = IF n < Len(@) THEN SubSeq(@, n + 1, Len(@)) ELSE @])
     /\ UNCHANGED <<rows, up>>

RetryRunOnOldToken(c) ==
  LET r == runner[c]
  IN /\ c \in up
     /\ r.needRetry # <<>>
     /\ Set(c, [r EXCEPT !.exec = @ (+) SetToBag({Head(r.needRetry)}),
                         !.needRetry = Tail(@)])
     /\ UNCHANGED <<rows, up>>

RetryRun(c) ==
  LET r == runner[c]
  IN /\ c \in up
     /\ r.needRetry # <<>>
     /\ r.parallelism < Parallelism
     /\ Set(c, [Started(r, Head(r.needRetry)) EXCEPT !.needRetry = Tail(@)])
     /\ UNCHANGED <<rows, up>>

(* doTaskDone: Complete is called with the context of the execution until  *)
(* it succeeds or answers ErrInvalidTask, so with a cancelled context it   *)
(* is called for ever, and this step is never taken.                       *)
Done(c) ==
  LET r == runner[c]
      t == Head(r.done).task
  IN /\ c \in up
     /\ r.done # <<>>
     /\ t.ID \notin r.canceled
     /\ Complete(c, t)
     /\ Set(c, [removeRunningTask(r, t.ID) EXCEPT !.done = Tail(@)])
     /\ UNCHANGED up

(* doHeartbeat, for one of the tasks in runningTasks.                      *)
Heartbeats(c, t) ==
  LET r == runner[c]
  IN /\ c \in up
     /\ t \in r.running
     /\ Heartbeat(t)
     /\ IF HeartbeatCond(t)
          THEN UNCHANGED runner
          ELSE Set(c, [removeRunningTask(r, t.ID) EXCEPT
                         !.canceled = @ \cup {t.ID}])
     /\ UNCHANGED up

(* The CN process dies with its runner, or starts again with a new one of  *)
(* the same name (startTaskRunner passes cfg.UUID).                        *)
Crash(c) ==
  /\ c \in up
  /\ up' = up \ {c}
  /\ Set(c, NewRunner)
  /\ UNCHANGED rows

Restart(c) ==
  /\ c \notin up
  /\ up' = up \cup {c}
  /\ UNCHANGED <<rows, runner>>
=============================================================================
