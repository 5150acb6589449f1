--------------------------- MODULE TaskScheduler ---------------------------
(***************************************************************************)
(* The task scheduler of HAKeeper (pkg/hakeeper/task): each HAKeeper store *)
(* that holds itself for the leader calls Schedule on every check, and     *)
(* Schedule gives the created tasks, and the running tasks of expired CN   *)
(* stores, to the CN store that runs the fewest.                           *)
(*                                                                         *)
(* Every query and update of the task table is a step of its own, so two   *)
(* schedulers, the runners and the cron jobs interleave with it.           *)
(***************************************************************************)
EXTENDS TaskService, Functions, FiniteSetsExt

VARIABLES
  expired,       \* the CN stores whose last heartbeat HAKeeper finds too old
  sched          \* [Scheduler -> where its call of Schedule stands]

schedVars == <<expired, sched>>

NoRow == [ID |-> 0]

Idle == [pc |-> "idle", working |-> {}, running |-> <<>>, todo |-> <<>>,
         load |-> <<>>, new |-> NoRow]

SchedulerInit == sched = [h \in Scheduler |-> Idle]

SetSched(h, s) == sched' = [sched EXCEPT ![h] = s]

(* queryTasks answers nil when the query fails.                            *)
queryTasks(status, fails) == IF fails THEN <<>> ELSE WithStatus(status)

(* Schedule: parseCNStores and the query of the running tasks.             *)
QueryRunning(h, fails) ==
  /\ sched[h].pc = "idle"
  /\ SetSched(h, [Idle EXCEPT !.pc = "created", !.working = CN \ expired,
                              !.running = queryTasks("Running", fails)])
  /\ UNCHANGED <<rows, expired>>

(* getCNOrdered: the number of running tasks of each working CN store.     *)
getCNOrdered(tasks, working) ==
  [c \in working |-> Cardinality({i \in DOMAIN tasks : tasks[i].TaskRunner = c})]

(* cnMap.inc enters a key the map does not have yet.                       *)
inc(load, key) ==
  [k \in DOMAIN load \cup {key} |->
     (IF k \in DOMAIN load THEN load[k] ELSE 0) + (IF k = key THEN 1 ELSE 0)]

(* cnMap.min: the first key in the order of the counts.  sort.Slice leaves *)
(* the order of equal counts open, and so does the order of the stores.    *)
MinKeys(load) ==
  IF load = <<>> THEN {NoCN}
  ELSE {k \in DOMAIN load : \A j \in DOMAIN load : load[k] <= load[j]}

getExpiredTasks(tasks, working) ==
  SelectSeq(tasks, LAMBDA t : t.TaskRunner \notin working)

(* Schedule: the query of the created tasks, and what there is to allocate.*)
QueryCreated(h, fails) ==
  LET s == sched[h]
      todo == queryTasks("Created", fails) \o getExpiredTasks(s.running, s.working)
  IN /\ s.pc = "created"
     /\ SetSched(h, IF todo = <<>> THEN Idle ELSE
          [s EXCEPT !.pc = "allocate", !.running = <<>>, !.todo = todo,
                    !.load = getCNOrdered(s.running, s.working)])
     /\ UNCHANGED <<rows, expired>>

(* The next task of the loop; after the last one Schedule returns.         *)
NextTask(s) ==
  IF Len(s.todo) = 1 THEN Idle
  ELSE [s EXCEPT !.pc = "allocate", !.todo = Tail(@), !.new = NoRow]

(* allocateTask up to the read of Allocate: no CN store for it, the query  *)
(* fails, or the task is neither created nor running; else the row to write*)
AllocateRead(h, fails) ==
  LET s == sched[h]
      old == rows[Head(s.todo).ID]
      refused(cn) == cn = NoCN \/ old.Status = "Completed" \/ fails
  IN /\ s.pc = "allocate"
     /\ \E cn \in MinKeys(s.load) :
          \/ /\ refused(cn)
             /\ SetSched(h, NextTask(s))
          \/ /\ ~refused(cn)
             /\ old.Epoch < MaxEpoch
             /\ SetSched(h, [s EXCEPT !.pc = "update", !.new = Reassigned(old, cn)])
     /\ UNCHANGED <<rows, expired>>

(* The conditional update of Allocate and the end of allocateTask, which   *)
(* counts the task for the runner it was taken from.                       *)
AllocateWrite(h) ==
  LET s == sched[h]
  IN /\ s.pc = "update"
     /\ AllocateUpdate(s.new)
     /\ SetSched(h, NextTask(IF AllocateCond(s.new)
          THEN [s EXCEPT !.load = inc(@, Head(s.todo).TaskRunner)]
          ELSE s))
     /\ UNCHANGED expired

(* The write fails before it is applied, or its answer is lost.            *)
AllocateWriteFails(h) ==
  LET s == sched[h]
  IN /\ s.pc = "update"
     /\ AllocateUpdate(s.new) \/ UNCHANGED rows
     /\ SetSched(h, NextTask(s))
     /\ UNCHANGED expired

(* The heartbeats of c to HAKeeper come too late, or come again.           *)
Expire(c) == /\ c \notin expired
             /\ expired' = expired \cup {c}
             /\ UNCHANGED <<rows, sched>>

Unexpire(c) == /\ c \in expired
               /\ expired' = expired \ {c}
               /\ UNCHANGED <<rows, sched>>
=============================================================================
