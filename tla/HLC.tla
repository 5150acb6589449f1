-------------------------------- MODULE HLC --------------------------------
(***************************************************************************)
(* The hybrid logical clock of pkg/txn/clock/hlc.go, one per node, and the  *)
(* RPC header codec (pkg/common/morpc/codec_header.go) that stamps every    *)
(* message with Now() and feeds every received stamp to Update().           *)
(*                                                                          *)
(* A call of Now(), of Update() or of the offset monitor is three steps,    *)
(* because the code takes the mutex twice and reads the wall clock outside  *)
(* of it: the reading, keepPhysicalClock with the jump check, and the       *)
(* locked part of now() or update().  Calls of one node interleave at these *)
(* points, so that a reading may be old when it is used.                    *)
(*                                                                          *)
(* The wall clock is external.  The code's assumption on it ("the clock     *)
(* readings returned by clock must be within the maxOffset bound across the *)
(* entire cluster") is modelled by a true time, real, that no node sees:    *)
(* a reading is any value within MaxOffset \div 2 of it, so successive      *)
(* readings of a node may well go backwards.                                *)
(***************************************************************************)
EXTENDS Integers, FiniteSets

CONSTANTS
  Node,           \* the CN and DN processes
  Caller,         \* the goroutines of one process that use its clock
  MaxOffset,      \* HLCClock.maxOffset
  LogicalMod,     \* 2^32 in the code: LogicalTime is a uint32
  SkipOnRestart,  \* does a restart call SkipClockUncertainityPeriodOnRestart?
  MaxReal,        \* bound: true time
  MaxCalls,       \* bound: calls of now() in a behaviour
  MaxCrashes,     \* bound: crashes in a behaviour
  MaxInFlight     \* bound: calls in progress at the same time, in the cluster

(***************************************************************************)
(* The uint32 logical counter must not wrap: fewer Now() calls than 2^32    *)
(* happen while the physical part of the clock stands still.                *)
(***************************************************************************)
ASSUME HLCAssumption ==
  /\ MaxOffset \in Nat
  /\ LogicalMod \in Nat
  /\ MaxReal \in Nat
  /\ MaxCalls \in Nat
  /\ MaxCrashes \in Nat
  /\ MaxInFlight \in Nat
  /\ MaxCalls < LogicalMod
  /\ SkipOnRestart \in BOOLEAN

VARIABLES
  real,     \* true time, external
  ts,       \* node -> c.mu.ts
  learned,  \* node -> c.mu.maxLearnedPhysicalTime
  call,     \* node -> caller -> the call in progress
  up,       \* node -> "up", "down" (after a Fatal or a crash) or "skip"
  until,    \* node -> sleepUntil while it skips the uncertainty period
  issued,   \* the stamps Now() returned: what messages may carry
  largest,  \* history: physical part of the largest stamp issued so far
  seen,     \* history: node -> largest stamp it ever returned or merged
  calls,    \* number of Now() calls so far
  crashes   \* number of crashes so far

vars == <<real, ts, learned, call, up, until, issued, largest, seen, calls, crashes>>

Stamp == [p : Nat, l : Nat]
Zero == [p |-> 0, l |-> 0]

(***************************************************************************)
(* Timestamp.Less and Timestamp.LessEq: physical part first.                *)
(***************************************************************************)
Less(a, b) == a.p < b.p \/ (a.p = b.p /\ a.l < b.l)
LessEq(a, b) == Less(a, b) \/ (a.p = b.p /\ a.l = b.l)

Later(a, b) == IF Less(a, b) THEN b ELSE a

Delta == MaxOffset \div 2
Larger(a, b) == IF a > b THEN a ELSE b

\* What physicalClock() can return now.
Readings == (real - Delta) .. (real + Delta)

maxClockForwardOffset == MaxOffset \div 2
clockOffsetMonitoringInterval == maxClockForwardOffset \div 3

\* handleClockJump's verdict: TRUE when it calls Fatalf.
handleClockJump(oldPts, newPts) ==
  /\ MaxOffset > 0
  /\ oldPts # 0
  /\ (IF oldPts > newPts THEN oldPts - newPts ELSE newPts - oldPts)
       > maxClockForwardOffset + clockOffsetMonitoringInterval

\* The locked part of now(): the new c.mu.ts, which is also the result.
now(t, newPts) ==
  IF t.p >= newPts THEN [p |-> t.p, l |-> (t.l + 1) % LogicalMod]
                   ELSE [p |-> newPts, l |-> 0]

\* The locked part of update(m): the new c.mu.ts.
update(t, newPts, m) ==
  IF newPts > t.p /\ newPts > m.p THEN [p |-> newPts, l |-> 0]
                                  ELSE Later(t, m)

\* Mutant: half of the uncertainty.
UpperBoundHalf(stamp) == stamp.p + maxClockForwardOffset

\* The upper bound that Now() returns beside the stamp, its physical part.
UpperBound(stamp) == stamp.p + MaxOffset

Calls == [op : {"idle", "now", "update"}, stage : {"read", "kept"}, pts : Nat,
          m : Stamp, before : Nat]
Idle == [op |-> "idle", stage |-> "read", pts |-> 0, m |-> Zero, before |-> 0]

\* The clock of every node stays a stamp and every call in one of its stages.
TypeOK ==
  /\ real \in Nat
  /\ ts \in [Node -> Stamp]
  /\ learned \in [Node -> Nat]
  /\ call \in [Node -> [Caller -> Calls]]
  /\ up \in [Node -> {"up", "down", "skip"}]
  /\ until \in [Node -> Stamp]
  /\ issued \in SUBSET Stamp
  /\ largest \in Nat
  /\ seen \in [Node -> Stamp]
  /\ calls \in 0 .. MaxCalls
  /\ crashes \in 0 .. MaxCrashes

Init ==
  /\ real = Delta + 1
  /\ ts = [n \in Node |-> Zero]
  /\ learned = [n \in Node |-> 0]
  /\ call = [n \in Node |-> [c \in Caller |-> Idle]]
  /\ up = [n \in Node |-> "up"]
  /\ until = [n \in Node |-> Zero]
  /\ issued = {}
  /\ largest = 0
  /\ seen = [n \in Node |-> Zero]
  /\ calls = 0
  /\ crashes = 0

Tick ==
  /\ real < MaxReal
  /\ real' = real + 1
  /\ UNCHANGED <<ts, learned, call, up, until, issued, largest, seen, calls, crashes>>

\* getPhysicalClock, first line: the wall clock is read outside the mutex.
PhysicalClock(n, c, op, m) ==
  /\ up[n] = "up"
  /\ call[n][c].op = "idle"
  /\ Cardinality({k \in Node \X Caller : call[k[1]][k[2]].op # "idle"}) < MaxInFlight
  /\ \E pts \in Readings :
       call' = [call EXCEPT ![n][c] =
                 [op |-> op, stage |-> "read", pts |-> pts, m |-> m,
                  before |-> IF op = "now" THEN largest ELSE 0]]
  /\ UNCHANGED <<real, ts, learned, up, until, issued, largest, seen, calls, crashes>>

CallNow(n, c) == PhysicalClock(n, c, "now", Zero)
\* hlcCodec.Decode: any stamp that was issued may arrive, late or twice.
CallUpdate(n, c) == \E m \in issued : PhysicalClock(n, c, "update", m)

\* The process ends: its clock and its goroutines are gone.
Down(n) ==
  /\ up' = [up EXCEPT ![n] = "down"]
  /\ ts' = [ts EXCEPT ![n] = Zero]
  /\ learned' = [learned EXCEPT ![n] = 0]
  /\ call' = [call EXCEPT ![n] = [c \in Caller |-> Idle]]
  /\ until' = [until EXCEPT ![n] = Zero]
  /\ crashes' = crashes + 1

\* Mutant: keepPhysicalClock keeps the jump instead of the reading.
KeepPhysicalClockJump(n, c) ==
  /\ call[n][c].op # "idle"
  /\ call[n][c].stage = "read"
  /\ learned' = [learned EXCEPT ![n] = call[n][c].pts - @]
  /\ call' = [call EXCEPT ![n][c].stage = "kept"]
  /\ UNCHANGED <<real, ts, up, until, issued, largest, seen, calls, crashes>>

\* The rest of getPhysicalClock: keepPhysicalClock, then handleClockJump.
KeepPhysicalClock(n, c) ==
  /\ call[n][c].op # "idle"
  /\ call[n][c].stage = "read"
  /\ LET pts == call[n][c].pts
     IN  IF handleClockJump(learned[n], pts)
         THEN /\ crashes < MaxCrashes
              /\ Down(n)
              /\ UNCHANGED <<real, issued, largest, seen, calls>>
         ELSE /\ learned' = [learned EXCEPT ![n] = Larger(@, pts)]
              /\ call' = [call EXCEPT ![n][c].stage = "kept"]
              /\ UNCHANGED <<real, ts, up, until, issued, largest, seen, calls, crashes>>

(***************************************************************************)
(* A turn of offsetMonitor, which calls getPhysicalClock and no more.  Its  *)
(* reading and keepPhysicalClock are one step: the monitor shares nothing   *)
(* else, and a late keepPhysicalClock is one with a lower reading.          *)
(***************************************************************************)
OffsetMonitor(n) ==
  /\ up[n] = "up"
  /\ \E pts \in Readings :
       IF handleClockJump(learned[n], pts)
       THEN /\ crashes < MaxCrashes
            /\ Down(n)
       ELSE /\ learned' = [learned EXCEPT ![n] = Larger(@, pts)]
            /\ UNCHANGED <<ts, call, up, until, crashes>>
  /\ UNCHANGED <<real, issued, largest, seen, calls>>

NowLocked(n, c) ==
  /\ call[n][c].stage = "kept"
  /\ call[n][c].op = "now"
  /\ calls < MaxCalls
  /\ LET t == now(ts[n], call[n][c].pts)
     IN  /\ ts' = [ts EXCEPT ![n] = t]
         /\ issued' = issued \cup {t}
         /\ largest' = Larger(largest, t.p)
         /\ seen' = [seen EXCEPT ![n] = Later(@, t)]
  /\ calls' = calls + 1
  /\ call' = [call EXCEPT ![n][c] = Idle]
  /\ UNCHANGED <<real, learned, up, until, crashes>>

UpdateLocked(n, c) ==
  /\ call[n][c].stage = "kept"
  /\ call[n][c].op = "update"
  /\ ts' = [ts EXCEPT ![n] = update(@, call[n][c].pts, call[n][c].m)]
  /\ seen' = [seen EXCEPT ![n] = Later(@, call[n][c].m)]
  /\ call' = [call EXCEPT ![n][c] = Idle]
  /\ UNCHANGED <<real, learned, up, until, issued, largest, calls, crashes>>

Crash(n) ==
  /\ up[n] # "down"
  /\ crashes < MaxCrashes
  /\ Down(n)
  /\ UNCHANGED <<real, issued, largest, seen, calls>>

\* Mutant: a restart that serves at once.
RestartAtOnce(n) ==
  /\ up[n] = "down"
  /\ real < MaxReal
  /\ real' = real + 1
  /\ up' = [up EXCEPT ![n] = "up"]
  /\ UNCHANGED <<ts, learned, until, call, issued, largest, seen, calls, crashes>>

(***************************************************************************)
(* A restart takes longer than the clock's resolution of a nanosecond.      *)
(* With SkipOnRestart the new process first runs                            *)
(* SkipClockUncertainityPeriodOnRestart, alone: its first Now() fixes       *)
(* sleepUntil.                                                              *)
(***************************************************************************)
Restart(n) ==
  /\ up[n] = "down"
  /\ real < MaxReal
  /\ real' = real + 1
  /\ IF SkipOnRestart
     THEN /\ calls < MaxCalls
          /\ calls' = calls + 1
          /\ \E pts \in (real' - Delta) .. (real' + Delta) :
               LET t == now(Zero, pts)
                   sleepUntil == [p |-> UpperBound(t), l |-> 0]
               IN  /\ up' = [up EXCEPT ![n] =
                              IF Less(t, sleepUntil) THEN "skip" ELSE "up"]
                   /\ ts' = [ts EXCEPT ![n] = t]
                   /\ learned' = [learned EXCEPT ![n] = pts]
                   /\ until' = [until EXCEPT ![n] = sleepUntil]
     ELSE /\ up' = [up EXCEPT ![n] = "up"]
          /\ UNCHANGED <<ts, learned, until, calls>>
  /\ UNCHANGED <<call, issued, largest, seen, crashes>>

\* One turn of the loop of SkipClockUncertainityPeriodOnRestart: a Now() that
\* no other goroutine can interleave with.
SkipClockUncertainity(n) ==
  /\ up[n] = "skip"
  /\ calls < MaxCalls
  /\ \E pts \in Readings :
       IF handleClockJump(learned[n], pts)
       THEN /\ crashes < MaxCrashes
            /\ Down(n)
            /\ UNCHANGED calls
       ELSE LET t == now(ts[n], pts)
            IN  /\ ts' = [ts EXCEPT ![n] = t]
                /\ learned' = [learned EXCEPT ![n] = Larger(@, pts)]
                /\ up' = [up EXCEPT ![n] =
                           IF Less(t, until[n]) THEN "skip" ELSE "up"]
                /\ calls' = calls + 1
                /\ UNCHANGED <<call, until, crashes>>
  /\ UNCHANGED <<real, issued, largest, seen>>

Next ==
  \/ Tick
  \/ \E n \in Node :
       \/ Crash(n)
       \/ Restart(n)
       \/ SkipClockUncertainity(n)
       \/ OffsetMonitor(n)
       \/ \E c \in Caller :
            \/ CallNow(n, c)
            \/ CallUpdate(n, c)
            \/ KeepPhysicalClock(n, c)
            \/ NowLocked(n, c)
            \/ UpdateLocked(n, c)

Spec == Init /\ [][Next]_vars

-----------------------------------------------------------------------------
(***************************************************************************)
(* Properties.                                                              *)
(***************************************************************************)

\* The call of Now() by c at n returns in this step.
Returns(n, c) ==
  call[n][c].op = "now" /\ call'[n][c].op = "idle" /\ calls' # calls

(***************************************************************************)
(* Causality (now and update implement the local, send and receive events   *)
(* of the HLC paper): whatever the interleaving of goroutines, and however  *)
(* old their wall clock readings, Now() returns a stamp larger than every   *)
(* stamp the node has ever returned or merged.  Over a restart this needs   *)
(* SkipClockUncertainityPeriodOnRestart, which hlc.go says "must be called  *)
(* during the restart of the node".                                         *)
(***************************************************************************)
NowIsCausal ==
  [][\A n \in Node, c \in Caller : Returns(n, c) => Less(seen[n], ts'[n])]_vars

(***************************************************************************)
(* Now() "returns the current HLC timestamp and the upper bound timestamp   *)
(* of the current time in hlc" (hlc.go, Now): no stamp that any node had    *)
(* returned before the call began is above the upper bound.                 *)
(***************************************************************************)
UpperBoundHolds ==
  [][\A n \in Node, c \in Caller :
       Returns(n, c) => call[n][c].before <= UpperBound(ts'[n])]_vars

(***************************************************************************)
(* The inductive invariant behind both.  No stamp is ahead of what a wall   *)
(* clock can show, and none has a logical part above the number of Now()    *)
(* calls, so the counter never wraps.  A running node's clock has caught up *)
(* with all it has seen; a node that skips the uncertainty period will wait *)
(* past all it had seen before its crash.                                   *)
(***************************************************************************)
Plausible(t) == t.p <= real + Delta /\ t.l <= calls

ClockInv ==
  /\ real >= Delta + 1
  /\ largest <= real + Delta
  /\ \A x \in issued : Plausible(x)
  /\ \A n \in Node :
       /\ Plausible(ts[n])
       /\ Plausible(seen[n])
       /\ up[n] = "up" => LessEq(seen[n], ts[n])
       /\ up[n] = "skip" => seen[n].p < until[n].p /\ until[n].l = 0
  /\ \A n \in Node, c \in Caller :
       /\ Plausible(call[n][c].m)
       /\ call[n][c].pts <= real + Delta
       /\ call[n][c].before <= call[n][c].pts + MaxOffset
       /\ call[n][c].op # "idle" => up[n] = "up"

=============================================================================
