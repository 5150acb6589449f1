----------------------------- MODULE HLCProofs -----------------------------
(***************************************************************************)
(* Proofs about HLC, for every number of nodes and goroutines and every     *)
(* MaxOffset: Now() is causal, and the upper bound it returns is one.       *)
(***************************************************************************)
EXTENDS HLC, TLAPS

\* Half of MaxOffset, rounded down, is what a reading may be off.
LEMMA DeltaFacts == Delta \in Nat /\ Delta + Delta <= MaxOffset
BY HLCAssumption DEF Delta

\* A uint32 increment below the modulus does not wrap.
LEMMA NoWrap ==
  ASSUME NEW k \in Nat, k < LogicalMod
  PROVE  k % LogicalMod = k
BY HLCAssumption

\* now() returns a stamp above the old one and not below the reading.
LEMMA NowGrows ==
  ASSUME NEW t \in Stamp, NEW pts \in Nat, t.l + 1 < LogicalMod
  PROVE  /\ now(t, pts) \in Stamp
         /\ Less(t, now(t, pts))
         /\ now(t, pts).p >= pts
         /\ now(t, pts).p = t.p \/ now(t, pts).p = pts
         /\ now(t, pts).l <= t.l + 1
<1>1. (t.l + 1) % LogicalMod = t.l + 1
  BY NoWrap DEF Stamp
<1> QED
  BY <1>1 DEF now, Less, Stamp

\* update(m) returns a stamp below neither the old one nor m, made of their parts
\* and of the reading.
LEMMA UpdateMerges ==
  ASSUME NEW t \in Stamp, NEW pts \in Nat, NEW m \in Stamp
  PROVE  /\ update(t, pts, m) \in Stamp
         /\ LessEq(t, update(t, pts, m))
         /\ LessEq(m, update(t, pts, m))
         /\ update(t, pts, m).p \in {t.p, pts, m.p}
         /\ update(t, pts, m).l \in {t.l, 0, m.l}
BY DEF update, Later, Less, LessEq, Stamp

\* Timestamp.Less is transitive through LessEq.
LEMMA LessTrans ==
  ASSUME NEW a \in Stamp, NEW b \in Stamp, NEW c \in Stamp
  PROVE  /\ LessEq(a, b) /\ Less(b, c) => Less(a, c)
         /\ LessEq(a, b) /\ LessEq(b, c) => LessEq(a, c)
         /\ Less(a, b) => LessEq(a, b)
         /\ LessEq(a, a)
BY DEF Less, LessEq, Stamp

-----------------------------------------------------------------------------
(***************************************************************************)
(* The inductive invariant.                                                 *)
(***************************************************************************)

\* The invariant holds of the clocks NewHLCClock makes.
LEMMA InitInv == Init => TypeOK /\ ClockInv
BY HLCAssumption, DeltaFacts
   DEF Init, TypeOK, ClockInv, Plausible, Stamp, Zero, Idle, Calls, LessEq, Less

\* A wall clock reading is a positive number close to the true time.
LEMMA ReadingFacts ==
  ASSUME TypeOK, ClockInv, NEW pts \in Readings
  PROVE  pts \in Nat /\ pts <= real + Delta /\ real + Delta <= pts + MaxOffset
BY DeltaFacts, HLCAssumption DEF TypeOK, ClockInv, Readings

\* A process that ends keeps the invariant.
LEMMA DownInv ==
  ASSUME TypeOK, ClockInv, NEW n \in Node, Down(n), crashes < MaxCrashes,
         UNCHANGED <<real, issued, largest, seen, calls>>
  PROVE  TypeOK' /\ ClockInv'
<1>1. TypeOK'
  BY HLCAssumption DEF TypeOK, Down, Stamp, Zero, Idle, Calls
<1>2. ClockInv'
  BY HLCAssumption, DeltaFacts
     DEF TypeOK, ClockInv, Down, Plausible, Stamp, Zero, Idle, Calls
<1> QED BY <1>1, <1>2

\* The wall clock is read: a call begins with a plausible reading.
LEMMA PhysicalClockInv ==
  ASSUME TypeOK, ClockInv, NEW n \in Node, NEW c \in Caller,
         NEW op \in {"now", "update"}, NEW m \in Stamp, Plausible(m),
         PhysicalClock(n, c, op, m)
  PROVE  TypeOK' /\ ClockInv'
<1>1. PICK pts \in Readings :
        call' = [call EXCEPT ![n][c] =
                   [op |-> op, stage |-> "read", pts |-> pts, m |-> m,
                    before |-> IF op = "now" THEN largest ELSE 0]]
  BY DEF PhysicalClock
<1>2. pts \in Nat /\ pts <= real + Delta /\ real + Delta <= pts + MaxOffset
  BY ReadingFacts
<1>3. UNCHANGED <<real, ts, learned, up, until, issued, largest, seen, calls,
                  crashes>> /\ up[n] = "up"
  BY DEF PhysicalClock
<1>4. TypeOK'
  BY <1>1, <1>2, <1>3 DEF TypeOK, Calls
<1>5. ASSUME NEW k \in Node, NEW d \in Caller
      PROVE  /\ Plausible(call[k][d].m)'
             /\ (call[k][d].pts <= real + Delta)'
             /\ (call[k][d].before <= call[k][d].pts + MaxOffset)'
             /\ (call[k][d].op # "idle" => up[k] = "up")'
  <2>1. CASE k = n /\ d = c
    <3>1. call'[k][d] = [op |-> op, stage |-> "read", pts |-> pts, m |-> m,
                         before |-> IF op = "now" THEN largest ELSE 0]
      BY <1>1, <2>1 DEF TypeOK
    <3>2. (IF op = "now" THEN largest ELSE 0) <= real + Delta
      BY DeltaFacts DEF TypeOK, ClockInv
    <3> QED
      BY <1>2, <1>3, <2>1, <3>1, <3>2, DeltaFacts, HLCAssumption
         DEF TypeOK, ClockInv, Plausible, Calls
  <2>2. CASE ~(k = n /\ d = c)
    <3>1. call'[k][d] = call[k][d]
      BY <1>1, <2>2 DEF TypeOK
    <3> QED BY <1>3, <3>1 DEF ClockInv, Plausible
  <2> QED BY <2>1, <2>2
<1>6. ClockInv'
  BY <1>3, <1>5 DEF ClockInv, Plausible
<1> QED BY <1>4, <1>6

\* A call that moves on to its locked part is still a call.
LEMMA KeptIsCall ==
  ASSUME NEW r \in Calls PROVE [r EXCEPT !.stage = "kept"] \in Calls
BY DEF Calls

\* keepPhysicalClock and the jump check.
LEMMA KeepPhysicalClockInv ==
  ASSUME TypeOK, ClockInv, NEW n \in Node, NEW c \in Caller,
         KeepPhysicalClock(n, c)
  PROVE  TypeOK' /\ ClockInv'
<1>1. CASE handleClockJump(learned[n], call[n][c].pts)
  BY <1>1, DownInv DEF KeepPhysicalClock
<1>2. CASE ~handleClockJump(learned[n], call[n][c].pts)
  <2>1. /\ learned' = [learned EXCEPT ![n] = Larger(@, call[n][c].pts)]
        /\ call' = [call EXCEPT ![n][c].stage = "kept"]
        /\ UNCHANGED <<real, ts, up, until, issued, largest, seen, calls, crashes>>
    BY <1>2 DEF KeepPhysicalClock
  <2>2. TypeOK'
    <3>1. learned' \in [Node -> Nat]
      BY <2>1 DEF TypeOK, Larger, Calls
    <3>2. [call[n][c] EXCEPT !.stage = "kept"] \in Calls
      BY KeptIsCall DEF TypeOK
    <3>3. call' \in [Node -> [Caller -> Calls]]
      BY <2>1, <3>2 DEF TypeOK
    <3> QED BY <2>1, <3>1, <3>3 DEF TypeOK
  <2>3. ASSUME NEW k \in Node, NEW d \in Caller
        PROVE  /\ call'[k][d].m = call[k][d].m
               /\ call'[k][d].pts = call[k][d].pts
               /\ call'[k][d].before = call[k][d].before
               /\ call'[k][d].op = call[k][d].op
    BY <2>1 DEF TypeOK, Calls
  <2>4. ClockInv'
    BY <2>1, <2>3 DEF ClockInv, Plausible
  <2> QED BY <2>2, <2>4
<1> QED BY <1>1, <1>2

\* The offset monitor only learns, or ends the process.
LEMMA OffsetMonitorInv ==
  ASSUME TypeOK, ClockInv, NEW n \in Node, OffsetMonitor(n)
  PROVE  TypeOK' /\ ClockInv'
<1>1. PICK pts \in Readings :
        IF handleClockJump(learned[n], pts)
        THEN crashes < MaxCrashes /\ Down(n)
        ELSE /\ learned' = [learned EXCEPT ![n] = Larger(@, pts)]
             /\ UNCHANGED <<ts, call, up, until, crashes>>
  BY DEF OffsetMonitor
<1>2. UNCHANGED <<real, issued, largest, seen, calls>>
  BY DEF OffsetMonitor
<1>3. CASE handleClockJump(learned[n], pts)
  BY <1>1, <1>2, <1>3, DownInv
<1>4. CASE ~handleClockJump(learned[n], pts)
  <2>1. pts \in Nat
    BY ReadingFacts
  <2>2. TypeOK'
    BY <1>1, <1>2, <1>4, <2>1 DEF TypeOK, Larger
  <2>3. ClockInv'
    BY <1>1, <1>2, <1>4 DEF ClockInv, Plausible
  <2> QED BY <2>2, <2>3
<1> QED BY <1>3, <1>4

\* Later() is one of its arguments and not below either.
LEMMA LaterFacts ==
  ASSUME NEW a \in Stamp, NEW b \in Stamp
  PROVE  /\ Later(a, b) \in {a, b}
         /\ \A c \in Stamp : LessEq(a, c) /\ LessEq(b, c) => LessEq(Later(a, b), c)
BY DEF Later

\* Now() returns: the stamp is above all the node has seen.
LEMMA NowLockedInv ==
  ASSUME TypeOK, ClockInv, NEW n \in Node, NEW c \in Caller, NowLocked(n, c)
  PROVE  /\ TypeOK' /\ ClockInv'
         /\ Less(seen[n], ts'[n])
         /\ call[n][c].before <= UpperBound(ts'[n])
<1> DEFINE pts == call[n][c].pts
           t == now(ts[n], pts)
<1>1. /\ ts' = [ts EXCEPT ![n] = t]
      /\ issued' = issued \cup {t}
      /\ largest' = Larger(largest, t.p)
      /\ seen' = [seen EXCEPT ![n] = Later(@, t)]
      /\ calls < MaxCalls /\ calls' = calls + 1
      /\ call' = [call EXCEPT ![n][c] = Idle]
      /\ UNCHANGED <<real, learned, up, until, crashes>>
      /\ up[n] = "up"
  BY DEF NowLocked, ClockInv
<1>2. /\ pts \in Nat /\ pts <= real + Delta
      /\ ts[n] \in Stamp /\ seen[n] \in Stamp
      /\ ts[n].l + 1 < LogicalMod
      /\ ts[n].p <= real + Delta
      /\ ts[n].l \in Nat /\ ts[n].l <= calls
  BY <1>1, HLCAssumption DEF TypeOK, ClockInv, Plausible, Calls, Stamp
<1>3. /\ t \in Stamp
      /\ Less(ts[n], t)
      /\ t.p >= pts
      /\ t.p = ts[n].p \/ t.p = pts
      /\ t.l <= ts[n].l + 1
  BY <1>2, NowGrows
<1>4. t.p <= real + Delta /\ t.l <= calls' /\ t.p \in Nat /\ t.l \in Nat
  BY <1>1, <1>2, <1>3 DEF Stamp, TypeOK
<1>5. Less(seen[n], t)
  BY <1>1, <1>2, <1>3, LessTrans DEF ClockInv
<1>6. Later(seen[n], t) = t
  BY <1>5 DEF Later
<1>7. ts'[n] = t /\ seen'[n] = t
  BY <1>1, <1>6 DEF TypeOK
<1>8. call[n][c].before <= UpperBound(t)
  BY <1>2, <1>3, <1>4, HLCAssumption DEF ClockInv, UpperBound, TypeOK, Calls
<1>9. TypeOK'
  <2>1. Idle \in Calls
    BY DEF Idle, Calls, Zero, Stamp
  <2>2. call' \in [Node -> [Caller -> Calls]]
    BY <1>1, <2>1 DEF TypeOK
  <2>3. largest' \in Nat
    BY <1>1, <1>4 DEF TypeOK, Larger
  <2>4. calls' \in 0 .. MaxCalls
    BY <1>1, HLCAssumption DEF TypeOK
  <2> QED BY <1>1, <1>3, <1>6, <2>2, <2>3, <2>4 DEF TypeOK
<1>10. ClockInv'
  <2>1. \A x \in Stamp : Plausible(x) => Plausible(x)'
    BY <1>1 DEF Plausible, Stamp, TypeOK
  <2>2. t.p <= real' + Delta /\ t.l <= calls'
    BY <1>1, <1>4
  <2>3. ASSUME NEW x \in issued'
        PROVE  x.p <= real' + Delta /\ x.l <= calls'
    BY <1>1, <2>1, <2>2 DEF ClockInv, TypeOK, Plausible
  <2>4. ASSUME NEW k \in Node
        PROVE  /\ Plausible(ts[k])' /\ Plausible(seen[k])'
               /\ (up[k] = "up" => LessEq(seen[k], ts[k]))'
               /\ (up[k] = "skip" => seen[k].p < until[k].p /\ until[k].l = 0)'
    <3>1. CASE k = n
      <4>1. LessEq(t, t)
        BY <1>3, LessTrans
      <4>2. Plausible(ts[k])' /\ Plausible(seen[k])'
        BY <1>7, <2>2, <3>1 DEF Plausible
      <4>3. up'[k] = "up" /\ ts'[k] = t /\ seen'[k] = t
        BY <1>1, <1>7, <3>1
      <4> QED BY <4>1, <4>2, <4>3
    <3>2. CASE k # n
      <4>1. ts'[k] = ts[k] /\ seen'[k] = seen[k] /\ ts[k] \in Stamp /\ seen[k] \in Stamp
        BY <1>1, <3>2 DEF TypeOK
      <4> QED BY <1>1, <2>1, <4>1 DEF ClockInv, Plausible
    <3> QED BY <3>1, <3>2
  <2>5. ASSUME NEW k \in Node, NEW d \in Caller
        PROVE  /\ Plausible(call[k][d].m)'
               /\ (call[k][d].pts <= real + Delta)'
               /\ (call[k][d].before <= call[k][d].pts + MaxOffset)'
               /\ (call[k][d].op # "idle" => up[k] = "up")'
    <3>1. CASE k = n /\ d = c
      <4>1. call'[k][d] = Idle
        BY <1>1, <3>1 DEF TypeOK
      <4> QED
        BY <1>1, <4>1, DeltaFacts, HLCAssumption
           DEF Idle, Zero, Plausible, TypeOK
    <3>2. CASE ~(k = n /\ d = c)
      <4>1. call'[k][d] = call[k][d] /\ call[k][d] \in Calls
        BY <1>1, <3>2 DEF TypeOK
      <4> QED BY <1>1, <2>1, <4>1 DEF ClockInv, Plausible, Calls
    <3> QED BY <3>1, <3>2
  <2>6. largest' <= real' + Delta
    BY <1>1, <1>4 DEF Larger, ClockInv
  <2> QED BY <1>1, <2>3, <2>4, <2>5, <2>6 DEF ClockInv, Plausible
<1> QED BY <1>5, <1>7, <1>8, <1>9, <1>10

\* A received stamp is merged: the clock catches up with it.
LEMMA UpdateLockedInv ==
  ASSUME TypeOK, ClockInv, NEW n \in Node, NEW c \in Caller, UpdateLocked(n, c)
  PROVE  TypeOK' /\ ClockInv'
<1> DEFINE pts == call[n][c].pts
           m == call[n][c].m
           t == update(ts[n], pts, m)
           s == Later(seen[n], m)
<1>1. /\ ts' = [ts EXCEPT ![n] = t]
      /\ seen' = [seen EXCEPT ![n] = s]
      /\ call' = [call EXCEPT ![n][c] = Idle]
      /\ UNCHANGED <<real, learned, up, until, issued, largest, calls, crashes>>
      /\ up[n] = "up"
  BY DEF UpdateLocked, ClockInv, TypeOK
<1>2. /\ pts \in Nat /\ pts <= real + Delta
      /\ ts[n] \in Stamp /\ seen[n] \in Stamp /\ m \in Stamp
      /\ Plausible(ts[n]) /\ Plausible(seen[n]) /\ Plausible(m)
      /\ LessEq(seen[n], ts[n])
  BY <1>1 DEF TypeOK, ClockInv, Calls
<1>3. /\ t \in Stamp
      /\ LessEq(ts[n], t)
      /\ LessEq(m, t)
      /\ t.p \in {ts[n].p, pts, m.p}
      /\ t.l \in {ts[n].l, 0, m.l}
  BY <1>2, UpdateMerges
<1>4. t.p <= real + Delta /\ t.l <= calls
  BY SMTT(60), <1>2, <1>3 DEF Plausible, TypeOK, Stamp
<1>5. s \in Stamp /\ s.p <= real + Delta /\ s.l <= calls
  BY <1>2, LaterFacts DEF Plausible
<1>6. LessEq(s, t)
  <2>1. LessEq(seen[n], t)
    BY <1>2, <1>3, LessTrans
  <2> QED BY <1>2, <1>3, <2>1, LaterFacts
<1>7. TypeOK'
  <2>1. Idle \in Calls
    BY DEF Idle, Calls, Zero, Stamp
  <2>2. call' \in [Node -> [Caller -> Calls]]
    BY <1>1, <2>1 DEF TypeOK
  <2> QED BY <1>1, <1>3, <1>5, <2>2 DEF TypeOK
<1>8. ClockInv'
  <2>1. ASSUME NEW k \in Node
        PROVE  /\ Plausible(ts[k])' /\ Plausible(seen[k])'
               /\ (up[k] = "up" => LessEq(seen[k], ts[k]))'
               /\ (up[k] = "skip" => seen[k].p < until[k].p /\ until[k].l = 0)'
    <3>1. CASE k = n
      <4>1. ts'[k] = t /\ seen'[k] = s
        BY <1>1, <3>1 DEF TypeOK
      <4> QED BY <1>1, <1>4, <1>5, <1>6, <3>1, <4>1 DEF Plausible
    <3>2. CASE k # n
      <4>1. ts'[k] = ts[k] /\ seen'[k] = seen[k]
        BY <1>1, <3>2 DEF TypeOK
      <4> QED BY <1>1, <4>1 DEF ClockInv, Plausible
    <3> QED BY <3>1, <3>2
  <2>2. ASSUME NEW k \in Node, NEW d \in Caller
        PROVE  /\ Plausible(call[k][d].m)'
               /\ (call[k][d].pts <= real + Delta)'
               /\ (call[k][d].before <= call[k][d].pts + MaxOffset)'
               /\ (call[k][d].op # "idle" => up[k] = "up")'
    <3>1. CASE k = n /\ d = c
      <4>1. call'[k][d] = Idle
        BY <1>1, <3>1 DEF TypeOK
      <4> QED
        BY <1>1, <4>1, DeltaFacts, HLCAssumption
           DEF Idle, Zero, Plausible, TypeOK
    <3>2. CASE ~(k = n /\ d = c)
      <4>1. call'[k][d] = call[k][d]
        BY <1>1, <3>2 DEF TypeOK
      <4> QED BY <1>1, <4>1 DEF ClockInv, Plausible
    <3> QED BY <3>1, <3>2
  <2> QED BY <1>1, <2>1, <2>2 DEF ClockInv, Plausible
<1> QED BY <1>7, <1>8

\* A restarted process that skips the uncertainty period will wait for a time
\* past everything the node had seen.
LEMMA RestartInv ==
  ASSUME TypeOK, ClockInv, NEW n \in Node, Restart(n), SkipOnRestart
  PROVE  TypeOK' /\ ClockInv'
<1>1. PICK pts \in (real' - Delta) .. (real' + Delta) :
        LET t == now(Zero, pts)
            sleepUntil == [p |-> UpperBound(t), l |-> 0]
        IN  /\ up' = [up EXCEPT ![n] =
                       IF Less(t, sleepUntil) THEN "skip" ELSE "up"]
            /\ ts' = [ts EXCEPT ![n] = t]
            /\ learned' = [learned EXCEPT ![n] = pts]
            /\ until' = [until EXCEPT ![n] = sleepUntil]
  BY DEF Restart
<1>2. /\ real' = real + 1 /\ calls < MaxCalls /\ calls' = calls + 1
      /\ UNCHANGED <<call, issued, largest, seen, crashes>>
      /\ up[n] = "down"
  BY DEF Restart
<1>3. /\ pts \in Nat /\ pts > 0 /\ pts <= real' + Delta
      /\ real' + Delta <= pts + MaxOffset
      /\ real' \in Nat
  BY <1>2, DeltaFacts, HLCAssumption DEF TypeOK, ClockInv
<1> DEFINE t == [p |-> pts, l |-> 0]
           sleepUntil == [p |-> pts + MaxOffset, l |-> 0]
<1>4. now(Zero, pts) = t /\ UpperBound(t) = pts + MaxOffset
  BY <1>3 DEF now, Zero, UpperBound
<1>5. /\ up' = [up EXCEPT ![n] = IF Less(t, sleepUntil) THEN "skip" ELSE "up"]
      /\ ts' = [ts EXCEPT ![n] = t]
      /\ learned' = [learned EXCEPT ![n] = pts]
      /\ until' = [until EXCEPT ![n] = sleepUntil]
  BY <1>1, <1>4
<1>6. t \in Stamp /\ sleepUntil \in Stamp
  BY <1>3, HLCAssumption DEF Stamp
<1>7. TypeOK'
  BY <1>2, <1>3, <1>5, <1>6, HLCAssumption DEF TypeOK
<1>8. \A x \in Stamp : Plausible(x) => x.p <= real' + Delta /\ x.l <= calls'
  BY <1>2, DeltaFacts DEF Plausible, TypeOK, Stamp
<1>9. ClockInv'
  <2>1. ASSUME NEW k \in Node
        PROVE  /\ Plausible(ts[k])' /\ Plausible(seen[k])'
               /\ (up[k] = "up" => LessEq(seen[k], ts[k]))'
               /\ (up[k] = "skip" => seen[k].p < until[k].p /\ until[k].l = 0)'
    <3>1. seen[k] \in Stamp /\ seen'[k] = seen[k] /\ Plausible(seen[k])'
      BY <1>2, <1>8 DEF TypeOK, ClockInv, Plausible
    <3>2. CASE k = n
      <4>1. ts'[k] = t /\ until'[k] = sleepUntil
            /\ up'[k] = IF Less(t, sleepUntil) THEN "skip" ELSE "up"
        BY <1>5, <3>2 DEF TypeOK
      <4>2. seen[k].p < pts + MaxOffset
        BY <1>2, <1>3, DeltaFacts, HLCAssumption
           DEF ClockInv, Plausible, TypeOK, Stamp
      <4>3. Plausible(ts[k])'
        BY <1>2, <1>3, <4>1 DEF Plausible, TypeOK
      <4>4. CASE Less(t, sleepUntil)
        BY <3>1, <4>1, <4>2, <4>3, <4>4
      <4>5. CASE ~Less(t, sleepUntil)
        BY <1>3, <3>1, <4>1, <4>2, <4>3, <4>5, HLCAssumption
           DEF Less, LessEq, Stamp
      <4> QED BY <4>4, <4>5
    <3>3. CASE k # n
      <4>1. ts'[k] = ts[k] /\ until'[k] = until[k] /\ up'[k] = up[k]
            /\ ts[k] \in Stamp
        BY <1>5, <3>3 DEF TypeOK
      <4> QED BY <1>8, <3>1, <4>1 DEF ClockInv, Plausible
    <3> QED BY <3>2, <3>3
  <2>2. ASSUME NEW k \in Node, NEW d \in Caller
        PROVE  /\ Plausible(call[k][d].m)'
               /\ (call[k][d].pts <= real + Delta)'
               /\ (call[k][d].before <= call[k][d].pts + MaxOffset)'
               /\ (call[k][d].op # "idle" => up[k] = "up")'
    <3>1. call'[k][d] = call[k][d] /\ call[k][d] \in Calls
      BY <1>2 DEF TypeOK
    <3>2. call[k][d].pts <= real' + Delta
      BY <1>2, <3>1, DeltaFacts DEF ClockInv, TypeOK, Calls
    <3>3. call[k][d].op # "idle" => up'[k] = "up"
      BY <1>2, <1>5 DEF ClockInv, TypeOK
    <3> QED BY <1>8, <3>1, <3>2, <3>3 DEF ClockInv, Plausible, Calls
  <2>3. real' >= Delta + 1 /\ largest' <= real' + Delta
    BY <1>2, DeltaFacts DEF ClockInv, TypeOK
  <2>4. ASSUME NEW x \in issued' PROVE x.p <= real' + Delta /\ x.l <= calls'
    BY <1>2, <1>8 DEF ClockInv, TypeOK
  <2> QED BY <2>1, <2>2, <2>3, <2>4 DEF ClockInv, Plausible
<1> QED BY <1>7, <1>9

\* A turn of the skip loop: the process serves only once its clock is past
\* sleepUntil.
LEMMA SkipInv ==
  ASSUME TypeOK, ClockInv, NEW n \in Node, SkipClockUncertainity(n)
  PROVE  TypeOK' /\ ClockInv'
<1>1. PICK pts \in Readings :
       IF handleClockJump(learned[n], pts)
       THEN /\ crashes < MaxCrashes
            /\ Down(n)
            /\ UNCHANGED calls
       ELSE LET t == now(ts[n], pts)
            IN  /\ ts' = [ts EXCEPT ![n] = t]
                /\ learned' = [learned EXCEPT ![n] = Larger(@, pts)]
                /\ up' = [up EXCEPT ![n] =
                           IF Less(t, until[n]) THEN "skip" ELSE "up"]
                /\ calls' = calls + 1
                /\ UNCHANGED <<call, until, crashes>>
  BY DEF SkipClockUncertainity
<1>2. /\ up[n] = "skip" /\ calls < MaxCalls
      /\ UNCHANGED <<real, issued, largest, seen>>
  BY DEF SkipClockUncertainity
<1>3. CASE handleClockJump(learned[n], pts)
  BY <1>1, <1>2, <1>3, DownInv
<1>4. CASE ~handleClockJump(learned[n], pts)
  <2> DEFINE t == now(ts[n], pts)
  <2>1. /\ ts' = [ts EXCEPT ![n] = t]
        /\ learned' = [learned EXCEPT ![n] = Larger(@, pts)]
        /\ up' = [up EXCEPT ![n] = IF Less(t, until[n]) THEN "skip" ELSE "up"]
        /\ calls' = calls + 1
        /\ UNCHANGED <<call, until, crashes>>
    BY <1>1, <1>4
  <2>2. /\ pts \in Nat /\ pts <= real + Delta
        /\ ts[n] \in Stamp /\ ts[n].l + 1 < LogicalMod
        /\ ts[n].p <= real + Delta /\ ts[n].l <= calls
        /\ seen[n] \in Stamp /\ until[n] \in Stamp
    <3>1. pts \in Nat /\ pts <= real + Delta
      BY ReadingFacts
    <3>2. ts[n] \in Stamp /\ seen[n] \in Stamp /\ until[n] \in Stamp
      BY DEF TypeOK
    <3>3. ts[n].p <= real + Delta /\ ts[n].l <= calls
      BY DEF ClockInv, Plausible
    <3>4. ts[n].l \in Nat /\ calls \in Nat
      BY <3>2, HLCAssumption DEF TypeOK, Stamp
    <3> QED BY <1>2, <3>1, <3>2, <3>3, <3>4, HLCAssumption
  <2>3. /\ t.p = ts[n].p \/ t.p = pts
        /\ t.l <= ts[n].l + 1
    BY <2>2, NowGrows
  <2>4. t \in Stamp
    BY <2>2, NowGrows
  <2>5. t.p <= real + Delta /\ t.l <= calls'
    BY <2>1, <2>2, <2>3, <2>4, NowGrows DEF Stamp, TypeOK
  <2>6. TypeOK'
    BY <1>2, <2>1, <2>2, <2>4, HLCAssumption DEF TypeOK, Larger
  <2>7. \A x \in Stamp : Plausible(x) => x.p <= real' + Delta /\ x.l <= calls'
    BY <1>2, <2>1 DEF Plausible, TypeOK, Stamp
  <2>8. ASSUME NEW k \in Node
        PROVE  /\ Plausible(ts[k])' /\ Plausible(seen[k])'
               /\ (up[k] = "up" => LessEq(seen[k], ts[k]))'
               /\ (up[k] = "skip" => seen[k].p < until[k].p /\ until[k].l = 0)'
    <3>1. seen[k] \in Stamp /\ seen'[k] = seen[k] /\ until'[k] = until[k]
          /\ Plausible(seen[k])'
      BY <1>2, <2>1, <2>7 DEF TypeOK, ClockInv, Plausible
    <3>2. CASE k = n
      <4>1. ts'[k] = t
            /\ up'[k] = IF Less(t, until[k]) THEN "skip" ELSE "up"
        BY <2>1, <3>2 DEF TypeOK
      <4>2. Plausible(ts[k])'
        BY <1>2, <2>5, <4>1 DEF Plausible
      <4>3. seen[k].p < until[k].p /\ until[k].l = 0
        BY <1>2, <3>2 DEF ClockInv
      <4>4. CASE Less(t, until[k])
        BY <3>1, <4>1, <4>2, <4>3, <4>4
      <4>5. CASE ~Less(t, until[k])
        <5>1. LessEq(seen[k], t)
          BY <2>2, <2>4, <3>1, <3>2, <4>3, <4>5 DEF Less, LessEq, Stamp
        <5> QED BY <3>1, <4>1, <4>2, <4>5, <5>1
      <4> QED BY <4>4, <4>5
    <3>3. CASE k # n
      <4>1. ts'[k] = ts[k] /\ up'[k] = up[k] /\ ts[k] \in Stamp
        BY <2>1, <3>3 DEF TypeOK
      <4> QED BY <2>7, <3>1, <4>1 DEF ClockInv, Plausible
    <3> QED BY <3>2, <3>3
  <2>9. ASSUME NEW k \in Node, NEW d \in Caller
        PROVE  /\ Plausible(call[k][d].m)'
               /\ (call[k][d].pts <= real + Delta)'
               /\ (call[k][d].before <= call[k][d].pts + MaxOffset)'
               /\ (call[k][d].op # "idle" => up[k] = "up")'
    <3>1. call'[k][d] = call[k][d] /\ call[k][d] \in Calls
      BY <2>1 DEF TypeOK
    <3>2. call[k][d].op # "idle" => up'[k] = "up"
      BY <1>2, <2>1 DEF ClockInv, TypeOK
    <3> QED BY <1>2, <2>7, <3>1, <3>2 DEF ClockInv, Plausible, Calls
  <2>10. ASSUME NEW x \in issued' PROVE x.p <= real' + Delta /\ x.l <= calls'
    BY <1>2, <2>7 DEF ClockInv, TypeOK
  <2>11. ClockInv'
    BY <1>2, <2>8, <2>9, <2>10 DEF ClockInv, Plausible
  <2> QED BY <2>6, <2>11
<1> QED BY <1>3, <1>4

\* Time passes.
LEMMA TickInv ==
  ASSUME TypeOK, ClockInv, Tick
  PROVE  TypeOK' /\ ClockInv'
<1>1. TypeOK'
  BY DEF TypeOK, Tick
<1>2. \A x \in Stamp : Plausible(x) => Plausible(x)'
  BY DeltaFacts DEF Plausible, Tick, TypeOK, Stamp
<1>3. ClockInv'
  BY <1>2, DeltaFacts DEF ClockInv, Tick, TypeOK, Calls
<1> QED BY <1>1, <1>3

\* Every step keeps the invariant, and a Now() that returns is causal and
\* bounded.
LEMMA StepInv ==
  ASSUME TypeOK, ClockInv, [Next]_vars, SkipOnRestart
  PROVE  /\ TypeOK' /\ ClockInv'
         /\ \A n \in Node, c \in Caller : Returns(n, c) =>
              /\ Less(seen[n], ts'[n])
              /\ call[n][c].before <= UpperBound(ts'[n])
<1> DEFINE Bounded ==
      \A n \in Node, c \in Caller : Returns(n, c) =>
        /\ Less(seen[n], ts'[n])
        /\ call[n][c].before <= UpperBound(ts'[n])
<1>1. CASE UNCHANGED vars
  BY <1>1 DEF vars, TypeOK, ClockInv, Plausible, Returns
<1>2. CASE Tick
  BY <1>2, TickInv DEF Tick, Returns
<1>3. ASSUME NEW n \in Node, Crash(n) PROVE TypeOK' /\ ClockInv' /\ Bounded
  BY <1>3, DownInv DEF Crash, Returns
<1>4. ASSUME NEW n \in Node, Restart(n) PROVE TypeOK' /\ ClockInv' /\ Bounded
  BY <1>4, RestartInv DEF Restart, Returns
<1>5. ASSUME NEW n \in Node, SkipClockUncertainity(n)
      PROVE  TypeOK' /\ ClockInv' /\ Bounded
  <2>1. ~\E k \in Node, c \in Caller : Returns(k, c)
    BY <1>5 DEF SkipClockUncertainity, Returns
  <2> QED BY <1>5, <2>1, SkipInv
<1>6. ASSUME NEW n \in Node, OffsetMonitor(n)
      PROVE  TypeOK' /\ ClockInv' /\ Bounded
  BY <1>6, OffsetMonitorInv DEF OffsetMonitor, Returns
<1>7. ASSUME NEW n \in Node, NEW c \in Caller, CallNow(n, c)
      PROVE  TypeOK' /\ ClockInv' /\ Bounded
  <2>1. Zero \in Stamp /\ Plausible(Zero)
    BY DeltaFacts DEF Zero, Stamp, Plausible, TypeOK
  <2>2. PhysicalClock(n, c, "now", Zero)
    BY <1>7 DEF CallNow
  <2>3. TypeOK' /\ ClockInv'
    BY <2>1, <2>2, PhysicalClockInv
  <2> QED BY <2>2, <2>3 DEF PhysicalClock, Returns
<1>8. ASSUME NEW n \in Node, NEW c \in Caller, CallUpdate(n, c)
      PROVE  TypeOK' /\ ClockInv' /\ Bounded
  <2>1. PICK m \in issued : PhysicalClock(n, c, "update", m)
    BY <1>8 DEF CallUpdate
  <2>2. m \in Stamp /\ Plausible(m)
    BY DEF TypeOK, ClockInv
  <2>3. TypeOK' /\ ClockInv'
    BY <2>1, <2>2, PhysicalClockInv
  <2> QED BY <2>1, <2>3 DEF PhysicalClock, Returns
<1>9. ASSUME NEW n \in Node, NEW c \in Caller, KeepPhysicalClock(n, c)
      PROVE  TypeOK' /\ ClockInv' /\ Bounded
  <2>1. UNCHANGED calls
    BY <1>9 DEF KeepPhysicalClock
  <2> QED BY <1>9, <2>1, KeepPhysicalClockInv DEF Returns
<1>10. ASSUME NEW n \in Node, NEW c \in Caller, NowLocked(n, c)
       PROVE  TypeOK' /\ ClockInv' /\ Bounded
  <2>1. \A k \in Node, d \in Caller : Returns(k, d) => k = n /\ d = c
    BY <1>10 DEF NowLocked, Returns, TypeOK
  <2> QED BY <1>10, <2>1, NowLockedInv
<1>11. ASSUME NEW n \in Node, NEW c \in Caller, UpdateLocked(n, c)
       PROVE  TypeOK' /\ ClockInv' /\ Bounded
  BY <1>11, UpdateLockedInv DEF UpdateLocked, Returns
<1> QED
  BY <1>1, <1>2, <1>3, <1>4, <1>5, <1>6, <1>7, <1>8, <1>9, <1>10, <1>11
     DEF Next

(***************************************************************************)
(* The theorems.                                                            *)
(***************************************************************************)

\* The inductive invariant holds in every reachable state.
THEOREM ClockInvariant ==
  ASSUME SkipOnRestart PROVE Spec => [](TypeOK /\ ClockInv)
<1>1. TypeOK /\ ClockInv /\ [Next]_vars => (TypeOK /\ ClockInv)'
  BY StepInv
<1> QED BY <1>1, InitInv, PTL DEF Spec

\* Now() returns a stamp above every stamp its node has returned or merged,
\* over crashes too, if a restart skips the clock uncertainty period.
THEOREM Causality == ASSUME SkipOnRestart PROVE Spec => NowIsCausal
<1>1. TypeOK /\ ClockInv /\ [Next]_vars =>
        [\A n \in Node, c \in Caller : Returns(n, c) => Less(seen[n], ts'[n])]_vars
  BY StepInv
<1> QED BY <1>1, ClockInvariant, PTL DEF Spec, NowIsCausal

\* The second result of Now() is an upper bound of every stamp that was
\* issued in the cluster before the call.
THEOREM UpperBoundIsOne == ASSUME SkipOnRestart PROVE Spec => UpperBoundHolds
<1>1. TypeOK /\ ClockInv /\ [Next]_vars =>
        [\A n \in Node, c \in Caller :
           Returns(n, c) => call[n][c].before <= UpperBound(ts'[n])]_vars
  BY StepInv
<1> QED BY <1>1, ClockInvariant, PTL DEF Spec, UpperBoundHolds

=============================================================================
