----------------------------- MODULE MCHAKeeper -----------------------------
(* HAKeeper and log stores for TLC.                                        *)
EXTENDS HAKeeper

CONSTANTS h1, h2

MCLeader == {h1, h2}
Symmetry == Permutations(MCLeader)

F(start, present, faulty, batches, changes, crashes, restarts, slow, leaders, late_, errors,
  expiries, others, skips) ==
  [start |-> start, present |-> present, faulty |-> faulty, batches |-> batches, changes |-> changes,
   crashes |-> crashes, restarts |-> restarts, slow |-> slow,
   leaders |-> leaders, late |-> late_, errors |-> errors,
   expiries |-> expiries, others |-> others, skips |-> skips]

MCScenarios == {
  F("empty", 1..3, {}, 2, 0, 0, 0, 0, 1, 0, 0, 0, 0, 0),
  F("empty", 1..3, {1}, 2, 0, 1, 0, 0, 0, 0, 1, 0, 0, 0),
  F("bootstrapped", Store, {1}, 0, 3, 0, 0, 1, 0, 1, 0, 0, 0, 0),
  F("bootstrapped", Store, {3}, 0, 3, 1, 0, 0, 0, 0, 1, 1, 1, 1),
  F("bootstrapped", Store, 1..2, 0, 3, 2, 0, 0, 0, 0, 0, 0, 0, 0),
  F("bootstrapped", 1..3, {3}, 1, 2, 1, 1, 1, 0, 0, 0, 0, 0, 0),
  F("replaced", Store, {4}, 1, 1, 0, 0, 1, 1, 0, 0, 0, 0, 0)}

LiveScenarios == {
  F("empty", 1..3, {}, 2, 0, 0, 0, 0, 0, 0, 0, 0, 0, 0),
  F("bootstrapped", Store, 1..3, 2, 4, 1, 0, 0, 0, 0, 1, 0, 0, 0),
  F("bootstrapped", Store, {3}, 2, 4, 1, 0, 0, 1, 0, 0, 0, 0, 0),
  F("bootstrapped", 1..3, {3}, 2, 4, 0, 0, 1, 0, 0, 0, 0, 0, 0)}
=============================================================================
