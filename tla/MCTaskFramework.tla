-------------------------- MODULE MCTaskFramework --------------------------
(* The task framework for TLC.                                             *)
EXTENDS TaskFramework

CONSTANTS c1, c2, h1, h2

MCCN == {c1, c2}
MCScheduler == {h1, h2}
Symmetry == Permutations(MCCN) \cup Permutations(MCScheduler)

B(cns, fires, errors, expiries, failures, leaders, crashes, starts) ==
  [up |-> cns, fires |-> fires, errors |-> errors, expiries |-> expiries,
   failures |-> failures, leaders |-> leaders, crashes |-> crashes,
   starts |-> starts]

(* One task whose runner expires twice and crashes or fails; one task with *)
(* two schedulers or with storage errors; two tasks with late heartbeats   *)
(* and a failure; cron jobs of two leaders while no CN store is up.        *)
MCBudgets == {B(MCCN, 1, 0, 2, 1, 0, 0, 0), B(MCCN, 1, 0, 2, 0, 0, 1, 1),
              B(MCCN, 1, 0, 1, 0, 1, 0, 0), B(MCCN, 2, 0, 1, 0, 0, 0, 0),
              B(MCCN, 2, 0, 0, 1, 0, 0, 0), B({}, 3, 1, 0, 0, 2, 0, 0),
              B(MCCN, 1, 1, 0, 0, 0, 0, 0)}

(* Two tasks, and one CN store that HAKeeper takes for dead once.          *)
OneExpiry == {B(MCCN, 2, 0, 1, 0, 0, 0, 0)}
=============================================================================
