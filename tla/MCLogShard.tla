----------------------------- MODULE MCLogShard -----------------------------
(***************************************************************************)
(* Small instances of LogShard for TLC.                                     *)
(***************************************************************************)
EXTENDS LogShard, TLC

CONSTANTS r1, r2

MCReplica == {r1, r2}

Command(tag, dns, ns) == [tag: {tag}, dn: dns, n: ns]

Leases == Command("LeaseHolderIDUpdate", DN, {0})
Appends == Command("UserEntryUpdate", DN, {0})
Truncations(lsns) == Command("TruncateLSNUpdate", {NoDN}, lsns)
TsoRequests == Command("TSOUpdate", {NoDN}, {2})
Internals == Command("Internal", {NoDN}, {0})

MCProposals == [replay |-> Leases \union Appends \union Truncations({3}) \union Internals,
                snapshots |->
                  Leases \union Truncations({2, 4}) \union TsoRequests]

Run(replicas, maxExported, proposals, faults, replays) ==
  [replicas |-> replicas, maxExported |-> maxExported, proposals |-> proposals,
   faults |-> faults, replays |-> replays]

MCScenarios == {Run({r1}, 1, "replay", 1, 1), Run(Replica, 2, "snapshots", 2, 0)}

Symmetry == Permutations(DN)
=============================================================================
