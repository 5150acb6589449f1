---------------------------- MODULE MCTxnService ----------------------------
(***************************************************************************)
(* Small instances of TxnService for TLC: two shards with a key each.        *)
(***************************************************************************)
EXTENDS TxnService, TLC

CONSTANTS k1, k2, s1, s2

MCKey == {k1, k2}
MCShard == {s1, s2}
MCShardOf == (k1 :> s1) @@ (k2 :> s2)

\* One Write call to both shards: the first one names the coordinator.
Together == {<<k1, k2>>, <<k2, k1>>}
\* Calls to one shard at a time, so that DNShards grows.
Apart == {<<k1>>, <<k2>>}
\* A shard of its own for the clients.
OneShard == {<<k1>>}

Run(batch, sendErrors, late, zombieGC, crashes, reads_, readTS) ==
  [batch |-> batch, sendErrors |-> sendErrors, late |-> late,
   zombieGC |-> zombieGC, crashes |-> crashes, reads |-> reads_,
   readTS |-> readTS, restarted |-> FALSE]

Reading == Run(Together, 0, 0, FALSE, 0, 2, {1, 3})
Recovering == Run(Together, 0, 0, FALSE, 1, 0, {})
Waiting == Run({<<k1, k2>>}, 0, 0, FALSE, 0, 1, {3})
Collecting == Run(OneShard, 0, 1, TRUE, 0, 0, {})

Safety == {Reading, Recovering}
Late == {Run(Apart, 1, 1, FALSE, 0, 0, {})}
Progress == {Recovering, Waiting, Collecting}
OnlyRecovery == {Recovering}

\* Sound without restarts and reads, whose CHOOSE may tell transactions apart.
Symmetry == Permutations(Txn)
=============================================================================
