--------------------------- MODULE MCKVTxnStorage ---------------------------
(***************************************************************************)
(* Small instances of KVTxnStorage for TLC.                                  *)
(***************************************************************************)
EXTENDS KVTxnStorage, TLC

CONSTANTS k1, k2

MCKey == {k1, k2}
MCBatch == {<<k1>>, <<k1, k2>>, <<k2, k1>>}
Symmetry == Permutations(Txn)
=============================================================================
