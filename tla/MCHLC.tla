------------------------------- MODULE MCHLC -------------------------------
(***************************************************************************)
(* Small instances of HLC for TLC.  The nodes are interchangeable, and so   *)
(* are the goroutines of a node.                                            *)
(***************************************************************************)
EXTENDS HLC, TLC

Symmetry == Permutations(Node) \cup Permutations(Caller)
=============================================================================
