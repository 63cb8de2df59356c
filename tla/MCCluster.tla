------------------------------- MODULE MCCluster -------------------------------
(***************************************************************************)
(* Small clusters for TLC.  With MaxConns = 3 the Center has two channel   *)
(* indexes: the third connection is refused, or takes over the index of a  *)
(* server that left.                                                       *)
(***************************************************************************)
EXTENDS Cluster, TLC

\* Gates (and worlds) are interchangeable: no property names one of them.
Symmetry == Permutations(Gate) \cup Permutations(World)
================================================================================
