-------------------------- MODULE MCOrdererCluster --------------------------
(* Small instances of OrdererCluster for TLC.  One certificate stands for the *)
(* two of a node: one failed reconcile, not two, then ends a node's polling.  *)
EXTENDS OrdererCluster

MCCerts == {"tls"}
=============================================================================
