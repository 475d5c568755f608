-------------------------- MODULE MCClusterManager --------------------------
(***************************************************************************)
(* TLC instance of ClusterManager: the bounds are in the .cfg.             *)
(***************************************************************************)
EXTENDS ClusterManager
=============================================================================
