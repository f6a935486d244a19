-------------------------- MODULE MCManagerServer --------------------------
(***************************************************************************)
(* Two requests around a shutdown, one of them over h2c, a collector, and  *)
(* two routers that race for the Secret before and after a rotation.       *)
(***************************************************************************)
EXTENDS WorkloadManager
=============================================================================
