---------------------------- MODULE MCReadyWatch ----------------------------
(***************************************************************************)
(* Two handlers and two reconcile workers, which meet on the map and on the *)
(* work queue.                                                             *)
(***************************************************************************)
EXTENDS ReadyWatch
=============================================================================
