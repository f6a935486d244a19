------------------------- MODULE MCSandboxLifecycle -------------------------
(***************************************************************************)
(* Small instances of SandboxLifecycle for TLC: one session through every  *)
(* interleaving of its handlers, the collector, touches and a crash.       *)
(***************************************************************************)
EXTENDS SandboxRegistry
=============================================================================
