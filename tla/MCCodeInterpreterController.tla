---------------------- MODULE MCCodeInterpreterController ----------------------
(***************************************************************************)
(* Three specs: no warm pool, a pool for PicoD, and a larger pool of       *)
(* another pod without PicoD's authentication.                             *)
(***************************************************************************)
EXTENDS CodeInterpreterController

SpecChoices ==
    {[size |-> 0, pod |-> 1, auth |-> "picod"],
     [size |-> 1, pod |-> 1, auth |-> "picod"],
     [size |-> 2, pod |-> 2, auth |-> "none"]}
================================================================================
