--------------------------- MODULE SandboxRegistry ---------------------------
(***************************************************************************)
(* SandboxLifecycle implements SessionRegistry: what the handlers, the     *)
(* collector, Kubernetes and the store do with a session, seen through the *)
(* stage of its create handler, its record and its object.                 *)
(***************************************************************************)
EXTENDS SandboxLifecycle

PhaseOf(s) ==
    IF pc[s] \in {"new", "store1"} THEN "new"
    ELSE IF pc[s] \in CreateStages THEN "creating"
    ELSE IF pc[s] \in RollbackStages THEN "undoing"
    ELSE IF pc[s] = "ok" THEN "active" ELSE "over"

\* A create request is executed once, and the object does not come back.
ObjectOf(s) ==
    IF req[s] # "applied" THEN "none" ELSE IF obj[s] = "none" THEN "released" ELSE "held"

Registry == INSTANCE SessionRegistry WITH
    phase <- [s \in Sessions |-> PhaseOf(s)],
    record <- [s \in Sessions |-> rec[s].status],
    object <- [s \in Sessions |-> ObjectOf(s)],
    stray <- {s \in Sessions : Met(s, Holes)}

(***************************************************************************)
(* Every behaviour of the code is one that SessionRegistry allows.         *)
(***************************************************************************)
ImplementsRegistry == Registry!Spec
=============================================================================
