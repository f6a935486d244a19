--------------------------- MODULE SessionRegistry ---------------------------
(***************************************************************************)
(* What the workload manager promises of a session, without saying how: a  *)
(* session is registered before it gets an object, becomes active only     *)
(* with an object and a record, and is forgotten only after its object is  *)
(* released.  It goes through this once and never back.  A session whose   *)
(* object may be out of reach is marked as stray, at one of three points   *)
(* and at no other; for a stray the order is not promised.                 *)
(***************************************************************************)
CONSTANT Sessions

VARIABLES
    phase,      \* phase[s]: how far the creation of s has got
    record,     \* record[s]: what the registry says of s
    object,     \* object[s]: none yet, held, or released
    stray       \* the sessions whose object may be out of reach

vars == <<phase, record, object, stray>>

Init ==
    /\ phase = [s \in Sessions |-> "new"]
    /\ record = [s \in Sessions |-> "none"]
    /\ object = [s \in Sessions |-> "none"]
    /\ stray = {}

Keeps(s) == s \in stray' <=> s \in stray

Register(s) ==
    /\ phase[s] = "new" /\ phase'[s] = "creating"
    /\ record[s] = "none" /\ record'[s] = "creating"
    /\ object'[s] = object[s] /\ Keeps(s)

\* The creation ends, before or after it has begun to leave traces.
GiveUp(s) ==
    /\ \/ phase[s] \in {"new", "creating", "undoing"} /\ phase'[s] = "over"
       \/ phase[s] = "creating" /\ phase'[s] = "undoing"
    /\ record'[s] = record[s] /\ object'[s] = object[s] /\ Keeps(s)

\* An object is for a registered session, or it comes too late and is stray.
Allocate(s) ==
    /\ object[s] = "none" /\ object'[s] = "held"
    /\ \/ phase[s] = "creating" /\ (record[s] # "none" \/ s \in stray) /\ Keeps(s)
       \/ phase[s] \in {"undoing", "over"} /\ s \in stray'
    /\ phase'[s] = phase[s] /\ record'[s] = record[s]

\* The record says that the session is ready, and the creation is answered or undone.
Publish(s) ==
    /\ phase[s] = "creating" /\ phase'[s] \in {"active", "undoing"}
    /\ record[s] # "none" /\ record'[s] = "ready"
    /\ object[s] # "none"
    /\ object'[s] = object[s] /\ Keeps(s)

Release(s) ==
    /\ object[s] = "held" /\ object'[s] = "released"
    /\ Keeps(s) \/ (phase[s] = "creating" /\ s \in stray')
    /\ phase'[s] = phase[s] /\ record'[s] = record[s]

\* The session is collected before its creation is over, or its undoing fails.
GoAstray(s) ==
    /\ phase[s] \in {"creating", "undoing"}
    /\ s \in stray'
    /\ phase'[s] = phase[s] /\ record'[s] = record[s] /\ object'[s] = object[s]

Forget(s) ==
    /\ record[s] # "none" /\ record'[s] = "none"
    /\ phase[s] # "new"
    /\ (object[s] = "held" \/ phase[s] = "creating") => s \in stray
    /\ phase'[s] = phase[s] /\ object'[s] = object[s] /\ Keeps(s)

Same(s) ==
    /\ phase'[s] = phase[s] /\ record'[s] = record[s]
    /\ object'[s] = object[s] /\ Keeps(s)

Step(s) ==
    \/ Register(s)
    \/ GiveUp(s)
    \/ Allocate(s)
    \/ Publish(s)
    \/ Release(s)
    \/ GoAstray(s)
    \/ Forget(s)

\* Sessions do not depend on each other; a crash takes several at once.
Next == \A s \in Sessions : Step(s) \/ Same(s)

Spec == Init /\ [][Next]_vars

-----------------------------------------------------------------------------
(***************************************************************************)
(* What this life amounts to.  Nothing is kept of a session before it is   *)
(* registered; an active or ready session has been given an object; and a  *)
(* session that is forgotten holds no object and is being given none,      *)
(* unless it is marked as stray.                                           *)
(***************************************************************************)
Promise ==
    \A s \in Sessions :
        /\ phase[s] = "new" => record[s] = "none" /\ object[s] = "none" /\ s \notin stray
        /\ phase[s] = "active" \/ record[s] = "ready" => object[s] # "none"
        /\ record[s] = "none" /\ (phase[s] = "creating" \/ object[s] = "held") => s \in stray

(***************************************************************************)
(* It is lived once: a creation that is over stays so, a forgotten session *)
(* is not registered again, an object that was released does not return,   *)
(* and a stray stays one.                                                  *)
(***************************************************************************)
Once ==
    \A s \in Sessions :
        /\ phase[s] \in {"active", "over"} => phase'[s] = phase[s]
        /\ phase[s] # "new" => phase'[s] # "new"
        /\ phase[s] # "new" /\ record[s] = "none" => record'[s] = "none"
        /\ object[s] = "released" => object'[s] = "released"
        /\ object[s] = "held" => object'[s] # "none"
        /\ s \in stray => s \in stray'

\* Once, of every step of a behaviour.
LivedOnce == [][Once]_vars
=============================================================================
