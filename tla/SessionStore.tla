---------------------------- MODULE SessionStore ----------------------------
(***************************************************************************)
(* The session registry kept in Redis or Valkey (pkg/store): one JSON      *)
(* record per session under the key session:{id}, and two sorted sets that *)
(* index the session ids by expiry time and by last activity.              *)
(*                                                                         *)
(* Each operator is one server command.  The multi-command operations of   *)
(* the Store interface (StoreSandbox, DeleteSandboxBySessionID) are not    *)
(* transactions: they are pipelines whose commands other clients may       *)
(* interleave with and of which a lost connection may leave a prefix.      *)
(* Their callers therefore take them one command per step.                 *)
(***************************************************************************)
EXTENDS Integers, FiniteSets

CONSTANT Sessions   \* the session ids (uuids) that creations may draw

VARIABLES
    rec,            \* rec[s]: the record under session:{s}, or NoRecord
    expiryIdx,      \* expiryIdx[s]: score of s in the expiry set, or Absent
    activityIdx     \* activityIdx[s]: score in the last-activity set, or Absent

storeVars == <<rec, expiryIdx, activityIdx>>

Absent == -1        \* no score is negative: times are natural numbers here

(***************************************************************************)
(* The fields of SandboxInfo that the lifecycle looks at.  "requested" is  *)
(* the name the workload manager gave the Sandbox or SandboxClaim it       *)
(* created for the session; "adopted" is the name of the warm-pool sandbox *)
(* that a claim was bound to, which no SandboxClaim carries.               *)
(***************************************************************************)
Names == {"requested", "adopted"}
SandboxInfo == [status : {"creating", "ready"}, name : Names, expires : Nat]
NoRecord == [status |-> "none", name |-> "requested", expires |-> 0]

Stored(s) == rec[s] # NoRecord

StoreTypeOK ==
    /\ rec \in [Sessions -> SandboxInfo \cup {NoRecord}]
    /\ expiryIdx \in [Sessions -> Nat \cup {Absent}]
    /\ activityIdx \in [Sessions -> Nat \cup {Absent}]

StoreInit ==
    /\ rec = [s \in Sessions |-> NoRecord]
    /\ expiryIdx = [s \in Sessions |-> Absent]
    /\ activityIdx = [s \in Sessions |-> Absent]

(***************************************************************************)
(* StoreSandbox: SETNX of the record, ZADD of its ExpiresAt, ZADD of the   *)
(* present time.                                                           *)
(***************************************************************************)
StoreCmd(k, s, info, at) ==
    /\ rec' = IF k = 1 /\ ~Stored(s) THEN [rec EXCEPT ![s] = info] ELSE rec
    /\ expiryIdx' = IF k = 2 THEN [expiryIdx EXCEPT ![s] = info.expires] ELSE expiryIdx
    /\ activityIdx' = IF k = 3 THEN [activityIdx EXCEPT ![s] = at] ELSE activityIdx

\* Mutant: a plain SET, which creates the key when it is gone.
MutUpdateSandbox(s, info) ==
    /\ rec' = [rec EXCEPT ![s] = info]
    /\ UNCHANGED <<expiryIdx, activityIdx>>

(***************************************************************************)
(* UpdateSandbox: SET ... XX.  It replaces the record of a session that is *)
(* still stored and leaves both sorted sets alone.  On a missing key it    *)
(* writes nothing and returns an error.                                    *)
(***************************************************************************)
UpdateSandbox(s, info) ==
    /\ Stored(s)
    /\ rec' = [rec EXCEPT ![s] = info]
    /\ UNCHANGED <<expiryIdx, activityIdx>>

(***************************************************************************)
(* DeleteSandboxBySessionID: DEL of the record, ZREM from the expiry set,  *)
(* ZREM from the last-activity set, in this order.                         *)
(***************************************************************************)
DeleteCmd(k, s) ==
    /\ rec' = IF k = 1 THEN [rec EXCEPT ![s] = NoRecord] ELSE rec
    /\ expiryIdx' = IF k = 2 THEN [expiryIdx EXCEPT ![s] = Absent] ELSE expiryIdx
    /\ activityIdx' = IF k = 3 THEN [activityIdx EXCEPT ![s] = Absent] ELSE activityIdx

(***************************************************************************)
(* UpdateSessionLastActivity as the Redis backend does it: a Lua script    *)
(* that tests EXISTS and does the ZADD in one atomic step.                 *)
(***************************************************************************)
UpdateSessionLastActivity(s, at) ==
    /\ Stored(s)
    /\ activityIdx' = [activityIdx EXCEPT ![s] = at]
    /\ UNCHANGED <<rec, expiryIdx>>

(***************************************************************************)
(* ZRANGEBYSCORE idx -inf max LIMIT 0 limit: the members that the query    *)
(* may return.  Members are returned in score order, so a member that is   *)
(* left out by the limit has no smaller score than one that is returned.   *)
(***************************************************************************)
InRange(idx, max) == {s \in Sessions : idx[s] # Absent /\ idx[s] <= max}

RangeByScore(idx, max, limit) ==
    {ids \in SUBSET InRange(idx, max) :
        /\ Cardinality(ids) <= limit
        /\ ids # InRange(idx, max) => Cardinality(ids) = limit
        /\ \A s \in ids : \A t \in InRange(idx, max) \ ids : idx[s] <= idx[t]}

(***************************************************************************)
(* loadSandboxesBySessionIDs: the ids whose key is gone are skipped.       *)
(***************************************************************************)
Load(ids) == {s \in ids : Stored(s)}
=============================================================================
