--------------------------- MODULE ValkeySessions ---------------------------
(***************************************************************************)
(* Several sessions in the Valkey backend of the registry, and a collector *)
(* that sees no more of them than gcCandidateLimit at a time.  Here the    *)
(* sorted sets matter: what stays in them without a record, because a      *)
(* pipeline broke or two clients crossed, takes a place in every listing.  *)
(*                                                                         *)
(* The Kubernetes side is reduced to whether an object can be deleted.  It *)
(* is in the module SandboxLifecycle, with the deletions that handlers     *)
(* make and with crashes; here the collector is the one that deletes.      *)
(* Unlike the script of the Redis backend, UpdateSessionLastActivity is    *)
(* two commands of Valkey.                                                 *)
(***************************************************************************)
EXTENDS SessionStore

CONSTANTS
    Idle,           \* Idle[s]: IdleTimeout in the record of s, 0 for none
    DefaultIdle,    \* DefaultSandboxIdleTimeout
    TTL,            \* maximal session duration
    Lookback,       \* gcMinInactiveLookback
    GCLimit,        \* gcCandidateLimit
    Stuck,          \* sessions whose object Kubernetes refuses to delete
    Left,           \* earlier sessions of which the sorted sets were not rid
    MaxTime,        \* bound: the clock stops here
    MaxStart,       \* bound: no creation starts after this time
    MaxBroken       \* bound: calls of the store that break

ASSUME ValkeyAssumption ==
    /\ Idle \in [Sessions -> Nat]
    /\ DefaultIdle \in Nat /\ TTL \in Nat /\ Lookback \in Nat /\ GCLimit \in Nat
    /\ Stuck \subseteq Sessions /\ Left \subseteq Sessions
    /\ MaxTime \in Nat /\ MaxStart \in Nat /\ MaxBroken \in Nat

VARIABLES
    now,        \* wall clock in whole seconds
    broken,     \* calls of the store that broke so far
    pc,         \* pc[s]: where the creation of s is
    touch,      \* touch[s]: the time a touch of s is about to write, or Absent
    gcpc,       \* where the collector is
    gcNow,      \* when this round began
    gcList,     \* the ids of the last listing whose records are to be loaded
    gcTargets,  \* the sessions to be collected in this round
    gcCur,      \* the session whose entry is being deleted
    cut,        \* sessions with a pipeline that broke (history)
    crossed     \* sessions deleted between two commands of a writer (history)

sessionVars == <<pc, touch>>
gcVars == <<gcpc, gcNow, gcList, gcTargets, gcCur>>
vars == <<storeVars, now, broken, sessionVars, gcVars, cut, crossed>>

StoreStage == <<"new", "store2", "store3", "live">>
Deleting == {"del1", "del2", "del3"}

TypeOK ==
    /\ StoreTypeOK
    /\ now \in 0..MaxTime
    /\ broken \in 0..MaxBroken
    /\ pc \in [Sessions -> {"new", "store2", "store3", "live", "end"}]
    /\ touch \in [Sessions -> Nat \cup {Absent}]
    /\ gcpc \in {"idle", "list1", "load1", "list2", "load2", "loop"} \cup Deleting
    /\ gcNow \in 0..MaxTime
    /\ gcList \subseteq Sessions
    /\ gcTargets \subseteq Sessions
    /\ gcCur \subseteq Sessions
    /\ cut \subseteq Sessions
    /\ crossed \subseteq Sessions

Init ==
    /\ rec = [s \in Sessions |-> NoRecord]
    /\ expiryIdx = [s \in Sessions |-> IF s \in Left THEN 0 ELSE Absent]
    /\ activityIdx = expiryIdx
    /\ now = 0
    /\ broken = 0
    /\ pc = [s \in Sessions |-> IF s \in Left THEN "end" ELSE "new"]
    /\ touch = [s \in Sessions |-> Absent]
    /\ gcpc = "idle"
    /\ gcNow = 0
    /\ gcList = {}
    /\ gcTargets = {}
    /\ gcCur = {}
    /\ cut = Left
    /\ crossed = {}

Goto(s, stage) == pc' = [pc EXCEPT ![s] = stage]

Works == UNCHANGED <<now, broken, cut>>

\* A call of the store breaks, and with it the pipelines of S.
Breaks(S) ==
    /\ broken < MaxBroken
    /\ broken' = broken + 1
    /\ cut' = cut \cup S
    /\ UNCHANGED <<storeVars, now, crossed>>

-----------------------------------------------------------------------------
(***************************************************************************)
(* The commands of DeleteSandboxBySessionID.  The first of them crosses a  *)
(* client that has commands for the same session still to come.            *)
(***************************************************************************)
DeleteStage(last) == <<"del1", "del2", "del3", last>>

\* Mutant: the record goes last, when nothing leads to it any more.
MutDeleteSandboxBySessionID(k, s) ==
    /\ DeleteCmd(IF k = 3 THEN 1 ELSE k + 1, s)
    /\ crossed' = crossed \cup IF touch[s] # Absent \/ pc[s] = "store3" THEN {s} ELSE {}

DeleteSandboxBySessionID(k, s) ==
    /\ DeleteCmd(k, s)
    /\ crossed' = crossed \cup IF k = 1 /\ (touch[s] # Absent \/ pc[s] = "store3") THEN {s} ELSE {}

\* Mutant: the session duration is subtracted.
MutPlaceHolder == [status |-> "creating", name |-> "requested", expires |-> now - TTL]

\* The record that createSandbox stores before there is a sandbox.
PlaceHolder == [status |-> "creating", name |-> "requested", expires |-> now + TTL]

\* When a call may have been prepared: at some time since the session began.
Stamps(s) == {at \in 0..now : Stored(s) => rec[s].expires <= at + TTL}

(***************************************************************************)
(* StoreSandbox: the three commands that DoMulti sends, with the expiry    *)
(* that the handler has fixed in the placeholder and the time at which it  *)
(* built the commands.                                                     *)
(***************************************************************************)
StoreSandbox(s) ==
    /\ pc[s] = "new" => now <= MaxStart
    /\ \E k \in 1..3, at \in Stamps(s) :
          /\ pc[s] = StoreStage[k]
          /\ StoreCmd(k, s, IF k = 1 THEN PlaceHolder ELSE rec[s], at)
          /\ Goto(s, StoreStage[k + 1])
    /\ Works
    /\ UNCHANGED <<touch, gcVars, crossed>>

\* The handler fails without a rollback, and the session id is given to nobody.
StoreSandboxBreaks(s) ==
    /\ pc[s] \in {"store2", "store3"}
    /\ Breaks({s})
    /\ Goto(s, "end")
    /\ UNCHANGED <<touch, gcVars>>

-----------------------------------------------------------------------------
\* Mutant: the existence of the record is not asked for.
MutTouchExists(s) ==
    /\ pc[s] = "live"
    /\ touch[s] = Absent
    /\ \E at \in Stamps(s) : touch' = [touch EXCEPT ![s] = at]
    /\ Works
    /\ UNCHANGED <<storeVars, pc, gcVars, crossed>>

\* UpdateSessionLastActivity, called by the router: EXISTS of the record.
TouchExists(s) ==
    /\ pc[s] = "live"
    /\ touch[s] = Absent
    /\ Stored(s)
    /\ \E at \in Stamps(s) : touch' = [touch EXCEPT ![s] = at]
    /\ Works
    /\ UNCHANGED <<storeVars, pc, gcVars, crossed>>

\* ... and ZADD, whatever has become of the record since.
TouchAdd(s) ==
    /\ touch[s] # Absent
    /\ activityIdx' = [activityIdx EXCEPT ![s] = touch[s]]
    /\ touch' = [touch EXCEPT ![s] = Absent]
    /\ Works
    /\ UNCHANGED <<rec, expiryIdx, pc, gcVars, crossed>>

TouchBreaks(s) ==
    /\ touch[s] # Absent
    /\ Breaks({})
    /\ touch' = [touch EXCEPT ![s] = Absent]
    /\ UNCHANGED <<pc, gcVars>>

-----------------------------------------------------------------------------
IdleTimeout(s) == IF Idle[s] = 0 THEN DefaultIdle ELSE Idle[s]

\* Mutant: one place of the listing is given away.
MutListInactiveSandboxes == RangeByScore(activityIdx, gcNow - Lookback, GCLimit - 1)

\* What ListInactiveSandboxes may find before it loads the records.
ListInactiveSandboxes == RangeByScore(activityIdx, gcNow - Lookback, GCLimit)

\* The scores are full seconds; the round's time may be past a full second.
IdleTooLong(s, past) ==
    \/ activityIdx[s] + IdleTimeout(s) < gcNow
    \/ past /\ activityIdx[s] + IdleTimeout(s) = gcNow

GCBegins ==
    /\ gcpc = "idle"
    /\ gcNow' = now
    /\ gcpc' = "list1"
    /\ Works
    /\ UNCHANGED <<storeVars, sessionVars, gcList, gcTargets, gcCur, crossed>>

\* The candidates that are idle beyond their own timeout stay in the list.
GCListInactive ==
    /\ gcpc = "list1"
    /\ \E ids \in ListInactiveSandboxes, past \in BOOLEAN :
          gcList' = {s \in ids : IdleTooLong(s, past)}
    /\ gcpc' = "load1"
    /\ Works
    /\ UNCHANGED <<storeVars, sessionVars, gcNow, gcTargets, gcCur, crossed>>

GCLoadInactive ==
    /\ gcpc = "load1"
    /\ gcTargets' = Load(gcList)
    /\ gcList' = {}
    /\ gcpc' = "list2"
    /\ Works
    /\ UNCHANGED <<storeVars, sessionVars, gcNow, gcCur, crossed>>

\* ListExpiredSandboxes before it loads the records.
GCListExpired ==
    /\ gcpc = "list2"
    /\ gcList' \in RangeByScore(expiryIdx, gcNow, GCLimit)
    /\ gcpc' = "load2"
    /\ Works
    /\ UNCHANGED <<storeVars, sessionVars, gcNow, gcTargets, gcCur, crossed>>

GCLoadExpired ==
    /\ gcpc = "load2"
    /\ gcTargets' = gcTargets \cup Load(gcList)
    /\ gcList' = {}
    /\ gcpc' = "loop"
    /\ Works
    /\ UNCHANGED <<storeVars, sessionVars, gcNow, gcCur, crossed>>

\* A listing that fails counts as empty.
GCListBreaks ==
    /\ \/ gcpc \in {"list1", "load1"} /\ gcpc' = "list2"
       \/ gcpc \in {"list2", "load2"} /\ gcpc' = "loop"
    /\ Breaks({})
    /\ gcList' = {}
    /\ UNCHANGED <<sessionVars, gcNow, gcTargets, gcCur>>

\* The object of a target is deleted, and its entry is next.
GCDeleteObject(s) ==
    /\ gcpc = "loop"
    /\ s \in gcTargets \ Stuck
    /\ gcTargets' = gcTargets \ {s}
    /\ gcCur' = {s}
    /\ gcpc' = "del1"
    /\ Works
    /\ UNCHANGED <<storeVars, sessionVars, gcNow, gcList, crossed>>

\* It is not, and the loop goes on with the next target.
GCSkips(s) ==
    /\ gcpc = "loop"
    /\ s \in gcTargets
    /\ gcTargets' = gcTargets \ {s}
    /\ Works
    /\ UNCHANGED <<storeVars, sessionVars, gcpc, gcNow, gcList, gcCur, crossed>>

GCDeletes(s) ==
    /\ s \in gcCur
    /\ \E k \in 1..3 :
          /\ gcpc = DeleteStage("loop")[k]
          /\ DeleteSandboxBySessionID(k, s)
          /\ gcpc' = DeleteStage("loop")[k + 1]
          /\ gcCur' = IF k = 3 THEN {} ELSE gcCur
    /\ Works
    /\ UNCHANGED <<sessionVars, gcNow, gcList, gcTargets>>

GCDeleteBreaks ==
    /\ gcpc \in Deleting
    /\ Breaks(gcCur)
    /\ gcCur' = {}
    /\ gcpc' = "loop"
    /\ UNCHANGED <<sessionVars, gcNow, gcList, gcTargets>>

GCEnds ==
    /\ gcpc = "loop"
    /\ gcTargets = {}
    /\ gcpc' = "idle"
    /\ gcNow' = 0
    /\ Works
    /\ UNCHANGED <<storeVars, sessionVars, gcList, gcTargets, gcCur, crossed>>

Tick ==
    /\ now < MaxTime
    /\ now' = now + 1
    /\ UNCHANGED <<storeVars, broken, sessionVars, gcVars, cut, crossed>>

-----------------------------------------------------------------------------
SessionStep(s) ==
    \/ StoreSandbox(s) \/ StoreSandboxBreaks(s)
    \/ TouchAdd(s) \/ TouchBreaks(s)

GCStep ==
    \/ GCBegins
    \/ GCListInactive \/ GCLoadInactive
    \/ GCListExpired \/ GCLoadExpired \/ GCListBreaks
    \/ \E s \in Sessions : GCDeleteObject(s) \/ GCSkips(s) \/ GCDeletes(s)
    \/ GCDeleteBreaks
    \/ GCEnds

Next ==
    \/ \E s \in Sessions :
          SessionStep(s) \/ TouchExists(s)
    \/ GCStep
    \/ Tick

(***************************************************************************)
(* Handlers and collector keep running, and the clock goes on.  A deletion *)
(* that Kubernetes does not refuse for good succeeds at some attempt.      *)
(***************************************************************************)
Fairness ==
    /\ \A s \in Sessions :
          /\ WF_vars(SessionStep(s) /\ pc[s] # "new")
          /\ SF_vars(GCDeleteObject(s))
    /\ WF_vars(GCStep)
    /\ WF_vars(Tick)

Spec == Init /\ [][Next]_vars /\ Fairness

-----------------------------------------------------------------------------
AtRest(s) ==
    /\ pc[s] \in {"new", "live", "end"}
    /\ touch[s] = Absent
    /\ s \notin gcCur

(***************************************************************************)
(* Every record that is stored can be found by the collector through both  *)
(* sorted sets, also while it is being deleted, unless the pipeline that   *)
(* stored it broke: the record goes before its entries in the sets do.     *)
(***************************************************************************)
RecordIndexed ==
    \A s \in Sessions :
        Stored(s) /\ pc[s] \notin {"store2", "store3"} /\ s \notin cut =>
            expiryIdx[s] = rec[s].expires /\ activityIdx[s] # Absent

(***************************************************************************)
(* A session leaves nothing in the sorted sets when its record is gone,    *)
(* unless a pipeline broke.  The two commands of a touch, and the last one *)
(* of storing, let a deletion between them leave one in the activity set.  *)
(***************************************************************************)
NothingLeft ==
    \A s \in Sessions :
        AtRest(s) /\ ~Stored(s) /\ s \notin cut =>
            expiryIdx[s] = Absent /\ (activityIdx[s] = Absent \/ s \in crossed)

\* The sessions that take a place before s in the listing of idx and keep it.
Before(s, idx, Due(_)) ==
    {t \in InRange(idx, idx[s]) \ {s} : ~Stored(t) \/ t \in Stuck \/ ~Due(t)}

Expired(s) == Stored(s) /\ expiryIdx[s] # Absent /\ expiryIdx[s] <= now

Overdue(s) ==
    /\ Stored(s)
    /\ activityIdx[s] # Absent
    /\ activityIdx[s] <= now - Lookback
    /\ activityIdx[s] + IdleTimeout(s) < now

(***************************************************************************)
(* An expired session is collected as long as the members of the expiry    *)
(* set that never leave it do not fill the listing by themselves.          *)
(***************************************************************************)
ExpiredCollected ==
    \A s \in Sessions \ Stuck :
        []<>(Expired(s) => Cardinality(Before(s, expiryIdx, Expired)) >= GCLimit)

(***************************************************************************)
(* So is an idle one, as long as the listing is not filled by those that,  *)
(* besides, are not due by their own timeout.                              *)
(***************************************************************************)
IdleCollected ==
    \A s \in Sessions \ Stuck :
        []<>(Overdue(s) => Cardinality(Before(s, activityIdx, Overdue)) >= GCLimit)

(***************************************************************************)
(* The collector's two listings find every session that is due, expired or *)
(* idle, although those that stay take their places in each pass.          *)
(***************************************************************************)
DueCollected == ExpiredCollected /\ IdleCollected
=============================================================================
