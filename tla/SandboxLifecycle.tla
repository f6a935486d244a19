-------------------------- MODULE SandboxLifecycle --------------------------
(***************************************************************************)
(* The life of a sandbox session in the workload manager: the create       *)
(* handler with its rollback, the delete handler, the garbage collector,   *)
(* the Kubernetes objects they act on and the session registry that ties   *)
(* them together.  Handlers and collector are goroutines of one process    *)
(* that may crash; every call to Kubernetes or to the store is a step of   *)
(* its own and may fail.                                                   *)
(*                                                                         *)
(* A session id is a fresh uuid and the object's name a fresh random name, *)
(* so a session is created once and owns one Kubernetes object.            *)
(***************************************************************************)
EXTENDS SessionStore

CONSTANTS
    IdleTimeouts,   \* idle timeouts requested, 0 when none is
    DefaultIdle,    \* DefaultSandboxIdleTimeout
    TTL,            \* maximal session duration
    DefaultTTL,     \* DefaultSandboxTTL
    Lookback,       \* gcInactiveLookback
    GCLimit,        \* gcCandidateLimit
    Faults,         \* the calls that may fail: subset of {"k8s", "store"}
    MaxTime,        \* bound: the clock stops here
    MaxStart,       \* bound: no creation starts after this time
    MaxCrashes      \* bound: crashes of the workload manager

ASSUME LifecycleAssumption ==
    /\ IdleTimeouts \subseteq Nat
    /\ DefaultIdle \in Nat
    /\ TTL \in Nat
    /\ DefaultTTL \in Nat
    /\ Lookback \in Nat
    /\ GCLimit \in Nat \ {0}
    /\ Faults \subseteq {"k8s", "store"}
    /\ MaxTime \in Nat
    /\ MaxStart \in Nat
    /\ MaxCrashes \in Nat

VARIABLES
    now,            \* wall clock in whole seconds, shared by all parts
    crashes,        \* crashes so far
    obj,            \* obj[s]: the Sandbox or SandboxClaim of s in Kubernetes
    req,            \* req[s]: the create request of s at the API server
    pc,             \* pc[s]: where the create handler of s is
    kind,           \* kind[s]: what the handler creates for s
    idle,           \* idle[s]: IdleTimeout recorded for s
    deadline,       \* deadline[s]: ExpiresAt of the placeholder record
    ch,             \* ch[s]: the notification channel holds a ready sandbox
    dpc,            \* dpc[s]: where the delete handler of s is
    dname,          \* dname[s]: the name the delete handler read
    gcpc,           \* where the garbage collector is
    gcNow,          \* the time at which this collection began
    gcScore,        \* gcScore[s]: score of s in the last list, or Absent
    gcTargets,      \* sessions still to be collected in this round
    gcName,         \* gcName[s]: the name loaded for target s
    gcCur,          \* the session whose store entry is being deleted
    overtaken,      \* sessions touched after this round listed them (history)
    hist            \* hist[s]: what has happened to s (history variable)

k8sVars == <<obj, req>>
request == <<kind, idle, deadline>>
createVars == <<pc, request, ch>>
deleteVars == <<dpc, dname>>
gcVars == <<gcpc, gcNow, gcScore, gcTargets, gcName, gcCur, overtaken>>
\* What a step of a create handler, and one of the collector in a round, leaves.
notCreate == <<deleteVars, gcVars, now, crashes>>
notGC == <<createVars, deleteVars, now, crashes, overtaken>>
vars == <<storeVars, k8sVars, createVars, notCreate, hist>>

Kinds == {"Sandbox", "SandboxClaim"}

\* The stages of createSandbox up to the point where rollback is disarmed.
StoreStages == {"store1", "store2", "store3"}
CreateStages == StoreStages \cup {"create", "sent", "wait", "verify", "update"}
RollbackStages == {"rbk8s", "rb1", "rb2", "rb3"}
Answered == {"ok", "failed", "crashed"}
InProgress == CreateStages \cup RollbackStages

(***************************************************************************)
(* What hist[s] records, for the statement of the properties only:         *)
(*   rollbackFailed  the rollback could not delete the Kubernetes object   *)
(*   lateCreate      the API server executed the create request after the  *)
(*                   handler had given up on it                            *)
(*   collectedEarly  the collector took s while its creation was under way *)
(*   reclaimed       s was collected, or deleted on request, after that    *)
(***************************************************************************)
Holes == {"rollbackFailed", "lateCreate", "collectedEarly"}
Events == Holes \cup {"reclaimed"}

TypeOK ==
    /\ StoreTypeOK
    /\ now \in 0..MaxTime
    /\ crashes \in 0..MaxCrashes
    /\ obj \in [Sessions -> {"none", "pending", "ready"}]
    /\ req \in [Sessions -> {"none", "sent", "applied", "rejected"}]
    /\ pc \in [Sessions -> {"new"} \cup InProgress \cup Answered]
    /\ kind \in [Sessions -> Kinds]
    /\ idle \in [Sessions -> Nat]
    /\ deadline \in [Sessions -> Nat]
    /\ ch \in [Sessions -> BOOLEAN]
    /\ dpc \in [Sessions -> {"idle", "k8s", "del1", "del2", "del3"}]
    /\ dname \in [Sessions -> Names]
    /\ gcpc \in {"idle", "list1", "load1", "list2", "load2", "loop", "gc1", "gc2", "gc3"}
    /\ gcNow \in Nat
    /\ gcScore \in [Sessions -> Nat \cup {Absent}]
    /\ gcTargets \in SUBSET Sessions
    /\ gcName \in [Sessions -> Names]
    /\ gcCur \in SUBSET Sessions
    /\ overtaken \in SUBSET Sessions
    /\ hist \in [Sessions -> SUBSET Events]

Init ==
    /\ StoreInit
    /\ now = 0
    /\ crashes = 0
    /\ obj = [s \in Sessions |-> "none"]
    /\ req = [s \in Sessions |-> "none"]
    /\ pc = [s \in Sessions |-> "new"]
    /\ kind = [s \in Sessions |-> "Sandbox"]
    /\ idle = [s \in Sessions |-> 0]
    /\ deadline = [s \in Sessions |-> 0]
    /\ ch = [s \in Sessions |-> FALSE]
    /\ dpc = [s \in Sessions |-> "idle"]
    /\ dname = [s \in Sessions |-> "requested"]
    /\ gcpc = "idle"
    /\ gcNow = 0
    /\ gcScore = [s \in Sessions |-> Absent]
    /\ gcTargets = {}
    /\ gcName = [s \in Sessions |-> "requested"]
    /\ gcCur = {}
    /\ overtaken = {}
    /\ hist = [s \in Sessions |-> {}]

Goto(s, stage) == pc' = [pc EXCEPT ![s] = stage]

\* The handler of s goes to another stage and does nothing else.
Move(s, stage) ==
    /\ Goto(s, stage)
    /\ UNCHANGED <<storeVars, k8sVars, request, ch, notCreate, hist>>

Note(s, event) == hist' = [hist EXCEPT ![s] = @ \cup {event}]
Met(s, events) == \E e \in events : e \in hist[s]

(***************************************************************************)
(* Deleting the object of s by the recorded kind and name.  NotFound counts *)
(* as success, so a name that no object of that kind carries "succeeds"    *)
(* and deletes nothing.                                                    *)
(***************************************************************************)
DeleteObject(s, name) ==
    /\ obj' = IF name = "requested" THEN [obj EXCEPT ![s] = "none"] ELSE obj
    /\ UNCHANGED req

-----------------------------------------------------------------------------
\* ShutdownTime of the sandbox spec, and ExpiresAt of its placeholder.
ShutdownTime == now + TTL

(***************************************************************************)
(* handleSandboxCreate, up to the call of createSandbox.  A request that is *)
(* refused (invalid body, unknown owner, missing runtime, no user client)  *)
(* leaves no trace.                                                        *)
(***************************************************************************)
HandleSandboxCreate(s) ==
    /\ pc[s] = "new"
    /\ now <= MaxStart
    /\ \/ /\ \E k \in Kinds, i \in IdleTimeouts :
                /\ kind' = [kind EXCEPT ![s] = k]
                /\ idle' = [idle EXCEPT ![s] = IF i = 0 THEN DefaultIdle ELSE i]
          /\ deadline' = [deadline EXCEPT ![s] = ShutdownTime]
          /\ Goto(s, "store1")
       \/ /\ Goto(s, "failed")
          /\ UNCHANGED <<kind, idle, deadline>>
    /\ UNCHANGED <<storeVars, k8sVars, ch, notCreate, hist>>

\* buildSandboxPlaceHolder
PlaceHolder(s) == [status |-> "creating", name |-> "requested", expires |-> deadline[s]]

(***************************************************************************)
(* The activity that a call of the store records is the time at which the  *)
(* caller prepared it: some time since the session's creation began.       *)
(***************************************************************************)
Stamps(s) == {at \in 0..now : deadline[s] <= at + TTL}

\* The stages of the StoreSandbox pipeline.
StoreStage == <<"store1", "store2", "store3", "create">>

StorePlaceHolder(s) ==
    /\ \E k \in 1..3, at \in Stamps(s) :
          /\ pc[s] = StoreStage[k]
          /\ StoreCmd(k, s, PlaceHolder(s), at)
          /\ Goto(s, StoreStage[k + 1])
    /\ UNCHANGED <<k8sVars, request, ch, notCreate, hist>>

(***************************************************************************)
(* StoreSandbox returns an error: some prefix of the pipeline has been     *)
(* executed, and the handler returns before it has registered a rollback.  *)
(***************************************************************************)
StorePlaceHolderFails(s) ==
    /\ "store" \in Faults
    /\ pc[s] \in StoreStages \cup {"create"}
    /\ Move(s, "failed")

\* createK8sResources sends the create request.
CreateK8sResources(s) ==
    /\ pc[s] = "create"
    /\ req' = [req EXCEPT ![s] = "sent"]
    /\ Goto(s, "sent")
    /\ UNCHANGED <<storeVars, obj, request, ch, notCreate, hist>>

\* The API server executes the request, whether or not anyone still waits.
ApiServerCreates(s) ==
    /\ req[s] = "sent"
    /\ req' = [req EXCEPT ![s] = "applied"]
    /\ obj' = [obj EXCEPT ![s] = "pending"]
    /\ hist' = IF pc[s] = "sent" THEN hist ELSE [hist EXCEPT ![s] = @ \cup {"lateCreate"}]
    /\ UNCHANGED <<storeVars, createVars, notCreate>>

ApiServerRejects(s) ==
    /\ "k8s" \in Faults
    /\ req[s] = "sent"
    /\ req' = [req EXCEPT ![s] = "rejected"]
    /\ UNCHANGED <<storeVars, obj, createVars, notCreate, hist>>

CreateSucceeds(s) ==
    /\ pc[s] = "sent"
    /\ req[s] = "applied"
    /\ Move(s, "wait")

\* Mutant: a create request that failed is sent once more.
MutCreateFails(s) ==
    /\ req[s] = "rejected" \/ "k8s" \in Faults
    /\ pc[s] = "sent"
    /\ Goto(s, "create")
    /\ ch' = [ch EXCEPT ![s] = FALSE]
    /\ UNCHANGED <<storeVars, k8sVars, request, notCreate, hist>>

(***************************************************************************)
(* The call returns an error: the request was rejected, or its answer was  *)
(* lost, or the client went away while it was still being executed.        *)
(***************************************************************************)
CreateFails(s) ==
    /\ req[s] = "rejected" \/ "k8s" \in Faults
    /\ pc[s] = "sent"
    /\ Goto(s, "rbk8s")
    /\ ch' = [ch EXCEPT ![s] = FALSE]
    /\ UNCHANGED <<storeVars, k8sVars, request, notCreate, hist>>

\* The agent-sandbox controller brings the sandbox up.
SandboxBecomesReady(s) ==
    /\ obj[s] = "pending"
    /\ obj' = [obj EXCEPT ![s] = "ready"]
    /\ UNCHANGED <<storeVars, req, createVars, notCreate, hist>>

(***************************************************************************)
(* The agent-sandbox controller deletes a Sandbox at its ShutdownTime.  A  *)
(* SandboxClaim carries none.                                              *)
(***************************************************************************)
ShutdownTimePasses(s) ==
    /\ obj[s] # "none"
    /\ kind[s] = "Sandbox"
    /\ deadline[s] <= now
    /\ obj' = [obj EXCEPT ![s] = "none"]
    /\ UNCHANGED <<storeVars, req, createVars, notCreate, hist>>

\* SandboxReconciler.Reconcile finds a watcher for a ready sandbox.
Reconcile(s) ==
    /\ pc[s] \in {"sent", "wait"}
    /\ kind[s] = "Sandbox"
    /\ obj[s] = "ready"
    /\ ~ch[s]
    /\ ch' = [ch EXCEPT ![s] = TRUE]
    /\ UNCHANGED <<storeVars, k8sVars, pc, request, notCreate, hist>>

(***************************************************************************)
(* waitForCreatedSandbox: a direct sandbox is announced on the channel, a  *)
(* claimed one is polled for.                                              *)
(***************************************************************************)
WaitForCreatedSandbox(s) ==
    /\ pc[s] = "wait"
    /\ IF kind[s] = "Sandbox" THEN ch[s] ELSE obj[s] = "ready"
    /\ Goto(s, "verify")
    /\ ch' = [ch EXCEPT ![s] = FALSE]
    /\ UNCHANGED <<storeVars, k8sVars, request, notCreate, hist>>

\* Mutant: the poll for a claimed sandbox has no time limit.
MutWaitFails(s) ==
    /\ pc[s] = "wait"
    /\ kind[s] = "Sandbox"
    /\ Goto(s, "rbk8s")
    /\ ch' = [ch EXCEPT ![s] = FALSE]
    /\ UNCHANGED <<storeVars, k8sVars, request, notCreate, hist>>

\* Timeout, cancelled request, or a read error that is not retried.
WaitFails(s) ==
    /\ pc[s] = "wait"
    /\ Goto(s, "rbk8s")
    /\ ch' = [ch EXCEPT ![s] = FALSE]
    /\ UNCHANGED <<storeVars, k8sVars, request, notCreate, hist>>

\* GetSandboxPodIP and waitForSandboxEntryPointsReady.
VerifySandbox(s) ==
    /\ pc[s] = "verify"
    /\ Move(s, "update")

VerifyFails(s) ==
    /\ pc[s] = "verify"
    /\ Move(s, "rbk8s")

(***************************************************************************)
(* buildSandboxInfo describes the sandbox that came up.  For a claim that  *)
(* is a warm-pool sandbox, with its own name and the expiry of a sandbox   *)
(* without shutdown time that was created at time 0.                       *)
(***************************************************************************)
BuildSandboxInfo(s) ==
    IF kind[s] = "Sandbox"
    THEN [status |-> "ready", name |-> "requested", expires |-> deadline[s]]
    ELSE [status |-> "ready", name |-> "adopted", expires |-> DefaultTTL]

\* Mutant: the record keeps the expiry of the adopted sandbox.
MutStoreCacheInfoExpiry(s) ==
    [status |-> BuildSandboxInfo(s).status,
     name |-> PlaceHolder(s).name,
     expires |-> BuildSandboxInfo(s).expires]

\* Mutant: the record keeps the name of the adopted sandbox.
MutStoreCacheInfoName(s) ==
    [status |-> BuildSandboxInfo(s).status,
     name |-> BuildSandboxInfo(s).name,
     expires |-> PlaceHolder(s).expires]

\* createSandbox restores the claim's own name and expiry before it stores.
StoreCacheInfo(s) ==
    IF kind[s] = "SandboxClaim"
    THEN [status |-> BuildSandboxInfo(s).status,
          name |-> PlaceHolder(s).name,
          expires |-> PlaceHolder(s).expires]
    ELSE BuildSandboxInfo(s)

UpdateRecord(s) ==
    /\ pc[s] = "update"
    /\ UpdateSandbox(s, StoreCacheInfo(s))
    /\ Goto(s, "ok")
    /\ UNCHANGED <<k8sVars, request, ch, notCreate, hist>>

\* Mutant: the error of UpdateSandbox is swallowed.
MutUpdateRecordFails(s) ==
    /\ pc[s] = "update"
    /\ Move(s, "ok")

\* The key is gone, or the command failed with or without effect.
UpdateRecordFails(s) ==
    /\ Stored(s) => "store" \in Faults
    /\ pc[s] = "update"
    /\ UpdateSandbox(s, StoreCacheInfo(s)) \/ UNCHANGED storeVars
    /\ Goto(s, "rbk8s")
    /\ UNCHANGED <<k8sVars, request, ch, notCreate, hist>>

(***************************************************************************)
(* rollbackSandboxCreation deletes the Kubernetes object, goes on whatever *)
(* came of that, and deletes the store entry.                              *)
(***************************************************************************)
RollbackObject(s) ==
    /\ pc[s] = "rbk8s"
    /\ DeleteObject(s, "requested")
    /\ Goto(s, "rb1")
    /\ UNCHANGED <<storeVars, request, ch, notCreate, hist>>

RollbackObjectFails(s) ==
    /\ "k8s" \in Faults
    /\ pc[s] = "rbk8s"
    /\ Goto(s, "rb1")
    /\ Note(s, "rollbackFailed")
    /\ UNCHANGED <<storeVars, k8sVars, request, ch, notCreate>>

RollbackStage == <<"rb1", "rb2", "rb3", "failed">>

RollbackStore(s) ==
    /\ \E k \in 1..3 :
          /\ pc[s] = RollbackStage[k]
          /\ DeleteCmd(k, s)
          /\ Goto(s, RollbackStage[k + 1])
    /\ UNCHANGED <<k8sVars, request, ch, notCreate, hist>>

RollbackStoreFails(s) ==
    /\ "store" \in Faults
    /\ pc[s] \in {"rb1", "rb2", "rb3"}
    /\ Move(s, "failed")

-----------------------------------------------------------------------------
(***************************************************************************)
(* handleDeleteSandbox.  Only a client that was told the session id can    *)
(* ask for its deletion.  The record is read, the object it names deleted, *)
(* and only then the store entry, under a context of its own.              *)
(***************************************************************************)
HandleDeleteSandbox(s) ==
    /\ pc[s] = "ok"
    /\ dpc[s] = "idle"
    /\ Stored(s)
    /\ dpc' = [dpc EXCEPT ![s] = "k8s"]
    /\ dname' = [dname EXCEPT ![s] = rec[s].name]
    /\ UNCHANGED <<storeVars, k8sVars, createVars, gcVars, now, crashes, hist>>

DeleteHandlerObject(s) ==
    /\ dpc[s] = "k8s"
    /\ DeleteObject(s, dname[s])
    /\ dpc' = [dpc EXCEPT ![s] = "del1"]
    /\ Note(s, "reclaimed")
    /\ UNCHANGED <<storeVars, createVars, dname, gcVars, now, crashes>>

\* The object could not be deleted, or the answer was lost: 500, entry kept.
DeleteHandlerObjectFails(s) ==
    /\ "k8s" \in Faults
    /\ dpc[s] = "k8s"
    /\ \/ DeleteObject(s, dname[s]) /\ Note(s, "reclaimed")
       \/ UNCHANGED <<k8sVars, hist>>
    /\ dpc' = [dpc EXCEPT ![s] = "idle"]
    /\ dname' = [dname EXCEPT ![s] = "requested"]
    /\ UNCHANGED <<storeVars, createVars, gcVars, now, crashes>>

DeleteStage == <<"del1", "del2", "del3", "idle">>

DeleteHandlerStore(s) ==
    /\ \E k \in 1..3 :
          /\ dpc[s] = DeleteStage[k]
          /\ DeleteCmd(k, s)
          /\ dpc' = [dpc EXCEPT ![s] = DeleteStage[k + 1]]
    /\ UNCHANGED <<k8sVars, createVars, dname, gcVars, now, crashes, hist>>

DeleteHandlerStoreFails(s) ==
    /\ "store" \in Faults
    /\ dpc[s] \in {"del1", "del2", "del3"}
    /\ dpc' = [dpc EXCEPT ![s] = "idle"]
    /\ UNCHANGED <<storeVars, k8sVars, createVars, dname, gcVars, now, crashes, hist>>

-----------------------------------------------------------------------------
(***************************************************************************)
(* garbageCollector.once.  Listing the inactive sessions takes two round   *)
(* trips (the ids with their scores, then the records); so does listing    *)
(* the expired ones.  A list that fails counts as empty.                   *)
(***************************************************************************)
Scores(idx, ids) == [s \in Sessions |-> IF s \in ids THEN idx[s] ELSE Absent]
Listed == {s \in Sessions : gcScore[s] # Absent}
NoScores == [s \in Sessions |-> Absent]

GCBegins ==
    /\ gcpc = "idle"
    /\ gcNow' = now
    /\ gcpc' = "list1"
    /\ UNCHANGED <<storeVars, k8sVars, notGC, gcScore, gcTargets, gcName, gcCur, hist>>

GCListInactive ==
    /\ gcpc = "list1"
    /\ \E ids \in RangeByScore(activityIdx, gcNow - Lookback, GCLimit) :
          gcScore' = Scores(activityIdx, ids)
    /\ gcpc' = "load1"
    /\ UNCHANGED <<storeVars, k8sVars, notGC, gcNow, gcTargets, gcName, gcCur, hist>>

\* Mutant: every listed session is taken, whatever its own timeout.
MutIdleTooLongAll(s, past) == gcScore[s] <= gcNow - Lookback

(***************************************************************************)
(* The per-session idle check, on the score that came with the list.  The  *)
(* score is in whole seconds and the round's time is not: past says that   *)
(* it is past the full second.                                             *)
(***************************************************************************)
IdleTooLong(s, past) ==
    \/ gcScore[s] + idle[s] < gcNow
    \/ past /\ gcScore[s] + idle[s] = gcNow

GCLoadInactive ==
    /\ gcpc = "load1"
    /\ \E past \in BOOLEAN : gcTargets' = {s \in Load(Listed) : IdleTooLong(s, past)}
    /\ gcName' = [s \in Sessions |-> IF s \in gcTargets' THEN rec[s].name ELSE gcName[s]]
    /\ gcScore' = NoScores
    /\ gcpc' = "list2"
    /\ UNCHANGED <<storeVars, k8sVars, notGC, gcNow, gcCur, hist>>

GCListInactiveFails ==
    /\ "store" \in Faults
    /\ gcpc \in {"list1", "load1"}
    /\ gcScore' = NoScores
    /\ gcpc' = "list2"
    /\ UNCHANGED <<storeVars, k8sVars, notGC, gcNow, gcTargets, gcName, gcCur, hist>>

GCListExpired ==
    /\ gcpc = "list2"
    /\ \E ids \in RangeByScore(expiryIdx, gcNow, GCLimit) :
          gcScore' = Scores(expiryIdx, ids)
    /\ gcpc' = "load2"
    /\ UNCHANGED <<storeVars, k8sVars, notGC, gcNow, gcTargets, gcName, gcCur, hist>>

\* deduplicateSandboxes keeps the entry of the inactive list.
GCLoadExpired ==
    /\ gcpc = "load2"
    /\ gcTargets' = gcTargets \cup Load(Listed)
    /\ gcName' = [s \in Sessions |-> IF s \in Load(Listed) \ gcTargets THEN rec[s].name ELSE gcName[s]]
    /\ gcScore' = NoScores
    /\ gcpc' = "loop"
    /\ UNCHANGED <<storeVars, k8sVars, notGC, gcNow, gcCur, hist>>

GCListExpiredFails ==
    /\ "store" \in Faults
    /\ gcpc \in {"list2", "load2"}
    /\ gcScore' = NoScores
    /\ gcpc' = "loop"
    /\ UNCHANGED <<storeVars, k8sVars, notGC, gcNow, gcTargets, gcName, gcCur, hist>>

GCDeleteObject(s) ==
    /\ gcpc = "loop"
    /\ s \in gcTargets
    /\ DeleteObject(s, gcName[s])
    /\ gcTargets' = gcTargets \ {s}
    /\ gcCur' = {s}
    /\ gcpc' = "gc1"
    /\ Note(s, IF pc[s] \in CreateStages THEN "collectedEarly" ELSE "reclaimed")
    /\ UNCHANGED <<storeVars, notGC, gcNow, gcScore, gcName>>

\* Mutant: the store entry is deleted although the object was not.
MutGCDeleteObjectFails(s) ==
    /\ gcpc = "loop"
    /\ s \in gcTargets
    /\ gcTargets' = gcTargets \ {s}
    /\ gcCur' = {s}
    /\ gcpc' = "gc1"
    /\ UNCHANGED <<storeVars, k8sVars, notGC, gcNow, gcScore, gcName, hist>>

\* The session is skipped and its store entry kept for the next round.
GCDeleteObjectFails(s) ==
    /\ "k8s" \in Faults
    /\ gcpc = "loop"
    /\ s \in gcTargets
    /\ \/ /\ DeleteObject(s, gcName[s])
          /\ Note(s, IF pc[s] \in CreateStages THEN "collectedEarly" ELSE "reclaimed")
       \/ UNCHANGED <<k8sVars, hist>>
    /\ gcTargets' = gcTargets \ {s}
    /\ UNCHANGED <<storeVars, notGC, gcpc, gcNow, gcScore, gcName, gcCur>>

GCStage == <<"gc1", "gc2", "gc3", "loop">>

GCDeleteRecord(s) ==
    /\ s \in gcCur
    /\ \E k \in 1..3 :
          /\ gcpc = GCStage[k]
          /\ DeleteCmd(k, s)
          /\ gcpc' = GCStage[k + 1]
          /\ gcCur' = IF k = 3 THEN {} ELSE gcCur
    /\ UNCHANGED <<k8sVars, notGC, gcNow, gcScore, gcTargets, gcName, hist>>

GCDeleteRecordFails ==
    /\ "store" \in Faults
    /\ gcpc \in {"gc1", "gc2", "gc3"}
    /\ gcpc' = "loop"
    /\ gcCur' = {}
    /\ UNCHANGED <<storeVars, k8sVars, notGC, gcNow, gcScore, gcTargets, gcName, hist>>

GCEnds ==
    /\ gcpc = "loop"
    /\ gcTargets = {}
    /\ gcpc' = "idle"
    /\ gcNow' = 0
    /\ gcName' = [s \in Sessions |-> "requested"]
    /\ overtaken' = {}
    /\ UNCHANGED <<storeVars, k8sVars, createVars, deleteVars, now, crashes, gcScore, gcTargets,
                   gcCur, hist>>

-----------------------------------------------------------------------------
(***************************************************************************)
(* The router records activity of a session it forwards a request to.  It  *)
(* learnt the id from the create response or from the client.  Touches     *)
(* that wait for the store at the same time are executed in any order, so  *)
(* a later one may set the score back.                                     *)
(***************************************************************************)
RouterTouches(s) ==
    /\ pc[s] = "ok"
    /\ \E at \in Stamps(s) : UpdateSessionLastActivity(s, at)
    /\ overtaken' = IF s \in Listed \cup gcTargets THEN overtaken \cup {s} ELSE overtaken
    /\ UNCHANGED <<k8sVars, createVars, deleteVars, now, crashes, gcpc, gcNow, gcScore,
                   gcTargets, gcName, gcCur, hist>>

(***************************************************************************)
(* The workload manager dies and is restarted: goroutines and channels are *)
(* gone, the store and Kubernetes are not.                                 *)
(***************************************************************************)
Crash ==
    /\ crashes < MaxCrashes
    /\ crashes' = crashes + 1
    /\ pc' = [s \in Sessions |-> IF pc[s] \in InProgress THEN "crashed" ELSE pc[s]]
    /\ ch' = [s \in Sessions |-> FALSE]
    /\ dpc' = [s \in Sessions |-> "idle"]
    /\ gcpc' = "idle"
    /\ gcNow' = 0
    /\ gcScore' = NoScores
    /\ gcTargets' = {}
    /\ gcName' = [s \in Sessions |-> "requested"]
    /\ gcCur' = {}
    /\ overtaken' = {}
    /\ UNCHANGED <<storeVars, k8sVars, kind, idle, deadline, dname, now, hist>>

Tick ==
    /\ now < MaxTime
    /\ now' = now + 1
    /\ UNCHANGED <<storeVars, k8sVars, createVars, deleteVars, gcVars, crashes, hist>>

-----------------------------------------------------------------------------
CreateStep(s) ==
    \/ HandleSandboxCreate(s)
    \/ StorePlaceHolder(s)
    \/ StorePlaceHolderFails(s)
    \/ CreateK8sResources(s)
    \/ CreateSucceeds(s)
    \/ CreateFails(s)
    \/ WaitForCreatedSandbox(s)
    \/ WaitFails(s)
    \/ VerifySandbox(s)
    \/ VerifyFails(s)
    \/ UpdateRecord(s)
    \/ UpdateRecordFails(s)

RollbackStep(s) ==
    \/ RollbackObject(s)
    \/ RollbackObjectFails(s)
    \/ RollbackStore(s)
    \/ RollbackStoreFails(s)

DeleteStep(s) ==
    \/ HandleDeleteSandbox(s)
    \/ DeleteHandlerObject(s)
    \/ DeleteHandlerObjectFails(s)
    \/ DeleteHandlerStore(s)
    \/ DeleteHandlerStoreFails(s)

KubernetesStep(s) ==
    \/ ApiServerCreates(s)
    \/ ApiServerRejects(s)
    \/ SandboxBecomesReady(s)
    \/ ShutdownTimePasses(s)
    \/ Reconcile(s)

GCStep ==
    \/ GCBegins
    \/ GCListInactive
    \/ GCLoadInactive
    \/ GCListInactiveFails
    \/ GCListExpired
    \/ GCLoadExpired
    \/ GCListExpiredFails
    \/ \E s \in Sessions : GCDeleteObject(s) \/ GCDeleteObjectFails(s) \/ GCDeleteRecord(s)
    \/ GCDeleteRecordFails
    \/ GCEnds

Next ==
    \/ \E s \in Sessions :
          \/ CreateStep(s)
          \/ RollbackStep(s)
          \/ DeleteStep(s)
          \/ KubernetesStep(s)
          \/ RouterTouches(s)
    \/ GCStep
    \/ Crash
    \/ Tick

Spec == Init /\ [][Next]_vars

-----------------------------------------------------------------------------
(***************************************************************************)
(* The collector can reach the object of s: there is a record that names   *)
(* it, and the record is in both sorted sets.                              *)
(***************************************************************************)
Findable(s) ==
    /\ Stored(s)
    /\ rec[s].name = "requested"
    /\ expiryIdx[s] # Absent
    /\ activityIdx[s] # Absent

(***************************************************************************)
(* No leak: an object in Kubernetes can be found by the collector in every *)
(* state, crashes and failed calls included, with three exceptions that    *)
(* the code leaves open: the rollback failed to delete the object, the API *)
(* server executed an abandoned create request late, or the collector took *)
(* the session before its creation was over.                               *)
(***************************************************************************)
NoLeak ==
    \A s \in Sessions : obj[s] # "none" => Findable(s) \/ Met(s, Holes)

(***************************************************************************)
(* UpdateSandbox rewrites the record and not the expiry set, so the record *)
(* it writes must carry the expiry that the set was given.                 *)
(***************************************************************************)
ExpiryAgrees ==
    \A s \in Sessions :
        Stored(s) /\ expiryIdx[s] # Absent => rec[s].expires = expiryIdx[s]

(***************************************************************************)
(* The collector takes only sessions that had expired when the round       *)
(* began, or whose recorded activity was then older than their own idle    *)
(* timeout, to the second.  The one activity it may overlook is a touch    *)
(* that reached the store after the round had listed the scores.           *)
(***************************************************************************)
CollectsOnlyIdleOrExpired ==
    \A s \in gcTargets :
        \/ deadline[s] <= gcNow
        \/ activityIdx[s] + idle[s] <= gcNow
        \/ s \in overtaken

(***************************************************************************)
(* A session whose creation was answered with 200 stays usable (a ready    *)
(* record, an object up to its shutdown time) until it is reclaimed.       *)
(***************************************************************************)
AnsweredSessionUsable ==
    \A s \in Sessions :
        pc[s] = "ok" /\ ~Met(s, {"reclaimed", "collectedEarly"}) =>
            /\ Stored(s) /\ rec[s].status = "ready"
            /\ obj[s] # "none" \/ (kind[s] = "Sandbox" /\ deadline[s] <= now)

(***************************************************************************)
(* No resurrection: once the placeholder has been written, a record that   *)
(* has gone never comes back, whoever removed it.                          *)
(***************************************************************************)
NoResurrection ==
    [][\A s \in Sessions : pc[s] # "store1" /\ ~Stored(s) => ~Stored(s)']_vars

(***************************************************************************)
(* What docs/design/agentcube-proposal.md promises of a rollback that could *)
(* not delete the object: the collector goes on until it is gone.          *)
(***************************************************************************)
FailedRollbackReclaimed ==
    \A s \in Sessions :
        pc[s] = "failed" /\ "rollbackFailed" \in hist[s] ~> obj[s] = "none"

-----------------------------------------------------------------------------
(***************************************************************************)
(* Fairness.  Handlers and collector are goroutines that keep running, so  *)
(* they never stop between two calls; the API server answers; the clock    *)
(* goes on.  The collector runs on a ticker for ever and a call that it    *)
(* makes again and again does not fail every time.                         *)
(***************************************************************************)
HandlerProgress(s) ==
    \/ CreateStep(s) /\ pc[s] # "new"
    \/ RollbackStep(s)
    \/ DeleteStep(s) /\ dpc[s] # "idle"

Fairness ==
    /\ \A s \in Sessions :
          /\ WF_vars(HandlerProgress(s))
          /\ WF_vars(ApiServerCreates(s) \/ ApiServerRejects(s))
          /\ SF_vars(GCDeleteObject(s))
          /\ SF_vars(GCDeleteRecord(s))
    /\ WF_vars(GCStep)
    /\ SF_vars(GCListExpired)
    /\ SF_vars(GCLoadExpired)
    /\ WF_vars(Tick)

LiveSpec == Spec /\ Fairness

\* With a controller that does delete every Sandbox at its shutdown time.
ShutdownSpec == LiveSpec /\ \A s \in Sessions : WF_vars(ShutdownTimePasses(s))

(***************************************************************************)
(* Every creation that was begun is answered, or dies with the process:    *)
(* the wait for readiness is bounded and the rollback runs to its end.     *)
(***************************************************************************)
CreationAnswered ==
    \A s \in Sessions : pc[s] \in InProgress ~> pc[s] \in Answered

(***************************************************************************)
(* Every record that reached the expiry set is removed in the end, whether *)
(* its creation succeeded, failed half way or died with the process.       *)
(***************************************************************************)
RecordReclaimed ==
    \A s \in Sessions : Stored(s) /\ expiryIdx[s] # Absent ~> ~Stored(s)

(***************************************************************************)
(* Every object is deleted in the end, except through the holes of NoLeak. *)
(***************************************************************************)
ObjectReclaimed ==
    \A s \in Sessions : obj[s] # "none" ~> (obj[s] = "none" \/ Met(s, Holes))

(***************************************************************************)
(* The collector, or the handlers before it, reclaim record and object of  *)
(* every session, by the two properties above.                             *)
(***************************************************************************)
Reclaimed == RecordReclaimed /\ ObjectReclaimed
=============================================================================
