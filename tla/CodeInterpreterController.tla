---------------------- MODULE CodeInterpreterController ----------------------
(***************************************************************************)
(* The reconciler that keeps a SandboxTemplate and a SandboxWarmPool for a *)
(* CodeInterpreter with a warm pool.  It reads all three objects from      *)
(* informer caches that lag behind the API server, writes to the API       *)
(* server, and is woken by changes of the CodeInterpreter's generation     *)
(* only: nothing wakes it when a template or a pool changes.  The template *)
(* carries the public key of IdentityKey.                                  *)
(*                                                                         *)
(* An object is the sequence of its versions that the informer has yet to  *)
(* deliver: the first is the one in the cache, the last the one in the API *)
(* server.  One CodeInterpreter is modelled; they do not interact.  Its    *)
(* template has an environment, so that a stored pod spec compares equal   *)
(* to the one it was written from.                                         *)
(***************************************************************************)
EXTENDS IdentityKey, Sequences

CONSTANTS
    Specs,          \* the specs a user may choose: [size, pod, auth]
    MaxEdits,       \* bound: creations, updates and deletions by the user
    MaxRestarts,    \* bound: restarts of the workload manager
    MaxLag          \* bound: versions an informer is behind when Kubernetes
                    \* collects; the other writers need no bound

ASSUME SpecAssumption ==
    /\ Specs \subseteq [size : Nat, pod : Nat, auth : {"picod", "none"}]
    /\ MaxEdits \in Nat
    /\ MaxRestarts \in Nat
    /\ MaxLag \in Nat

VARIABLES
    ci,         \* versions of the CodeInterpreter
    tmpl,       \* versions of the SandboxTemplate
    pool,       \* versions of the SandboxWarmPool
    queued,     \* the name of the CodeInterpreter is in the work queue
    wpc,        \* the call that the reconciler is about to make
    held,       \* the CodeInterpreter that it has read
    edits,
    restarts,
    missed      \* history: the children that a stale read left wrong, or that
                \* went with the CodeInterpreter they were first made for

ctrlVars == <<ci, tmpl, pool, queued, wpc, held, edits, restarts, missed>>
vars == <<keyVars, ctrlVars>>

NoSpec == [size |-> 0, pod |-> 0, auth |-> "none"]
NoCI == [uid |-> 0, gen |-> 0, spec |-> NoSpec, observed |-> 0]
NoTemplate == [owner |-> 0, pod |-> 0, key |-> NoKey]
NoPool == [owner |-> 0, size |-> 0]

\* observed is the generation that the Ready condition was set for.
CodeInterpreter == [uid : Nat, gen : Nat, spec : Specs \cup {NoSpec}, observed : Nat]
SandboxTemplate == [owner : Nat, pod : Nat, key : Keys \cup {NoKey}]
SandboxWarmPool == [owner : Nat, size : Nat]

TypeOK ==
    /\ KeyTypeOK
    /\ ci \in Seq(CodeInterpreter) /\ ci # <<>>
    /\ tmpl \in Seq(SandboxTemplate) /\ tmpl # <<>>
    /\ pool \in Seq(SandboxWarmPool) /\ pool # <<>>
    /\ queued \in BOOLEAN
    /\ wpc \in {"idle", "template", "pool", "delpool", "deltemplate", "status"}
    /\ held \in CodeInterpreter
    /\ edits \in 0..MaxEdits
    /\ restarts \in 0..MaxRestarts
    /\ missed \subseteq {"template", "pool"}

Init ==
    /\ KeyInit
    /\ ci = <<NoCI>>
    /\ tmpl = <<NoTemplate>>
    /\ pool = <<NoPool>>
    /\ queued = FALSE
    /\ wpc = "idle"
    /\ held = NoCI
    /\ edits = 0
    /\ restarts = 0
    /\ missed = {}

Cached(obj) == obj[1]
Actual(obj) == obj[Len(obj)]
Stale(obj) == Len(obj) > 1
Exists(child) == child.owner # 0

-----------------------------------------------------------------------------
\* The API server, its users and its garbage collector.
Edit(new) ==
    /\ edits < MaxEdits
    /\ edits' = edits + 1
    /\ ci' = Append(ci, new)
    /\ UNCHANGED <<keyVars, tmpl, pool, queued, wpc, held, restarts, missed>>

UserCreates(spec) ==
    /\ Actual(ci) = NoCI
    /\ Edit([uid |-> edits + 1, gen |-> 1, spec |-> spec, observed |-> 0])

UserUpdates(spec) ==
    /\ Actual(ci) # NoCI
    /\ Actual(ci).spec # spec
    /\ Edit([uid |-> Actual(ci).uid, gen |-> Actual(ci).gen + 1,
             spec |-> spec, observed |-> Actual(ci).observed])

UserDeletes ==
    /\ Actual(ci) # NoCI
    /\ Edit(NoCI)

\* Kubernetes collects the objects whose owner is gone, by its uid.
CollectTemplate ==
    /\ Len(tmpl) <= MaxLag
    /\ Exists(Actual(tmpl))
    /\ Actual(tmpl).owner # Actual(ci).uid
    /\ tmpl' = Append(tmpl, NoTemplate)
    /\ missed' = missed \cup (IF Actual(ci) # NoCI THEN {"template"} ELSE {})
    /\ UNCHANGED <<keyVars, ci, pool, queued, wpc, held, edits, restarts>>

CollectPool ==
    /\ Len(pool) <= MaxLag
    /\ Exists(Actual(pool))
    /\ Actual(pool).owner # Actual(ci).uid
    /\ pool' = Append(pool, NoPool)
    /\ missed' = missed \cup (IF Actual(ci) # NoCI THEN {"pool"} ELSE {})
    /\ UNCHANGED <<keyVars, ci, tmpl, queued, wpc, held, edits, restarts>>

\* The informer delivers the next version.  GenerationChangedPredicate drops
\* the updates that leave the generation alone.
DeliverCI ==
    /\ Stale(ci)
    /\ ci' = Tail(ci)
    /\ queued' = (queued \/ NoCI \in {ci[1], ci[2]} \/ ci[1].gen # ci[2].gen)
    /\ UNCHANGED <<keyVars, tmpl, pool, wpc, held, edits, restarts, missed>>

DeliverTemplate ==
    /\ Stale(tmpl)
    /\ tmpl' = Tail(tmpl)
    /\ UNCHANGED <<keyVars, ci, pool, queued, wpc, held, edits, restarts, missed>>

DeliverPool ==
    /\ Stale(pool)
    /\ pool' = Tail(pool)
    /\ UNCHANGED <<keyVars, ci, tmpl, queued, wpc, held, edits, restarts, missed>>

-----------------------------------------------------------------------------
\* The reconciler.
Goes(next) == wpc' = next /\ UNCHANGED <<queued, held>>
Returns == wpc' = "idle" /\ held' = NoCI /\ UNCHANGED queued
Requeue == wpc' = "idle" /\ held' = NoCI /\ queued' = TRUE

\* History: a child that is wrong after a decision on a stale copy.
Decided(child, stale, right) ==
    missed' = IF stale /\ ~right THEN missed \cup {child} ELSE missed \ {child}

Reconcile ==
    /\ wpc = "idle"
    /\ queued
    /\ queued' = FALSE
    /\ held' = Cached(ci)
    /\ wpc' = CASE Cached(ci) = NoCI -> "idle"
                [] Cached(ci) # NoCI /\ Cached(ci).spec.size > 0 -> "template"
                [] OTHER -> "delpool"
    /\ UNCHANGED <<keyVars, ci, tmpl, pool, edits, restarts, missed>>

\* Mutant: an empty result, with which nothing looks at the object again.
MutWaitForPublicKey ==
    /\ wpc = "template"
    /\ held.spec.auth = "picod"
    /\ ~IsPublicKeyCached
    /\ Returns
    /\ UNCHANGED <<keyVars, ci, tmpl, pool, edits, restarts, missed>>

\* ensureSandboxTemplate before the key is known: RequeueAfter.
WaitForPublicKey ==
    /\ wpc = "template"
    /\ held.spec.auth = "picod"
    /\ ~IsPublicKeyCached
    /\ Requeue
    /\ UNCHANGED <<keyVars, ci, tmpl, pool, edits, restarts, missed>>

\* convertToPodTemplate, in an object owned by the CodeInterpreter.
ConvertToPodTemplate(c) ==
    [owner |-> c.uid, pod |-> c.spec.pod,
     key |-> IF c.spec.auth = "picod" THEN cachedKey ELSE NoKey]

PodTemplateEqual(a, b) == a.pod = b.pod /\ a.key = b.key

\* Mutant: the template is written without waiting for the key.
MutTemplateDue == wpc = "template"

TemplateDue ==
    /\ wpc = "template"
    /\ held.spec.auth = "picod" => IsPublicKeyCached

\* What the create or the update of the template makes of it.  An update
\* keeps the owner, and the API server refuses it for a version that is not
\* the last; a create of what exists does nothing and is not an error.
TemplateWrite(desired) ==
    CASE ~Exists(Cached(tmpl)) /\ ~Exists(Actual(tmpl)) -> Append(tmpl, desired)
      [] Exists(Cached(tmpl)) /\ ~Stale(tmpl) ->
            Append(tmpl, [desired EXCEPT !.owner = Cached(tmpl).owner])
      [] OTHER -> tmpl

EnsureSandboxTemplate ==
    LET desired == ConvertToPodTemplate(held)
        right(t) == Exists(t) /\ PodTemplateEqual(t, desired)
        refused == Exists(Cached(tmpl)) /\ ~right(Cached(tmpl)) /\ Stale(tmpl)
    IN  /\ TemplateDue
        /\ tmpl' = IF right(Cached(tmpl)) THEN tmpl ELSE TemplateWrite(desired)
        /\ IF refused
           THEN Requeue /\ UNCHANGED missed
           ELSE Goes("pool") /\ Decided("template", Stale(tmpl), right(Actual(tmpl')))
        /\ UNCHANGED <<keyVars, ci, pool, edits, restarts>>

\* The call returns an error: it was executed, or not.
EnsureSandboxTemplateFails ==
    /\ TemplateDue
    /\ tmpl' \in {tmpl, TemplateWrite(ConvertToPodTemplate(held))}
    /\ ~(Exists(Cached(tmpl)) /\ PodTemplateEqual(Cached(tmpl), ConvertToPodTemplate(held)))
    /\ Requeue
    /\ UNCHANGED <<keyVars, ci, pool, edits, restarts, missed>>

PoolWrite(desired) ==
    CASE ~Exists(Cached(pool)) /\ ~Exists(Actual(pool)) -> Append(pool, desired)
      [] Exists(Cached(pool)) /\ ~Stale(pool) ->
            Append(pool, [desired EXCEPT !.owner = Cached(pool).owner])
      [] OTHER -> pool

EnsureSandboxWarmPool ==
    LET desired == [owner |-> held.uid, size |-> held.spec.size]
        right(p) == Exists(p) /\ p.size = desired.size
        refused == Exists(Cached(pool)) /\ ~right(Cached(pool)) /\ Stale(pool)
    IN  /\ wpc = "pool"
        /\ pool' = IF right(Cached(pool)) THEN pool ELSE PoolWrite(desired)
        /\ IF refused
           THEN Requeue /\ UNCHANGED missed
           ELSE Goes("status") /\ Decided("pool", Stale(pool), right(Actual(pool')))
        /\ UNCHANGED <<keyVars, ci, tmpl, edits, restarts>>

EnsureSandboxWarmPoolFails ==
    LET desired == [owner |-> held.uid, size |-> held.spec.size] IN
    /\ wpc = "pool"
    /\ ~(Exists(Cached(pool)) /\ Cached(pool).size = desired.size)
    /\ pool' \in {pool, PoolWrite(desired)}
    /\ Requeue
    /\ UNCHANGED <<keyVars, ci, tmpl, edits, restarts, missed>>

\* A delete names the object and no version: it removes what is there.
PoolDeleted == IF Exists(Actual(pool)) THEN Append(pool, NoPool) ELSE pool
TemplateDeleted == IF Exists(Actual(tmpl)) THEN Append(tmpl, NoTemplate) ELSE tmpl

DeleteSandboxWarmPool ==
    /\ wpc = "delpool"
    /\ pool' = IF Exists(Cached(pool)) THEN PoolDeleted ELSE pool
    /\ Decided("pool", Stale(pool), ~Exists(Actual(pool')))
    /\ Goes("deltemplate")
    /\ UNCHANGED <<keyVars, ci, tmpl, edits, restarts>>

\* Mutant: the error is logged and the template deleted all the same.
MutDeleteSandboxWarmPoolFails ==
    /\ wpc = "delpool"
    /\ Exists(Cached(pool))
    /\ Goes("deltemplate")
    /\ UNCHANGED <<keyVars, ci, tmpl, pool, edits, restarts, missed>>

DeleteSandboxWarmPoolFails ==
    /\ wpc = "delpool"
    /\ Exists(Cached(pool))
    /\ pool' \in {pool, PoolDeleted}
    /\ Requeue
    /\ UNCHANGED <<keyVars, ci, tmpl, edits, restarts, missed>>

DeleteSandboxTemplate ==
    /\ wpc = "deltemplate"
    /\ tmpl' = IF Exists(Cached(tmpl)) THEN TemplateDeleted ELSE tmpl
    /\ Decided("template", Stale(tmpl), ~Exists(Actual(tmpl')))
    /\ Goes("status")
    /\ UNCHANGED <<keyVars, ci, pool, edits, restarts>>

DeleteSandboxTemplateFails ==
    /\ wpc = "deltemplate"
    /\ Exists(Cached(tmpl))
    /\ tmpl' \in {tmpl, TemplateDeleted}
    /\ Requeue
    /\ UNCHANGED <<keyVars, ci, pool, edits, restarts, missed>>

\* The status is not written when it is up to date, and the API server takes
\* it for the version that was read only.
UpdateStatus ==
    /\ wpc = "status"
    /\ \/ /\ held.observed = held.gen
          /\ Returns
          /\ UNCHANGED ci
       \/ /\ held.observed # held.gen
          /\ Actual(ci) = held
          /\ ci' = Append(ci, [held EXCEPT !.observed = held.gen])
          /\ Returns
       \/ /\ held.observed # held.gen
          /\ Actual(ci) # held
          /\ Requeue
          /\ UNCHANGED ci
    /\ UNCHANGED <<keyVars, tmpl, pool, edits, restarts, missed>>

UpdateStatusFails ==
    /\ wpc = "status"
    /\ held.observed # held.gen
    /\ ci' \in {ci} \cup (IF Actual(ci) = held
                         THEN {Append(ci, [held EXCEPT !.observed = held.gen])} ELSE {})
    /\ Requeue
    /\ UNCHANGED <<keyVars, tmpl, pool, edits, restarts, missed>>

\* The workload manager starts again: the informers list what there is, every
\* CodeInterpreter is queued, and the key has to be read again.
Restart ==
    /\ restarts < MaxRestarts
    /\ restarts' = restarts + 1
    /\ ci' = <<Actual(ci)>>
    /\ tmpl' = <<Actual(tmpl)>>
    /\ pool' = <<Actual(pool)>>
    /\ queued' = (Actual(ci) # NoCI)
    /\ wpc' = "idle"
    /\ held' = NoCI
    /\ cachedKey' = NoKey
    /\ outdated' = outdated \ {Manager}
    /\ UNCHANGED <<rpc, rkey, drawn, secret, deleted, edits, missed>>

-----------------------------------------------------------------------------
User == (\E spec \in Specs : UserCreates(spec) \/ UserUpdates(spec)) \/ UserDeletes

Cluster ==
    \/ CollectTemplate
    \/ CollectPool
    \/ DeliverCI
    \/ DeliverTemplate
    \/ DeliverPool

Succeeds ==
    \/ Reconcile
    \/ WaitForPublicKey
    \/ EnsureSandboxTemplate
    \/ EnsureSandboxWarmPool
    \/ DeleteSandboxWarmPool
    \/ DeleteSandboxTemplate
    \/ UpdateStatus

Fails ==
    \/ EnsureSandboxTemplateFails
    \/ EnsureSandboxWarmPoolFails
    \/ DeleteSandboxWarmPoolFails
    \/ DeleteSandboxTemplateFails
    \/ UpdateStatusFails

Next ==
    \/ KeyNext /\ UNCHANGED ctrlVars
    \/ User
    \/ Cluster
    \/ Succeeds
    \/ Fails
    \/ Restart

Spec == Init /\ [][Next]_vars

(***************************************************************************)
(* Fairness: informers deliver, Kubernetes collects, the workload manager  *)
(* reads the Secret, the queue is served, and a call that is made again    *)
(* and again does not fail every time.  Nothing is assumed of users,       *)
(* routers and restarts.                                                   *)
(***************************************************************************)
LiveSpec ==
    /\ Spec
    /\ WF_vars(DeliverCI) /\ WF_vars(DeliverTemplate) /\ WF_vars(DeliverPool)
    /\ WF_vars(CollectTemplate) /\ WF_vars(CollectPool)
    /\ WF_vars(LoadPublicKeyFromSecret /\ UNCHANGED ctrlVars)
    /\ WF_vars(Reconcile) /\ WF_vars(WaitForPublicKey)
    /\ SF_vars(EnsureSandboxTemplate) /\ SF_vars(EnsureSandboxWarmPool)
    /\ SF_vars(DeleteSandboxWarmPool) /\ SF_vars(DeleteSandboxTemplate)
    /\ SF_vars(UpdateStatus)

-----------------------------------------------------------------------------
(***************************************************************************)
(* A template never carries another key than the one in the Secret, or one *)
(* of a Secret that was deleted, through races of routers, failed writes,  *)
(* stale reads and restarts (loadPublicKeyFromSecret,                      *)
(* ensureSandboxTemplate).                                                 *)
(***************************************************************************)
TemplateKey == Actual(tmpl).key \in Believed \cup {NoKey}

(***************************************************************************)
(* What a CodeInterpreter asks for is there: with a warm pool, a template  *)
(* with its pod and, for PicoD, the routers' key or that of a Secret that  *)
(* was deleted, and a pool of its size; without one, neither.              *)
(***************************************************************************)
InPlace(c) ==
    IF c.spec.size > 0
    THEN /\ Exists(Actual(tmpl))
         /\ Actual(tmpl).pod = c.spec.pod
         /\ Actual(tmpl).key \in IF c.spec.auth = "picod" THEN Believed ELSE {NoKey}
         /\ Exists(Actual(pool))
         /\ Actual(pool).size = c.spec.size
    ELSE ~Exists(Actual(tmpl)) /\ ~Exists(Actual(pool))

(***************************************************************************)
(* Ready means ready: when the Ready condition is set for the present      *)
(* generation, template and pool are in place, but for what a stale read   *)
(* or the collection of an inherited child left wrong (the order of the    *)
(* calls in Reconcile, and their early returns).                           *)
(***************************************************************************)
ReadyInPlace ==
    LET c == Actual(ci) IN
    c # NoCI /\ c.observed = c.gen => InPlace(c) \/ missed # {}

(***************************************************************************)
(* A warm pool does not stand without the template it refers to: the       *)
(* template is made first and deleted last, whatever call fails.           *)
(***************************************************************************)
PoolHasTemplate ==
    Exists(Actual(pool)) /\ Actual(pool).owner = Actual(ci).uid
        => Exists(Actual(tmpl)) \/ missed # {}

(***************************************************************************)
(* The cluster follows the spec: once users stop editing, template, pool   *)
(* and Ready condition come to agree with it and stay so, with the key     *)
(* that the workload manager holds by then, unless there is no key or      *)
(* something was missed (Reconcile and its requeues).                      *)
(***************************************************************************)
KeyAwaited == secret = NoKey /\ ~IsPublicKeyCached
Pooled(c) == c.spec.size > 0 /\ c.spec.auth = "picod"

FollowsSpec ==
    <>[](\/ Pooled(Actual(ci)) /\ KeyAwaited
         \/ missed # {}
         \/ /\ InPlace(Actual(ci))
            /\ Pooled(Actual(ci)) => Actual(tmpl).key = cachedKey
            /\ Actual(ci).observed = Actual(ci).gen)
=============================================================================
