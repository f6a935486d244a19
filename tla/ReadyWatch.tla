----------------------------- MODULE ReadyWatch -----------------------------
(***************************************************************************)
(* How the create handler of a directly created sandbox learns that the    *)
(* sandbox is ready: it registers a one-place channel with the             *)
(* SandboxReconciler, creates the sandbox, and waits.  The reconciler is   *)
(* driven by informer events through a work queue; it reads the informer's *)
(* cache, takes the channel out of the map under its mutex, and sends.     *)
(*                                                                         *)
(* Sandbox names carry a random suffix, so each handler has a name of its  *)
(* own and names are identified with handlers.                             *)
(***************************************************************************)
EXTENDS FiniteSets, Naturals

CONSTANTS
    Handlers,   \* create requests, and the sandboxes they create
    Workers     \* reconcile workers of the controller

VARIABLES
    hpc,        \* hpc[h]: where handler h is
    chan,       \* chan[h]: the channel of h holds a notification
    watchers,   \* the handlers whose channel is in the watchers map
    sandbox,    \* sandbox[h]: state of the object in the API server
    cache,      \* cache[h]: state of the object in the informer's cache
    queue,      \* the names in the work queue
    wpc,        \* wpc[w]: where worker w is
    wkey,       \* wkey[w]: the name that worker w is processing (a set)
    wasReady    \* history: the handlers whose sandbox has been ready

handlerVars == <<hpc, chan>>
objectVars == <<sandbox, cache, wasReady>>
workerVars == <<wpc, wkey>>
readyVars == <<handlerVars, watchers, objectVars, queue, workerVars>>

States == {"none", "pending", "ready"}

ReadyTypeOK ==
    /\ hpc \in [Handlers -> {"new", "registered", "waiting", "received", "leaving", "unwinding", "returned"}]
    /\ chan \in [Handlers -> BOOLEAN]
    /\ watchers \in SUBSET Handlers
    /\ sandbox \in [Handlers -> States]
    /\ cache \in [Handlers -> States]
    /\ queue \in SUBSET Handlers
    /\ wpc \in [Workers -> {"idle", "get", "lock", "send"}]
    /\ wkey \in [Workers -> SUBSET Handlers]
    /\ wasReady \in SUBSET Handlers

ReadyInit ==
    /\ hpc = [h \in Handlers |-> "new"]
    /\ chan = [h \in Handlers |-> FALSE]
    /\ watchers = {}
    /\ sandbox = [h \in Handlers |-> "none"]
    /\ cache = [h \in Handlers |-> "none"]
    /\ queue = {}
    /\ wpc = [w \in Workers |-> "idle"]
    /\ wkey = [w \in Workers |-> {}]
    /\ wasReady = {}

-----------------------------------------------------------------------------
\* Mutant: the handler goes on without having registered its channel.
MutWatchSandboxOnce(h) ==
    /\ hpc[h] = "new"
    /\ hpc' = [hpc EXCEPT ![h] = "registered"]
    /\ UNCHANGED <<chan, watchers, objectVars, queue, workerVars>>

WatchSandboxOnce(h) ==
    /\ hpc[h] = "new"
    /\ hpc' = [hpc EXCEPT ![h] = "registered"]
    /\ watchers' = watchers \cup {h}
    /\ UNCHANGED <<chan, objectVars, queue, workerVars>>

\* The create request of createK8sResources succeeds.
CreateSandbox(h) ==
    /\ hpc[h] = "registered"
    /\ hpc' = [hpc EXCEPT ![h] = "waiting"]
    /\ sandbox' = [sandbox EXCEPT ![h] = "pending"]
    /\ UNCHANGED <<chan, watchers, cache, wasReady, queue, workerVars>>

\* Mutant: the handler looks for its channel in the map.
MutReceive(h) ==
    /\ hpc[h] = "waiting"
    /\ h \in watchers
    /\ chan[h]
    /\ hpc' = [hpc EXCEPT ![h] = "received"]
    /\ chan' = [chan EXCEPT ![h] = FALSE]
    /\ UNCHANGED <<watchers, objectVars, queue, workerVars>>

\* waitForDirectSandboxReady receives.
Receive(h) ==
    /\ hpc[h] = "waiting"
    /\ chan[h]
    /\ hpc' = [hpc EXCEPT ![h] = "received"]
    /\ chan' = [chan EXCEPT ![h] = FALSE]
    /\ UNCHANGED <<watchers, objectVars, queue, workerVars>>

\* The create request, the wait (timer or context) or a later check fails.
CreationFails(h) ==
    /\ hpc[h] \in {"registered", "waiting", "received"}
    /\ hpc' = [hpc EXCEPT ![h] = "leaving"]
    /\ UNCHANGED <<chan, watchers, objectVars, queue, workerVars>>

\* rollbackSandboxCreation deletes the sandbox, or fails to.
Rollback(h) ==
    /\ hpc[h] = "leaving"
    /\ hpc' = [hpc EXCEPT ![h] = "unwinding"]
    /\ \/ sandbox' = [sandbox EXCEPT ![h] = "none"]
       \/ UNCHANGED sandbox
    /\ UNCHANGED <<chan, watchers, cache, wasReady, queue, workerVars>>

\* Mutant: the deferred UnWatchSandbox is missing.
MutReturn(h) ==
    /\ hpc[h] \in {"received", "unwinding"}
    /\ hpc' = [hpc EXCEPT ![h] = "returned"]
    /\ UNCHANGED <<chan, watchers, objectVars, queue, workerVars>>

\* handleSandboxCreate returns; its deferred UnWatchSandbox runs.
Return(h) ==
    /\ hpc[h] \in {"received", "unwinding"}
    /\ hpc' = [hpc EXCEPT ![h] = "returned"]
    /\ watchers' = watchers \ {h}
    /\ UNCHANGED <<chan, objectVars, queue, workerVars>>

-----------------------------------------------------------------------------
\* The agent-sandbox controller sets and clears the Ready condition.
ReadyChanges(h) ==
    /\ sandbox[h] # "none"
    /\ sandbox' = [sandbox EXCEPT ![h] = IF @ = "ready" THEN "pending" ELSE "ready"]
    /\ wasReady' = IF sandbox[h] = "ready" THEN wasReady ELSE wasReady \cup {h}
    /\ UNCHANGED <<handlerVars, watchers, cache, queue, workerVars>>

\* The informer catches up with the API server and enqueues the name.
InformerSync(h) ==
    /\ cache[h] # sandbox[h]
    /\ cache' = [cache EXCEPT ![h] = sandbox[h]]
    /\ queue' = queue \cup {h}
    /\ UNCHANGED <<handlerVars, watchers, sandbox, wasReady, workerVars>>

\* A name is never processed by two workers at a time.
ReconcileBegins(w, h) ==
    /\ wpc[w] = "idle"
    /\ h \in queue
    /\ \A v \in Workers : h \notin wkey[v]
    /\ queue' = queue \ {h}
    /\ wpc' = [wpc EXCEPT ![w] = "get"]
    /\ wkey' = [wkey EXCEPT ![w] = {h}]
    /\ UNCHANGED <<handlerVars, watchers, objectVars>>

Done(w) ==
    /\ wpc' = [wpc EXCEPT ![w] = "idle"]
    /\ wkey' = [wkey EXCEPT ![w] = {}]

\* Mutant: the conditions are not looked at.
MutReconcileGets(w) ==
    /\ wpc[w] = "get"
    /\ \/ /\ \E h \in wkey[w] : cache[h] # "none"
          /\ wpc' = [wpc EXCEPT ![w] = "lock"]
          /\ UNCHANGED wkey
       \/ /\ \A h \in wkey[w] : cache[h] = "none"
          /\ Done(w)
    /\ UNCHANGED <<handlerVars, watchers, objectVars, queue>>

ReconcileGets(w) ==
    /\ wpc[w] = "get"
    /\ \/ /\ \E h \in wkey[w] : cache[h] = "ready"
          /\ wpc' = [wpc EXCEPT ![w] = "lock"]
          /\ UNCHANGED wkey
       \/ /\ \A h \in wkey[w] : cache[h] # "ready"
          /\ Done(w)
    /\ UNCHANGED <<handlerVars, watchers, objectVars, queue>>

\* A read error other than NotFound: the controller queues the name again.
ReconcileGetFails(w) ==
    /\ wpc[w] = "get"
    /\ queue' = queue \cup wkey[w]
    /\ Done(w)
    /\ UNCHANGED <<handlerVars, watchers, objectVars>>

\* Mutant: the channel stays in the map.
MutReconcileTakesChannel(w) ==
    /\ wpc[w] = "lock"
    /\ \/ /\ wkey[w] \subseteq watchers
          /\ wpc' = [wpc EXCEPT ![w] = "send"]
          /\ UNCHANGED wkey
       \/ /\ ~(wkey[w] \subseteq watchers)
          /\ Done(w)
    /\ UNCHANGED <<handlerVars, watchers, objectVars, queue>>

ReconcileTakesChannel(w) ==
    /\ wpc[w] = "lock"
    /\ \/ /\ wkey[w] \subseteq watchers
          /\ wpc' = [wpc EXCEPT ![w] = "send"]
          /\ UNCHANGED wkey
       \/ /\ ~(wkey[w] \subseteq watchers)
          /\ Done(w)
    /\ watchers' = watchers \ wkey[w]
    /\ UNCHANGED <<handlerVars, objectVars, queue>>

\* The send never blocks: a full channel is skipped.
ReconcileSends(w) ==
    /\ wpc[w] = "send"
    /\ chan' = [h \in Handlers |-> chan[h] \/ h \in wkey[w]]
    /\ Done(w)
    /\ UNCHANGED <<hpc, watchers, objectVars, queue>>

-----------------------------------------------------------------------------
HandlerStep(h) ==
    \/ WatchSandboxOnce(h)
    \/ CreateSandbox(h)
    \/ Receive(h)
    \/ CreationFails(h)
    \/ Rollback(h)
    \/ Return(h)

WorkerStep(w) ==
    \/ \E h \in Handlers : ReconcileBegins(w, h)
    \/ ReconcileGets(w)
    \/ ReconcileGetFails(w)
    \/ ReconcileTakesChannel(w)
    \/ ReconcileSends(w)

ReadyNext ==
    \/ \E h \in Handlers : HandlerStep(h) \/ ReadyChanges(h) \/ InformerSync(h)
    \/ \E w \in Workers : WorkerStep(w)

ReadySpec == ReadyInit /\ [][ReadyNext]_readyVars

(***************************************************************************)
(* Fairness: handlers receive what is in their channel, the informer       *)
(* catches up, workers keep running, the queue hands out every name, and a *)
(* read of the cache that is tried again and again for a name succeeds.    *)
(* The handler's timer is not assumed to fire.                             *)
(***************************************************************************)
ReadyLiveSpec ==
    /\ ReadySpec
    /\ \A h \in Handlers : WF_readyVars(Receive(h)) /\ WF_readyVars(InformerSync(h))
    /\ \A w \in Workers : WF_readyVars(WorkerStep(w))
    /\ \A h \in Handlers :
          /\ SF_readyVars(\E w \in Workers : ReconcileBegins(w, h))
          /\ SF_readyVars(\E w \in Workers : h \in wkey[w] /\ ReconcileGets(w))

-----------------------------------------------------------------------------
(***************************************************************************)
(* No readiness is lost: when the informer knows that the sandbox of a     *)
(* waiting handler is ready and nothing about it is queued or in progress, *)
(* the notification is in the handler's channel.                           *)
(***************************************************************************)
InProgress(h) == h \in queue \/ \E w \in Workers : h \in wkey[w]

NoLostReadiness ==
    \A h \in Handlers :
        hpc[h] = "waiting" /\ cache[h] = "ready" /\ ~InProgress(h) => chan[h]

(***************************************************************************)
(* No readiness is made up: a handler is told that its sandbox is ready    *)
(* only if that very sandbox has been ready, whatever the cache, the queue *)
(* and the other handlers' channels went through in between.               *)
(***************************************************************************)
NoFalseReadiness ==
    \A h \in Handlers : hpc[h] = "received" => h \in wasReady

(***************************************************************************)
(* The watchers map does not grow: an entry belongs to a handler that has  *)
(* not returned (the deferred UnWatchSandbox of handleSandboxCreate).      *)
(***************************************************************************)
WatchersCleaned ==
    \A h \in watchers : hpc[h] \notin {"new", "returned"}

(***************************************************************************)
(* What the comment in Reconcile relies on: whoever is about to send finds *)
(* the buffer empty, because a channel is taken from the map only once.    *)
(***************************************************************************)
BufferEmptyAtSend ==
    \A w \in Workers : wpc[w] = "send" => \A h \in wkey[w] : ~chan[h]

(***************************************************************************)
(* A handler whose sandbox becomes ready and stays so is woken, without    *)
(* the help of its timer.                                                  *)
(***************************************************************************)
WaiterWoken ==
    \A h \in Handlers :
        [](hpc[h] = "waiting" /\ [](sandbox[h] = "ready") => <>(hpc[h] # "waiting"))
=============================================================================
