# TLA+ models of AgentCube

AgentCube runs agent code in sandboxes on Kubernetes. This directory holds TLA+
models of the parts of it where concurrency, failure and time matter, the TLC
configurations that check them on small instances, and TLAPS proofs for every
instance. `PROJECT.json` is the index: components, runs, the source lines each
definition stands for, findings, hazards and theorems.

## The system and its parts

| Part | Source | State it keeps |
|---|---|---|
| Router | `pkg/router`, `cmd/router` | concurrency slots, HTTP server, identity key |
| Workload manager: handlers | `pkg/workloadmanager/handlers.go` and helpers | one goroutine per request, rollback |
| Workload manager: collector | `garbage_collection.go` | a periodic pass over the store |
| Workload manager: controllers | `sandbox_controller.go`, `codeinterpreter_controller.go` | watchers map; template and warm pool |
| Workload manager: process | `server.go`, `cmd/workload-manager` | start-up and shutdown order |
| Workload manager: caches | `client_cache.go`, `k8s_client.go` | LRU caches of clients and tokens |
| Store | `pkg/store` (Redis, Valkey) | `session:<id>` records, two sorted sets |
| mTLS | `pkg/mtls` | the certificate and CA pool in use |
| PicoD | `pkg/picod` | server inside the sandbox: commands, files |
| Python SDK, CLI, integrations | `sdk-python`, `cmd/cli`, `integrations` | a session id per client |
| External | Kubernetes API server, agent-sandbox controller | Sandbox and SandboxClaim objects |

A client invokes an agent through the router. Without a session id the router
asks the workload manager for a sandbox: the handler writes a placeholder record
to the store, creates a Sandbox (or a SandboxClaim on a warm pool), waits until
it is ready, checks it and completes the record; any error after the first write
rolls back. With a session id the router reads the record, marks the session
active and forwards. The collector deletes sessions that have been idle for their
timeout or have expired: first the Kubernetes object, then the record.

## Modules

| Module | Models | Proofs |
|---|---|---|
| `SessionStore` | the three keys of the store and the commands on them | |
| `SandboxLifecycle` | create, rollback, delete, collect, touch, crash, over `SessionStore` | `SandboxLifecycleInvariant`, `SandboxLifecycleProofs` |
| `SessionRegistry` | abstract: what the workload manager promises of a session | |
| `SandboxRegistry` | the refinement mapping from `SandboxLifecycle` to it | `SandboxRegistryProofs` |
| `ValkeySessions` | several sessions in the Valkey backend, and a collector with a limit | `ValkeyProofs` |
| `ReadyWatch` | watchers map of the SandboxReconciler, work queue, waiting handlers | `ManagerProofs` |
| `RouterServer` | router process: limiter, invocations, shutdown; composed with PicoD | `RouterProofs` |
| `PicodServer` | PicoD: commands under a timeout, uploads, downloads, exit | `RouterProofs` |
| `UserCaches` | token verdicts and user clients in their LRU caches, and authentication | `UserCachesProofs` |
| `ManagerServer` | workload manager process: start-up, collector loop, shutdown | `ManagerProofs` |
| `WorkloadManager` | that process with the goroutine that reads the routers' key, over `IdentityKey` | by its parts |
| `CertWatcher` | certificate watcher against a rotation of the files | `ManagerProofs` |
| `IdentityKey` | routers racing for the identity Secret, its rotation, the workload manager's cached public key | with the next |
| `CodeInterpreterController` | template and warm pool of a CodeInterpreter, over `IdentityKey` | `CodeInterpreterProofs` |

`MC*` modules are the instances that TLC checks. Definitions named
`Mut...` are deliberately wrong variants: each shows that a property fails when
the code is changed that way. No specification uses them.

**SessionStore, SandboxLifecycle.** `rec`, `expiryIdx`, `activityIdx` are the
record and the two scores of a session. A pipeline is one step per command, in
the order it is sent, because a connection can break between two of them; the
Redis touch is one step because it is a script. `pc[s]` is the position of the
create handler: `store1..3` the placeholder's commands, `create`/`sent` the API
request, `wait`, `verify`, `update`, and `rbk8s`, `rb1..3` the rollback. `dpc` is
the delete handler and `gcpc` the collector, whose two listings take two round
trips each (ids with scores, then records), so that what it decides on can be
stale. The clock counts whole seconds, as the scores do, and the collector's own time is
finer: a score of this second may or may not lie before it (`past` in `GCLoadInactive`).
The time of a round is taken before its listings (`GCBegins`). A store call records the
time at which its caller prepared it, so that a call executed late may set a score back
(`Stamps`); a touch that reaches the store when the session is already listed is on record
in `overtaken`. The create request is a message of its own (`req`): the API server may
execute it after the handler has given up. `Crash` ends every goroutine and keeps
store and cluster. `hist` is a history variable that only properties read.
A Sandbox is deleted by its controller at its shutdown time; a SandboxClaim is
not, as the handler gives it none.

**SessionRegistry, SandboxRegistry.** The abstract specification knows four things of a
session: the phase of its creation, its record, its object, and whether the object may
be out of reach (`stray`). It says in which order they change: a record before an
object, both before an answer, the object released before the record is forgotten,
and nothing back (`LivedOnce`); `Promise` is what follows of every state.
`SandboxRegistry` maps the stages of the handler to phases and the objects of the
cluster to one object per session; `ImplementsRegistry` is the abstract `[][Next]_vars`
under that mapping.

**ValkeySessions.** The same keys with several sessions. `touch[s]` holds the time
between EXISTS and ZADD, which in Valkey are two commands. `cut` and `crossed` are
history: the sessions with a pipeline that broke, and those deleted between two
commands of another client. The collector is the only one that deletes here, and an
object can be deleted or (`Stuck`) never; `GCBegins` and `Stamps` are as above. The handlers' deletions and crashes are in
`SandboxLifecycle`. `Left` are entries that earlier broken calls left in the sets.

**UserCaches.** A cache is a map and a list; each Get and Set is one step because it
holds the mutex throughout, and what a request does between them (TokenReview, building
a client) is a step of its own. `Judge` changes the API server's mind about a token.
`lastUse`, `fresh`, `seen` and `vouched` are history.

**ReadyWatch.** Refines the one step `Reconcile`/`WaitForCreatedSandbox` of
SandboxLifecycle: registration, informer cache and its lag, work queue (a name is
processed by one worker at a time), the channel taken out of the map under the
mutex, the non-blocking send into one place. `wasReady` is history: the handlers whose
sandbox has been ready.

**RouterServer, ManagerServer.** `main`, `start` and `closer` are goroutines; a
select with two ready cases takes either. Requests of the manager are spans of time:
what they do is in SandboxLifecycle. An invocation of the router goes through `req[r]`:
session, touch, `proxied`, second touch, release; one for an agent runtime waits in
`agent` for a server that is not modelled and may never answer. Requests in `H2C` come
over a connection that h2c has taken over: it outlives the listener and Shutdown does not
wait for it. `http.Server` is external and behaves as its documentation says: serving
returns when Shutdown is *called*. In the manager, a tick of the collector's clock may
come during a pass and is kept for the next select. One workload manager is modelled; the
chart can run several, without leader election, each with a collector of its own.

**PicodServer.** `Receive` is the step in which the router's proxied request reaches
PicoD; `ProxyReturns` takes its answer back, and `CallerGone` leaves PicoD working.
`proc[r]` is the process of a command, `late` the requests whose timeout has passed,
`held` those whose output other processes keep open. There is one path; a content is a
sequence of blocks, each named after the upload that wrote it, and a handler writes or
reads one block at a time. `crossed` is history: transfers that met another upload.

**CertWatcher.** Contents of files are version numbers. Each write is a truncation
and the content, each with an event; each file is read in a step of its own. A
certificate loads with the key of the same version only.

**IdentityKey, WorkloadManager, CodeInterpreterController.** A key pair is a number. A
router draws one and creates the Secret in one step (drawing is local), and loads it in
another when the Secret was there. `SecretDeleted` is an operator who rotates the key;
`deleted` and `outdated` are history: the pairs that were in a Secret, and the processes
that still use one of them. `WorkloadManager` puts the goroutine that reads the key into
the process that may stop at any time. `ci`, `tmpl` and `pool` are the versions of an object that
an informer has yet to deliver: the first is what the reconciler reads, the last
what the API server has. `wpc` is the call it is about to make. An update of a
version that is not the last is refused; a create of what exists counts as done; a
delete names no version. A call that fails was executed, or not. The reconciler is
woken by generations of the CodeInterpreter only. `missed` is a history variable:
the children that a decision on a stale copy left wrong, and those that Kubernetes
collected with the CodeInterpreter they were first made for while another of the
same name exists.

## Runs

All passing runs explore the whole state space of their instance. Type invariants are
checked by TLC where they are not proved, and proved otherwise.

| Run | Instance | Checks |
|---|---|---|
| `lifecycle` | 1 session, all calls may fail, touches with any stamp, 1 crash | `NoLeak`, `ExpiryAgrees`, `CollectsOnlyIdleOrExpired`, `AnsweredSessionUsable`, `NoResurrection`, `ImplementsRegistry`, `CreationAnswered`, `Reclaimed` (record and object) |
| `collector` | 3 sessions, limit 2, one undeletable, one left over, 1 broken call | types, `RecordIndexed`, `NothingLeft`, `DueCollected` (expired and idle) |
| `readywatch` | 2 handlers, 2 workers | `NoLostReadiness`, `NoFalseReadiness`, `WatchersCleaned`, `BufferEmptyAtSend`, `WaiterWoken` |
| `router` | 2 invocations for one slot, one over h2c, 4 kinds of call and an agent runtime | `SlotsHeld`, `SignalStops`, `InvocationEnds`, and of PicoD `CommandTold`, `UploadKept`, `DownloadWhole`, `CommandAnswered` |
| `caches` | 2 requests, both caches at their limits, tokens that expire and are revoked | `InStep` (with the order of use), `FreshVerdict`, `OnlyAuthenticated`, `HandedOut` |
| `manager` | 2 requests, one over h2c; 2 routers, 2 Secrets | types, `StoreClosedLast`, `KeysAgree`, `SignalStops` |
| `cert` | 2 rotations of 3 files | `ServesKeyPair`, `CurrentAtRest`, `NeverOlder`, `RotationServed` |
| `pool` | 1 router, 2 Secrets, 3 specs, 2 edits, 1 restart, lag 2 | `TemplateKey`, `ReadyInPlace`, `PoolHasTemplate`, `FollowsSpec` |

Bounds. In `lifecycle`, one session meets every interleaving of its own handlers, the
collector, a touch and a crash; idle timeout 1 and TTL 2 both pass within the clock, and
the clock stays at its bound for as many passes as it takes. The lookback is 0, less than
the idle timeout, so that sessions are listed which are not due. Sessions interact only
through the collector's round and its limit: that is `collector`, where three sessions
compete for two places. One of them cannot be deleted and one is left over in the sets,
so that the third is collected only if every place of the listing is used; the idle
timeouts are the default and a shorter one. The proofs of the safety properties hold for
any number of sessions.
In `router`, one invocation uploads two blocks, the other runs a command, uploads one
block or downloads, so that an upload meets another at every block and a download meets
a truncation, although there is one slot: PicoD goes on when a caller has left. A longer upload adds blocks of the same kind, commands meet each other
only at the limiter, as any two invocations do, and the proofs lift the bounds.
In `caches`, the token cache has one place less than there are tokens and the client
cache one less than accounts; the clock passes the ttl and an expiry, and one
verdict changes at any point. The second rotation of `cert` begins at any point of the
reload caused by the first. Two workers and two handlers meet on the map and on the
queue; the proofs lift both bounds. In `pool`, two edits are a creation followed by a
change of every field or a deletion, at any point of the first reconcile and of its
retries; two Secrets are one that a router made, perhaps without being told, and one made
after a rotation. In `manager` two routers race for each of two Secrets. The proofs lift
these bounds for every invariant of both runs.

Deadlock checking is off where the process may stop or the environment may stay
silent (all but `lifecycle`, `collector` and `caches`).

Fairness. Goroutines that can run do run (weak fairness per handler, collector,
main); the API server answers; the clock advances. The collector repeats its pass
for ever, so a call it makes again and again is assumed not to fail every time
(strong fairness on its successful calls; in `lifecycle` on those that lead to expired
sessions and on deletions only, so that `Reclaimed` rests on the expiry). In
`ManagerServer` a pass can be so long that the next tick is there when it ends; as Go's
select takes a ready case at random, the stop channel is not passed over for ever (strong
fairness of `CollectorStops`). In `ReadyWatch` the same is assumed of
the reconciler's read, name by name: the queue hands out every name, and a name
whose read failed is queued and read again until a read succeeds. Fairness per
worker would not do: a worker may read one name with success and fail on another
for ever. In `CodeInterpreterController` informers deliver, Kubernetes collects, the
queue is served and the Secret is polled (weak fairness), and a call that is retried
for ever succeeds at some time (strong fairness per call); no router has to start.
In `RouterServer`, handlers of the router and of PicoD proceed, deadlines pass, and the
operating system kills a process whose context ended (weak fairness). That processes
which a command left behind close its output is not assumed: `InvocationEnds` and
`CommandAnswered` name that case. In `ValkeySessions` a deletion that Kubernetes does not
refuse for good succeeds at some attempt. The select of the watch loop is served fairly.
Clients, signals and failures are never assumed.

### Disagreements with documentation

Four runs state what a document or a comment says, and TLC finds the code doing
otherwise.

| Run | Says | Does |
|---|---|---|
| `lifecycle_rollback` | `docs/design/agentcube-proposal.md:351`: the collector goes on until all sandboxes are removed | the rollback deletes the record although deleting the object failed; a SandboxClaim then stays |
| `router_exit` | `cmd/router/main.go:118`: wait until the graceful shutdown is complete | main leaves when Shutdown is called |
| `manager_late` | `cmd/workload-manager/main.go:165`: stop accepting new requests | a signal before Start has made the server (cache sync and ping included) skips Shutdown, and the server comes up afterwards |
| `cert_start` | `pkg/mtls/watcher.go:34`: reloads the files on change | a change between the first read and the watch is missed |

Also visible in `SandboxLifecycle`: the object and the record are deleted by two
calls and the second can fail, where the release blog calls it atomic; the next
pass of the collector removes the record (`Reclaimed`). And in
`RouterServer`, not stated as a property: after a signal, both
cases of main's select can be ready, and the second reports a clean stop as fatal.
`Limit` replaces a limit of zero by 1000, where the help text of the flag
(`cmd/router/main.go:40`), the comment of the field (`pkg/router/config.go:45`) and a
test (`pkg/router/config_test.go:114`) say unlimited. The router's Shutdown waits for no
request over h2c, and after 10 s for none, so that the session manager is closed while
some may use it. And in `CodeInterpreterController`, wherever
`missed` is set: a template or pool can stay wrong although the CodeInterpreter is
Ready, until its next edit or the next restart, because the reconciler read a stale
copy and no change of a child wakes it (`docs/design/agentcube-proposal.md:359`
says that it creates or updates them).

In `SandboxLifecycle`: a touch that the store executes after a later one sets the score
back, and one that comes after the listing is not looked at: the session is collected
although it was used. As scores are cut to seconds, a session may be collected up to a
second before its idle timeout. `CollectsOnlyIdleOrExpired` says what remains.

In `IdentityKey`: after a rotation the workload manager hands out the old key until it is
restarted, where `docs/design/PicoD-Plain-Authentication-Design.md:216` has the operator
delete the Secret and restart the routers only.

In `ValkeySessions`: index entries that a broken pipeline or a crossed touch leaves are
never removed. As many of them as the limit keep every other session out of the
collector's listing (`ExpiredCollected` and `IdleCollected` say "unless"), and a record
whose StoreSandbox broke after its first command stays, with nothing that leads to it
(`RecordIndexed` excepts `cut`).

In `UserCaches`: `k8s_client.go:192` says "If token doesn't match cached entry, Set will
overwrite it", but Get compares no tokens: requests of one service account share the
client of whichever token was cached first, until that one expires. A verdict is
prolonged by every use, so that a busy token is not reviewed again; `FreshVerdict` says
what remains: after a pause longer than the ttl it is.

In `PicodServer`: a process left behind that holds the output keeps the request
unanswered past its timeout, and the router sets no timeout for the answer
(`router/server.go:88`). A command that ends by itself just before its deadline is looked
at is told as 124. A caller that goes away frees its slot and leaves the command running.
PicoD's main leaves before its drain is over, like the router's. A compressed download of
a file that becomes shorter ends as if complete, as it carries no length. The default
timeout is 60 s (`execute.go:74`) where the comment on the field says "30s"
(`execute.go:39`).

## What is proved

The theorems hold for every value of the constants (any number of sessions,
handlers, workers or rotations), from the named `ASSUME` of each module.

`SandboxRegistryProofs`: `Refinement` (`ImplementsRegistry`): the specification of
`SandboxLifecycle` implies the safety part of `SessionRegistry` under the mapping. Initial
states map to initial states; each action is shown to be a step of one session that the
abstract specification allows, or a stutter, and `Crash`, which moves all sessions at
once, a joint step of all of them. The inductive invariant of `SandboxLifecycleProofs`
supplies what a step needs of earlier ones: that a late create marks its session as
stray, and that an object is gone when its record is deleted. `PromiseKept`
(`Promise`) and `NeverBack` (`LivedOnce`) say what the abstract specification is good
for. They are proved from its steps alone, and hold of `SandboxLifecycle` through `Refinement`: an active session was given an
object; one that holds an object, or is about to, is in the registry or stray; and no
session goes back in its creation, record or object.

`SandboxLifecycleProofs`: `TypeCorrect`, `LeakFreedom` (`NoLeak`),
`ExpiryAgreement`, `CollectionJustified`, `AnsweredUsable`, `NoRecordReturns`.
`NoLeak` says that an object can be found by the collector unless one of three
recorded events happened: the rollback failed, a create was executed late, or the
collector took the session during its creation. It is not inductive. The invariant
adds: which stages of the handler may have an object at all (`Bookkeeping`); that
from the moment the request can be sent the record and both index entries exist,
and that the record goes only after the object (`LeakInv`); that record and index
hold the placeholder's expiry (`ExpiryInv`); that a score in the collector's hands
is the one in the index, unless a touch has overtaken it, and that a session which it
will take is expired, or idle to the second when the round began, or overtaken
(`CollectInv`; before the third command of StoreSandbox there is no score to list,
`Unscored`); and
that an answered session keeps object and record until someone takes it
(`UsableInv`). One lemma per part, in `SandboxLifecycleInvariant` and
`SandboxLifecycleProofs`, split over the actions that can disturb it; `HistoryGrows`
(what happened to a session stays on record) carries `LeakInv` and `UsableInv` over
all the others.

`RouterProofs`, for router and PicoD together: `TypeCorrect`, `LimiterCounts`
(`SlotsHeld`), `CommandsTold` (`CommandTold`),
`UploadsKept`, `DownloadsWhole`, for any limit, number of invocations and length of
uploads. `SlotsHeld` is inductive with the types: a slot is taken with the step into
"in flight" and given back with the step out of it, and cardinalities follow from the
theorems on finite sets. For PicoD the invariant adds: which stages have a process, and a
killed one only after its deadline (`CommandInv`); that the file is the prefix written so
far of the upload that opened it last, unless uploads crossed (`UploadInv`); that an
undisturbed download has read a prefix of a finished upload (`DownloadInv`).

`ManagerProofs` covers three parts of the manager process that share no state; it
extends all three: `CertWatcher` and `ReadyWatch` prefix the names of their
specifications (`CertSpec`, `ReadySpec`), so the three stand side by side.
- The certificate watcher: `TypeCorrect`, `KeyPairServed` (`ServesKeyPair`),
  `NothingOverlooked` (`CurrentAtRest`), `NothingOlder` (`NeverOlder`). A value that was
  read is still on disk, or an event, a timer or the constructor's gap accounts for it
  (`ReadsFresh`, `ServesFresh`). For the action property, versions only grow on the way
  from the files through what a reload has read to what is served (`Growing`).
- The readiness watch: `ReadyTypeCorrect`, `ReadinessKept`
  (`NoLostReadiness`), `ReadinessTrue` (`NoFalseReadiness`), `MapCleaned` (`WatchersCleaned`), `SendFindsRoom`
  (`BufferEmptyAtSend`). The channel of a handler is in one place: in the map, in a
  worker's hands, or filled (`ChannelPlaced`); names are processed by one worker at a
  time (`WorkersExclusive`); and a readiness that is in a channel, in a worker's hands or
  in the informer's cache was one of that sandbox (`Witnessed`).
- The server: `ServerTypeCorrect`, `ClosedLast` (`StoreClosedLast`), for any
  set of requests. The wait group counts the collector from its start to its end
  (`CollectorCounted`); from the end of WaitForBackgroundWorkers on no pass can begin,
  although main does not wait for Start, which may still start a collector after it
  (`ClosingInv`); no request but over h2c is accepted after Shutdown has seen none
  (`Drained`).

`ValkeyProofs`: `TypeCorrect`, `RecordsIndexed` (`RecordIndexed`), `NothingElseLeft`
(`NothingLeft`), for any number of sessions, broken pipelines and any listing limit. The
invariant adds: the collector deletes one session at a time (`CollectorInv`); before the
second command of StoreSandbox nothing leads to the session (`StoringInv`); how far a
deletion is, and that a writer it has overtaken is on record (`DeletingInv`); what it
leaves (`DeletedInv`).

`UserCachesProofs`: `TypeCorrect`, `CachesInStep` (`InStep`), `VerdictsFresh`
(`FreshVerdict`), `ClientsAuthenticated` (`OnlyAuthenticated`), `ClientsHandedOut`
(`HandedOut`, an action property), for any tokens, accounts and requests, any sizes and
any TTL. Half of it is about lists: `Removed`, `Prepended`, `Fronted` say what container/list
does to a list without duplicates, and `Dropped`, `Touched`, `RoomMade`, `Inserted`,
`PutDone` lift them to a cache whose map and list agree: the result agrees again, holds
at most one new key, and keeps the order of the others (`Follows`). The order matters
because the end of the list, which is evicted, must be the entry used longest ago
(`RecencyOrder`, part of `InStep`). The invariant adds what an admitted request has passed (`RequestInv`), that a cached verdict
was used no later than its token (`VerdictInv`), that a cached client belongs to its
account and carries its token's expiry (`ClientInv`), and that an unsettled request has
seen what the API server says now (`SeenInv`).

`CodeInterpreterProofs`: `TypeCorrect`, `OneKey` (`KeysAgree`), `TemplatesBelieved`
(`TemplateKey`), `TemplateFirst`
(`PoolHasTemplate`), `ReadyTold` (`ReadyInPlace`), for any lag of the informers. The
invariant adds: a cached key, and that of every template, is the Secret's or one of a
Secret that was deleted, which only outdated processes use (`KeyInv`); informers deliver
CodeInterpreters in the order of their uids, and the reconciler holds none newer than
those (`OrderInv`); no pool is owned by a CodeInterpreter newer than the one that is
held (`OwnerInv`); the reconciler is at a call that the spec it holds asks for, and the
calls it has made have had their effect or a stale read is on record (`StageInv`). A pool
that meets a removed template then belongs to an older CodeInterpreter, or `StageInv`
applies. For `ReadyInPlace`, versions of one CodeInterpreter follow each other by
generation, and equal generations have equal specs (`LineInv`). The status is written
only over the version that is held, so at that moment no other spec is left in the cache
or in the reconciler's hands, and `StageInv` says that the children fit; until the next
edit, no reconcile can change them but to the same effect (`ReadyInv`). `MaxLag` bounds
only the steps of the cluster's garbage collector, and nothing in the proofs depends on it.

Only model-checked: all liveness, which is out of the prover's reach. Every safety
invariant and action property of the passing runs is proved, those of `manager` for the
parts that `WorkloadManager` composes: the server in `ManagerProofs`, the key among the
steps of the reconciler in `CodeInterpreterProofs`.

## Not modelled

Verification of tokens and certificates (stateless, cryptographic; their outcome is an
input where a caller depends on it) and the wait for certificate files before a process
starts; building pod templates; rewriting of headers. In PicoD the checks of paths, file
modes and listings, and what commands do to files. The Python SDK, the command-line tool
and the generated client (sequential I/O, or generated). The MCP server under
`integrations` keeps SDK clients that concurrent calls share: a call without
session_reuse can stop the client that another is using, and a session whose first
operation fails is cached although nobody was told its id. Neither is checked here. The methods
Remove and Size of the caches, which
only tests call.
In `CodeInterpreterController`, a template without any environment variable and
without PicoD: a nil and an empty list then differ in `podTemplateEqual`, and the
template is written again by every reconcile, to the same effect.
