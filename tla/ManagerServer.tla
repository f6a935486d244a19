---------------------------- MODULE ManagerServer ----------------------------
(***************************************************************************)
(* The life of the workload manager process: main with its select and its  *)
(* four shutdown steps, the goroutine that runs Server.Start, the garbage  *)
(* collector's loop, and the requests being handled.  What a pass of the   *)
(* collector and a request do is in SandboxLifecycle; here both are spans  *)
(* of time in which the store is used.  The plain server speaks HTTP/1.1,  *)
(* and h2c on connections that the h2c handler takes over.                 *)
(***************************************************************************)
EXTENDS Naturals, FiniteSets

CONSTANTS
    Requests,
    H2C         \* the requests that come over a connection of h2c

ASSUME H2CAssumption == H2C \subseteq Requests

VARIABLES
    signalled,  \* sigCh holds the signal
    cancelled,  \* the root context is cancelled
    main,       \* where main is
    start,      \* where Server.Start is
    shut,       \* how Server.Shutdown ended
    gc,         \* where the garbage collector's goroutine is
    tick,       \* the collector's ticker has fired
    wg,         \* background workers that the wait group counts
    store,      \* the store's connections
    req         \* req[r]: where request r is

vars == <<signalled, cancelled, main, start, shut, gc, tick, wg, store, req>>

Running == main \notin {"stopped", "fatal"}
InFlight == {r \in Requests : req[r] = "active"}
HttpServer == start \in {"spawn", "listen", "serve", "nil", "error"}
ShutdownCalled == main = "drain" \/ shut \in {"drained", "timeout"}
Accepting == start = "serve" /\ ~ShutdownCalled

TypeOK ==
    /\ signalled \in BOOLEAN
    /\ cancelled \in BOOLEAN
    /\ main \in {"select", "shutdown", "drain", "cancel", "wait", "close", "stopped", "fatal"}
    /\ start \in {"sync", "ping", "create", "spawn", "listen", "serve", "nil", "error", "failed"}
    /\ shut \in {"pending", "drained", "timeout", "skipped"}
    /\ gc \in {"none", "idle", "pass", "stopped"}
    /\ tick \in BOOLEAN
    /\ wg \in Nat
    /\ store \in {"open", "closed"}
    /\ req \in [Requests -> {"new", "open", "active", "answered"}]

Init ==
    /\ signalled = FALSE /\ cancelled = FALSE
    /\ main = "select" /\ start = "sync" /\ shut = "pending"
    /\ gc = "none" /\ tick = FALSE /\ wg = 0
    /\ store = "open"
    /\ req = [r \in Requests |-> "new"]

-----------------------------------------------------------------------------
\* SIGINT or SIGTERM.
Signal ==
    /\ Running
    /\ ~signalled
    /\ signalled' = TRUE
    /\ UNCHANGED <<cancelled, main, start, shut, gc, tick, wg, store, req>>

\* RunAndWaitForCacheSync: fails at its timeout or when the context ends.
SyncCaches ==
    /\ Running
    /\ start = "sync"
    /\ start' \in {"ping", "failed"}
    /\ UNCHANGED <<signalled, cancelled, main, shut, gc, tick, wg, store, req>>

\* The store is pinged under the root context.
Ping ==
    /\ Running
    /\ start = "ping"
    /\ \/ ~cancelled /\ store = "open" /\ start' = "create"
       \/ start' = "failed"
    /\ UNCHANGED <<signalled, cancelled, main, shut, gc, tick, wg, store, req>>

\* s.httpServer is assigned.
CreateHTTPServer ==
    /\ Running
    /\ start = "create"
    /\ start' = "spawn"
    /\ UNCHANGED <<signalled, cancelled, main, shut, gc, tick, wg, store, req>>

\* The collector's goroutine is counted before it is started.
StartCollector ==
    /\ Running
    /\ start = "spawn"
    /\ start' = "listen"
    /\ gc' = "idle"
    /\ wg' = wg + 1
    /\ UNCHANGED <<signalled, cancelled, main, shut, tick, store, req>>

\* The server of one of the three modes listens, or cannot; a server that
\* was shut down refuses to.
ListenAndServe ==
    /\ Running
    /\ start = "listen"
    /\ start' \in {"error"} \cup IF ShutdownCalled THEN {"nil"} ELSE {"serve"}
    /\ UNCHANGED <<signalled, cancelled, main, shut, gc, tick, wg, store, req>>

\* Serving ends as soon as Shutdown has been called, or with an error.
ServeReturns ==
    /\ Running
    /\ start = "serve"
    /\ start' = IF ShutdownCalled THEN "nil" ELSE "error"
    /\ UNCHANGED <<signalled, cancelled, main, shut, gc, tick, wg, store, req>>

-----------------------------------------------------------------------------
\* main's select: the signal, or an error that Start sent.
MainSelects ==
    /\ main = "select"
    /\ \/ signalled /\ main' = "shutdown"
       \/ start \in {"error", "failed"} /\ main' = "fatal"
    /\ UNCHANGED <<signalled, cancelled, start, shut, gc, tick, wg, store, req>>

\* The goroutine of the controller manager ends the process on an error.
ControllerManagerFails ==
    /\ Running
    /\ main' = "fatal"
    /\ UNCHANGED <<signalled, cancelled, start, shut, gc, tick, wg, store, req>>

\* 1. Server.Shutdown: nothing to do before Start has made the server.
ShutdownBegins ==
    /\ main = "shutdown"
    /\ \/ HttpServer /\ main' = "drain" /\ UNCHANGED shut
       \/ ~HttpServer /\ main' = "cancel" /\ shut' = "skipped"
    /\ UNCHANGED <<signalled, cancelled, start, gc, tick, wg, store, req>>

\* The server has nothing in flight any more, or the fifteen seconds have
\* passed.  It does not know of the connections that h2c has taken over.
ShutdownReturns ==
    /\ main = "drain"
    /\ shut' = IF InFlight \subseteq H2C THEN "drained" ELSE "timeout"
    /\ main' = "cancel"
    /\ UNCHANGED <<signalled, cancelled, start, gc, tick, wg, store, req>>

\* Mutant: the root context is not cancelled.
MutCancel ==
    /\ main = "cancel"
    /\ main' = "wait"
    /\ UNCHANGED <<signalled, cancelled, start, shut, gc, tick, wg, store, req>>

\* 2. The root context is cancelled.
Cancel ==
    /\ main = "cancel"
    /\ cancelled' = TRUE
    /\ main' = "wait"
    /\ UNCHANGED <<signalled, start, shut, gc, tick, wg, store, req>>

\* Mutant: main does not wait for the collector.
MutWaitForBackgroundWorkers ==
    /\ main = "wait"
    /\ main' = "close"
    /\ UNCHANGED <<signalled, cancelled, start, shut, gc, tick, wg, store, req>>

\* 3. WaitForBackgroundWorkers.
WaitForBackgroundWorkers ==
    /\ main = "wait"
    /\ wg = 0
    /\ main' = "close"
    /\ UNCHANGED <<signalled, cancelled, start, shut, gc, tick, wg, store, req>>

\* 4. CloseStore, after which main returns.
CloseStore ==
    /\ main = "close" /\ store = "open"
    /\ store' = "closed"
    /\ UNCHANGED <<signalled, cancelled, main, start, shut, gc, tick, wg, req>>

MainReturns ==
    /\ main = "close" /\ store = "closed"
    /\ main' = "stopped"
    /\ UNCHANGED <<signalled, cancelled, start, shut, gc, tick, wg, store, req>>

-----------------------------------------------------------------------------
\* The ticker's channel holds one tick, which may come during a pass too.
\* Its period is far longer than what main does once it closes the store.
Tick ==
    /\ Running
    /\ gc \in {"idle", "pass"} /\ ~tick
    /\ main # "close"
    /\ tick' = TRUE
    /\ UNCHANGED <<signalled, cancelled, main, start, shut, gc, wg, store, req>>

\* The collector's select takes either case when both are ready.
CollectorPass ==
    /\ Running
    /\ gc = "idle" /\ tick
    /\ gc' = "pass"
    /\ tick' = FALSE
    /\ UNCHANGED <<signalled, cancelled, main, start, shut, wg, store, req>>

\* A pass ends by itself or at its own timeout; it ignores the context.
CollectorPassEnds ==
    /\ Running
    /\ gc = "pass"
    /\ gc' = "idle"
    /\ UNCHANGED <<signalled, cancelled, main, start, shut, tick, wg, store, req>>

\* Mutant: a worker that ends is counted off twice.
MutCollectorStops ==
    /\ Running
    /\ gc = "idle" /\ cancelled
    /\ gc' = "stopped"
    /\ wg' = wg - 2
    /\ UNCHANGED <<signalled, cancelled, main, start, shut, tick, store, req>>

CollectorStops ==
    /\ Running
    /\ gc = "idle" /\ cancelled
    /\ gc' = "stopped"
    /\ wg' = wg - 1
    /\ UNCHANGED <<signalled, cancelled, main, start, shut, tick, store, req>>

\* The listener is open from ListenAndServe until Shutdown is called.  On a
\* connection of h2c the request may follow later.
Accept(r) ==
    /\ Running
    /\ Accepting
    /\ req[r] = "new"
    /\ req' = [req EXCEPT ![r] = IF r \in H2C THEN "open" ELSE "active"]
    /\ UNCHANGED <<signalled, cancelled, main, start, shut, gc, tick, wg, store>>

\* Shutdown neither closes the connection nor refuses what comes over it.
H2CRequest(r) ==
    /\ Running
    /\ req[r] = "open"
    /\ req' = [req EXCEPT ![r] = "active"]
    /\ UNCHANGED <<signalled, cancelled, main, start, shut, gc, tick, wg, store>>

Answer(r) ==
    /\ Running
    /\ req[r] = "active"
    /\ req' = [req EXCEPT ![r] = "answered"]
    /\ UNCHANGED <<signalled, cancelled, main, start, shut, gc, tick, wg, store>>

-----------------------------------------------------------------------------
StartStep == SyncCaches \/ Ping \/ CreateHTTPServer \/ StartCollector \/ ListenAndServe
MainStep ==
    \/ MainSelects
    \/ ShutdownBegins
    \/ ShutdownReturns
    \/ Cancel
    \/ WaitForBackgroundWorkers
    \/ CloseStore
    \/ MainReturns
CollectorStep == CollectorPass \/ CollectorPassEnds \/ CollectorStops

Next ==
    \/ Signal
    \/ StartStep
    \/ ServeReturns
    \/ ControllerManagerFails
    \/ MainStep
    \/ Tick
    \/ CollectorStep
    \/ \E r \in Requests : Accept(r) \/ H2CRequest(r) \/ Answer(r)

Spec == Init /\ [][Next]_vars

(***************************************************************************)
(* Fairness: main and the collector's goroutine keep running, and a pass   *)
(* ends (gcOnceTimeout).  A select with several cases ready takes each of  *)
(* them at random, so the collector does not pass over its stop channel at *)
(* every turn, however long its passes are.  Requests need not be          *)
(* answered.                                                               *)
(***************************************************************************)
Fairness == WF_vars(MainStep) /\ WF_vars(CollectorStep) /\ SF_vars(CollectorStops)

-----------------------------------------------------------------------------
(***************************************************************************)
(* The order of main's four steps protects the store: once it is closed no *)
(* pass of the collector is under way, and a request is only when Shutdown *)
(* ran out of time, the server came up after it, or the request came over  *)
(* a connection of h2c, which Shutdown does not wait for.                  *)
(***************************************************************************)
StoreClosedLast ==
    store = "closed" => gc # "pass" /\ (shut = "drained" => InFlight \subseteq H2C)

(***************************************************************************)
(* The signal ends the process, also in the middle of the start-up, and of *)
(* a pass of the collector.                                                *)
(***************************************************************************)
SignalStops == signalled ~> ~Running

(***************************************************************************)
(* What the comment of the first shutdown step says: once it is done, new  *)
(* requests are no longer accepted.                                        *)
(***************************************************************************)
NoNewRequests == shut # "pending" => ~Accepting
==============================================================================
