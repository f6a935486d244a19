---------------------------- MODULE RouterServer ----------------------------
(***************************************************************************)
(* The life of the router process: main with its select, the goroutine in  *)
(* Server.Start that serves, the goroutine that shuts down when the signal *)
(* context ends, and the invocations that pass the concurrency limiter.    *)
(* What an invocation does to a session is in SandboxLifecycle; here it is *)
(* the sequence of calls during which it holds a slot.  A request comes    *)
(* over HTTP/1.1, or over a connection that the h2c handler has taken over *)
(* and Shutdown does not know of.  Code interpreters are invoked in the    *)
(* sandbox of PicodServer; what an agent runtime runs is not in this code, *)
(* and answers when it likes, or never.                                    *)
(***************************************************************************)
EXTENDS PicodServer

CONSTANTS
    MaxConcurrentRequests,  \* the --max-concurrent-requests flag
    DefaultLimit,           \* the limit that NewServer falls back on
    H2C,                    \* the requests that come over a connection of h2c
    AgentCallers            \* the requests that may invoke an agent runtime

ASSUME RouterAssumption ==
    /\ MaxConcurrentRequests \in Int
    /\ DefaultLimit \in Nat \ {0}
    /\ H2C \subseteq Requests
    /\ AgentCallers \subseteq Requests

VARIABLES
    ctxDone,    \* the signal has arrived
    main,       \* where main is
    start,      \* where Server.Start is: its return value once it returns
    closer,     \* where the shutdown goroutine of Start is
    slots,      \* tokens in the limiter's channel
    req         \* req[r]: where invocation r is

process == <<ctxDone, main, start, closer>>
requestVars == <<slots, req, picodVars>>
vars == <<process, requestVars>>

Active == {"lookup", "touch", "forward", "proxied", "agent", "touchAgain"}
InFlight == {r \in Requests : req[r] \in Active}
Running == main \in {"select", "wait"}
Returned == start \in {"nil", "error"}

TypeOK ==
    /\ ctxDone \in BOOLEAN
    /\ main \in {"select", "wait", "stopped", "fatal"}
    /\ start \in {"listen", "serve", "nil", "error"}
    /\ closer \in {"wait", "drain", "close", "done"}
    /\ slots \in Nat
    /\ PicodTypeOK
    /\ req \in [Requests -> Active \cup {"new", "open", "refused", "rejected", "answered"}]

\* NewServer: a limit that is not positive is replaced by the default.
Limit == IF MaxConcurrentRequests <= 0 THEN DefaultLimit ELSE MaxConcurrentRequests

Init ==
    /\ ctxDone = FALSE
    /\ main = "select"
    /\ start = "listen"
    /\ closer = "wait"
    /\ slots = 0
    /\ req = [r \in Requests |-> "new"]
    /\ PicodInit

-----------------------------------------------------------------------------
\* SIGINT or SIGTERM.
Signal ==
    /\ Running
    /\ ~ctxDone
    /\ ctxDone' = TRUE
    /\ UNCHANGED <<main, start, closer, requestVars>>

\* Start begins to listen, or cannot; after Shutdown it refuses to.
ListenAndServe ==
    /\ Running
    /\ start = "listen"
    /\ \/ closer = "wait" /\ start' \in {"serve", "error"}
       \/ closer # "wait" /\ start' = "nil"
    /\ UNCHANGED <<ctxDone, main, closer, requestVars>>

\* Serving ends with an error, or with ErrServerClosed as soon as Shutdown
\* has been called, which Start turns into nil.
ServeReturns ==
    /\ Running
    /\ start = "serve"
    /\ \/ closer = "wait" /\ start' = "error"
       \/ closer # "wait" /\ start' = "nil"
    /\ UNCHANGED <<ctxDone, main, closer, requestVars>>

\* The shutdown goroutine calls Shutdown, which closes the listener.
ShutdownBegins ==
    /\ Running
    /\ closer = "wait"
    /\ ctxDone
    /\ closer' = "drain"
    /\ UNCHANGED <<ctxDone, main, start, requestVars>>

\* Shutdown returns when nothing is in flight that it knows of, and after ten
\* seconds in any case.
ShutdownReturns ==
    /\ Running
    /\ closer = "drain"
    /\ closer' = "close"
    /\ UNCHANGED <<ctxDone, main, start, requestVars>>

\* sessionManager.Close stops the certificate watcher.
CloseSessionManager ==
    /\ Running
    /\ closer = "close"
    /\ closer' = "done"
    /\ UNCHANGED <<ctxDone, main, start, requestVars>>

\* main's select: either case when both are ready.  Once the channel is
\* closed the error case receives nil, which is reported as fatal as well.
MainSelects ==
    /\ main = "select"
    /\ \/ ctxDone /\ main' = "wait"
       \/ Returned /\ main' = "fatal"
    /\ UNCHANGED <<ctxDone, start, closer, requestVars>>

\* Mutant: the goroutine that runs Start does not close errCh.
MutMainExits ==
    /\ main = "wait"
    /\ start = "error"
    /\ main' = "stopped"
    /\ UNCHANGED <<ctxDone, start, closer, requestVars>>

\* main receives from errCh, which Start's goroutine fills or closes.
MainExits ==
    /\ main = "wait"
    /\ Returned
    /\ main' = "stopped"
    /\ UNCHANGED <<ctxDone, start, closer, requestVars>>

-----------------------------------------------------------------------------
\* The listener is open until Shutdown is called; a connection of h2c stays
\* open after it.
Accepting == start = "serve" /\ closer = "wait"

Connect(r) ==
    /\ Running
    /\ Accepting
    /\ r \in H2C
    /\ req[r] = "new"
    /\ req' = [req EXCEPT ![r] = "open"]
    /\ UNCHANGED <<process, slots, picodVars>>

\* A request arrives.  Authentication refuses it before the limiter; the
\* limiter takes a slot or answers 429.
Accept(r) ==
    /\ Running
    /\ IF r \in H2C THEN req[r] = "open" ELSE Accepting /\ req[r] = "new"
    /\ \/ req' = [req EXCEPT ![r] = "refused"] /\ UNCHANGED slots
       \/ /\ slots < Limit
          /\ slots' = slots + 1
          /\ req' = [req EXCEPT ![r] = "lookup"]
       \/ slots >= Limit /\ req' = [req EXCEPT ![r] = "rejected"] /\ UNCHANGED slots
    /\ UNCHANGED <<process, picodVars>>

\* Mutant: the slot is given back at the end of the handler only, not deferred.
MutRelease(r) ==
    /\ req' = [req EXCEPT ![r] = "answered"]
    /\ slots' = IF req[r] = "touchAgain" THEN slots - 1 ELSE slots

\* The handler returns or panics: the deferred receive gives the slot back.
Release(r) ==
    /\ req' = [req EXCEPT ![r] = "answered"]
    /\ slots' = slots - 1

\* GetSandboxBySession: store lookup or creation, then the ownership check.
GetSandbox(r) ==
    /\ Running
    /\ req[r] = "lookup"
    /\ \/ req' = [req EXCEPT ![r] = "touch"] /\ UNCHANGED slots
       \/ Release(r)
    /\ UNCHANGED <<process, picodVars>>

\* UpdateSessionLastActivity before forwarding; its failure is only logged.
TouchBefore(r) ==
    /\ Running
    /\ req[r] = "touch"
    /\ req' = [req EXCEPT ![r] = "forward"]
    /\ UNCHANGED <<process, slots, picodVars>>

\* forwardToSandbox up to the proxy: there is no entry point, or nothing can be
\* reached there, or the request cannot be signed; or it is sent, to PicoD or
\* to the process of an agent runtime.
ForwardToSandbox(r) ==
    /\ Running
    /\ req[r] = "forward"
    /\ \/ req' = [req EXCEPT ![r] = "touchAgain"] /\ UNCHANGED picodVars
       \/ req' = [req EXCEPT ![r] = "proxied"] /\ Receive(r)
       \/ r \in AgentCallers /\ req' = [req EXCEPT ![r] = "agent"] /\ UNCHANGED picodVars
    /\ UNCHANGED <<process, slots>>

\* Mutant: the proxy waits for an answer although the connection is broken.
MutProxyReturns(r) ==
    /\ Running
    /\ req[r] = "proxied"
    /\ pd[r] = "answered"
    /\ \/ req' = [req EXCEPT ![r] = "touchAgain"] /\ UNCHANGED slots
       \/ Release(r)
    /\ UNCHANGED <<process, picodVars>>

\* The proxy has the answer or knows that none will come; it panics when the
\* connection breaks in the middle of the answer.
ProxyReturns(r) ==
    /\ Running
    /\ req[r] = "proxied"
    /\ pd[r] \in {"answered", "lost"}
    /\ \/ req' = [req EXCEPT ![r] = "touchAgain"] /\ UNCHANGED slots
       \/ Release(r)
    /\ UNCHANGED <<process, picodVars>>

\* The agent has answered, or its connection broke.
AgentReturns(r) ==
    /\ Running
    /\ req[r] = "agent"
    /\ \/ req' = [req EXCEPT ![r] = "touchAgain"] /\ UNCHANGED slots
       \/ Release(r)
    /\ UNCHANGED <<process, picodVars>>

\* The caller goes away, or the connection to the sandbox breaks: the proxy gives
\* up, in a panic when it was copying the answer.  PicoD goes on.
CallerGone(r) ==
    /\ Running
    /\ req[r] \in {"proxied", "agent"}
    /\ \/ req' = [req EXCEPT ![r] = "touchAgain"] /\ UNCHANGED slots
       \/ Release(r)
    /\ UNCHANGED <<process, picodVars>>

\* UpdateSessionLastActivity after forwarding, and the return.
TouchAfter(r) ==
    /\ Running
    /\ req[r] = "touchAgain"
    /\ Release(r)
    /\ UNCHANGED <<process, picodVars>>

-----------------------------------------------------------------------------
Handle(r) ==
    \/ GetSandbox(r)
    \/ TouchBefore(r)
    \/ ForwardToSandbox(r)
    \/ ProxyReturns(r)
    \/ TouchAfter(r)

ProcessStep ==
    \/ ListenAndServe
    \/ ServeReturns
    \/ ShutdownBegins
    \/ ShutdownReturns
    \/ CloseSessionManager
    \/ MainSelects
    \/ MainExits

Next ==
    \/ Signal
    \/ ProcessStep
    \/ \E r \in Requests :
          Connect(r) \/ Accept(r) \/ Handle(r) \/ AgentReturns(r) \/ CallerGone(r)
    \/ PicodNext /\ UNCHANGED <<process, slots, req>>

Spec == Init /\ [][Next]_vars

(***************************************************************************)
(* Fairness: goroutines that can run do run, every call of a handler but   *)
(* the proxied one returns (the clients have timeouts), and time passes.   *)
(* Nobody need send a request or the signal, serving need not fail, an     *)
(* agent need not answer, and a command need not end, nor what it leaves   *)
(* behind.                                                                 *)
(***************************************************************************)
LiveSpec ==
    /\ Spec
    /\ WF_vars(ListenAndServe)
    /\ WF_vars(ServeReturns /\ closer # "wait")
    /\ WF_vars(ShutdownBegins)
    /\ WF_vars(ShutdownReturns)
    /\ WF_vars(CloseSessionManager)
    /\ WF_vars(MainSelects)
    /\ WF_vars(MainExits)
    /\ \A r \in Requests :
          /\ WF_vars(Handle(r))
          /\ WF_vars(PicodHandler(r) /\ UNCHANGED <<process, slots, req>>)
          /\ WF_vars(DeadlinePasses(r) /\ UNCHANGED <<process, slots, req>>)
          /\ WF_vars(KillCommand(r) /\ UNCHANGED <<process, slots, req>>)

-----------------------------------------------------------------------------
(***************************************************************************)
(* The limiter counts right: a slot is taken for every invocation in       *)
(* flight and for nothing else, and there are never more than the limit    *)
(* (concurrencyLimitMiddleware, panics and error returns included).        *)
(***************************************************************************)
SlotsHeld == slots = Cardinality(InFlight) /\ slots <= Limit

(***************************************************************************)
(* The signal stops the process, whatever Start was doing when it came.    *)
(***************************************************************************)
SignalStops == ctxDone ~> ~Running

(***************************************************************************)
(* Every invocation that was let in is answered, although the proxy waits  *)
(* for the sandbox without a limit of its own: the command's timeout ends  *)
(* the wait, unless others hold its output open for ever.  For an agent    *)
(* runtime nothing ends the wait but its answer or its caller.             *)
(***************************************************************************)
InvocationEnds ==
    \A r \in Requests :
        \/ <>[](r \in held)
        \/ <>[](req[r] = "agent")
        \/ req[r] \in Active ~> req[r] = "answered" \/ ~Running

(***************************************************************************)
(* What main's comment says of its last receive: the process stops after   *)
(* the graceful shutdown is complete.                                      *)
(***************************************************************************)
ExitsAfterShutdown == main = "stopped" /\ start = "nil" => closer = "done"
=============================================================================
