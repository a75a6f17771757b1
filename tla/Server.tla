------------------------------- MODULE Server -------------------------------
(***************************************************************************)
(* The process around the gateway, s3rp.go: Run calls Serve and then its   *)
(* deferred functions, which flush the metrics and close the store, and    *)
(* main exits.  A goroutine of Serve waits for the context (a signal) and  *)
(* calls http.Server.Shutdown, which closes the listener at once, so that  *)
(* ListenAndServe returns, and then waits for the requests in flight for   *)
(* at most ten seconds.  http.Server is external.                          *)
(***************************************************************************)
CONSTANTS Requests

VARIABLES ctx,        \* "live" or "done"
          srv,        \* http.Server: "listening" or "closed"
          shutdown,   \* the goroutine: "waiting", "draining", "expired" or "drained"
          main,       \* where Run is
          store,      \* "open" or "closed"
          request     \* "none", "active", "answered" or "cut"

vars == <<ctx, srv, shutdown, main, store, request>>

Init ==
    /\ ctx = "live" /\ srv = "listening" /\ shutdown = "waiting"
    /\ main = "serving" /\ store = "open"
    /\ request = [r \in Requests |-> "none"]

Running == main # "exited"

\* A connection brings a request.
Accept(r) ==
    /\ Running /\ srv = "listening" /\ request[r] = "none"
    /\ request' = [request EXCEPT ![r] = "active"]
    /\ UNCHANGED <<ctx, srv, shutdown, main, store>>

\* Its handler comes to an end.
Answer(r) ==
    /\ Running /\ request[r] = "active"
    /\ request' = [request EXCEPT ![r] = "answered"]
    /\ UNCHANGED <<ctx, srv, shutdown, main, store>>

Signal ==
    /\ Running /\ ctx = "live"
    /\ ctx' = "done"
    /\ UNCHANGED <<srv, shutdown, main, store, request>>

\* The goroutine calls srv.Shutdown, which closes the listener first.
Shutdown ==
    /\ Running /\ shutdown = "waiting" /\ ctx = "done"
    /\ srv' = "closed"
    /\ shutdown' = "draining"
    /\ UNCHANGED <<ctx, main, store, request>>

\* srv.Shutdown returns: nothing is in flight, or shutdownCtx has timed out.
ShutdownReturns ==
    /\ Running /\ shutdown = "draining"
    /\ shutdown' \in {"expired"} \cup
         (IF \A r \in Requests : request[r] # "active" THEN {"drained"} ELSE {})
    /\ UNCHANGED <<ctx, srv, main, store, request>>

\* ListenAndServe returns http.ErrServerClosed, and Serve returns nil.
Serve ==
    /\ main = "serving" /\ srv = "closed"
    /\ main' = "flush"
    /\ UNCHANGED <<ctx, srv, shutdown, store, request>>

\* The deferred app.Shutdown: the metrics are exported, or that fails.
FlushMetrics ==
    /\ main = "flush"
    /\ main' = "close"
    /\ UNCHANGED <<ctx, srv, shutdown, store, request>>

\* The deferred Close of the store.
CloseStore ==
    /\ main = "close"
    /\ store' = "closed"
    /\ main' = "returned"
    /\ UNCHANGED <<ctx, srv, shutdown, request>>

\* main returns from Run: the process ends, and with it every goroutine.
Exit ==
    /\ main = "returned"
    /\ main' = "exited"
    /\ request' = [r \in Requests |-> IF request[r] = "active" THEN "cut" ELSE request[r]]
    /\ UNCHANGED <<ctx, srv, shutdown, store>>

Next ==
    \/ \E r \in Requests : Accept(r) \/ Answer(r)
    \/ Signal \/ Shutdown \/ ShutdownReturns
    \/ Serve \/ FlushMetrics \/ CloseStore \/ Exit

Spec == Init /\ [][Next]_vars

\* "Serve runs the HTTP server until ctx is done, then shuts down gracefully": a
\* request in flight when the signal comes is answered, unless it takes longer
\* than the ten seconds srv.Shutdown is given.
GracefulShutdown ==
    \A r \in Requests : request[r] = "cut" => shutdown = "expired"
=============================================================================
