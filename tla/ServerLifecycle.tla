--------------------------- MODULE ServerLifecycle ---------------------------
(***************************************************************************)
(* The life of the process (cmd/httpserver/main.go, httpserver/server.go,  *)
(* httpserver/handler.go, metrics/server.go): the start of its servers in  *)
(* goroutines of their own, readiness and draining, the watcher of the     *)
(* Vault token (adapters/secrets/hashicorp_vault.go), the termination      *)
(* signal at any moment, and the shutdown of one server after the other    *)
(* under a deadline.  What the requests do is left to BuilderHub; here     *)
(* they start, run for any time and end.                                   *)
(***************************************************************************)
CONSTANTS
    Request,    \* requests in flight at once
    FlagSets    \* the command lines the process may be started with

\* The flags that decide what is started; login: the Vault method is not "token".
Flags == [mockSecrets : BOOLEAN, vaultEnabled : BOOLEAN, secretPrefix : BOOLEAN,
          login : BOOLEAN, metrics : BOOLEAN]

ASSUME FlagsAssumption == FlagSets \subseteq Flags

VARIABLES
    flags,      \* the command line
    main,       \* where runCli is, or how the process ended
    signal,     \* SIGINT or SIGTERM has arrived: ctx is done
    server,     \* server[s]: the http.Server and the goroutine that runs it
    closing,    \* closing[s]: Shutdown of s has been called
    expired,    \* shutdown contexts whose deadline has passed
    handler,    \* handler[q]: the request running in q
    isReady,    \* srv.isReady
    lb,         \* what the load balancer last read from /readyz
    token,      \* the Vault token
    watcher,    \* the goroutine watchTokenRenewal
    refused     \* history: Vault has ended the renewal of the token

conn == <<handler, isReady, lb>>
vault == <<token, watcher, refused>>
vars == <<flags, main, signal, server, closing, expired, conn, vault>>

ApiServer == {"api", "internal", "admin"}
Server == ApiServer \cup {"metrics"}

Ended == {"exited", "failed", "panicked"}
Alive == main \notin Ended

Idle == [at |-> "none", op |-> "none", polled |-> FALSE, undrained |-> FALSE]

TypeOK ==
    /\ flags \in FlagSets
    /\ main \in {"database", "secrets", "start", "serving", "close"} \cup Server \cup Ended
    /\ signal \in BOOLEAN
    /\ server \in [Server -> {"unstarted", "spawned", "assigned", "listening", "stopped", "failed"}]
    /\ closing \in [Server -> BOOLEAN]
    /\ expired \subseteq {"api", "metrics"}
    /\ handler \in [Request -> [at : Server \cup {"none"}, op : {"none", "call", "drain"},
                                polled : BOOLEAN, undrained : BOOLEAN]]
    /\ isReady \in BOOLEAN
    /\ lb \in BOOLEAN
    /\ token \in {"none", "valid", "expired"}
    /\ watcher \in {"off", "running", "stopped"}
    /\ refused \in BOOLEAN

Init ==
    /\ flags \in FlagSets
    /\ main = "database"
    /\ signal = FALSE
    /\ server = [s \in Server |-> "unstarted"]
    /\ closing = [s \in Server |-> FALSE]
    /\ expired = {}
    /\ handler = [q \in Request |-> Idle]
    /\ isReady = FALSE
    /\ lb = FALSE
    /\ token = "none"
    /\ watcher = "off"
    /\ refused = FALSE

\* The signal, which signal.NotifyContext turns into the end of ctx.
Signal ==
    /\ Alive
    /\ ~signal
    /\ signal' = TRUE
    /\ UNCHANGED <<flags, main, server, closing, expired, conn, vault>>
-----------------------------------------------------------------------------
(* runCli up to the wait for the signal.                                    *)

SecretBackend ==
    CASE flags.mockSecrets -> "mock"
      [] ~flags.mockSecrets /\ flags.vaultEnabled -> "vault"
      [] ~flags.mockSecrets /\ ~flags.vaultEnabled /\ flags.secretPrefix -> "aws"
      [] OTHER -> "none"

OpenDatabase ==
    /\ main = "database"
    /\ main' \in {"secrets", "failed"}
    /\ UNCHANGED <<flags, signal, server, closing, expired, conn, vault>>

\* Vault: with a token of its own nobody watches it; a token from a login is
\* watched.  A bad configuration, no backend or a failed login end the process; a
\* login fails when ctx is done.
ConnectSecrets ==
    /\ main = "secrets"
    /\ \/ /\ SecretBackend # "none"
          /\ SecretBackend = "vault" /\ flags.login => ~signal
          /\ main' = "start"
          /\ IF SecretBackend = "vault"
             THEN token' = "valid" /\ watcher' = IF flags.login THEN "running" ELSE "off"
             ELSE UNCHANGED <<token, watcher>>
       \/ /\ SecretBackend # "mock"
          /\ main' = "failed"
          /\ UNCHANGED <<token, watcher>>
    /\ UNCHANGED <<flags, signal, server, closing, expired, conn, refused>>

\* NewHTTPServer and RunInBackground: ready at once, each server in a goroutine.
\* Mutant: one more server, which Shutdown does not know of.
StartPprof ==
    /\ main = "start"
    /\ main' = "serving"
    /\ isReady' = TRUE
    /\ server' = [s \in Server \cup {"pprof"} |-> "spawned"]
    /\ UNCHANGED <<flags, signal, closing, expired, handler, lb, vault>>
StartServers ==
    /\ main = "start"
    /\ main' = "serving"
    /\ isReady' = TRUE
    /\ server' = [s \in Server |-> IF s = "metrics" /\ ~flags.metrics THEN "unstarted" ELSE "spawned"]
    /\ UNCHANGED <<flags, signal, closing, expired, handler, lb, vault>>
-----------------------------------------------------------------------------
(* The goroutines of the servers.                                           *)

\* MetricsServer.Start creates its http.Server here; the others exist already.
AssignMetrics ==
    /\ Alive
    /\ server["metrics"] = "spawned"
    /\ server' = [server EXCEPT !["metrics"] = "assigned"]
    /\ UNCHANGED <<flags, main, signal, closing, expired, conn, vault>>

\* ListenAndServe: refused after Shutdown; an error is logged and that is all.
ListenAndServe(s) ==
    /\ Alive
    /\ server[s] = IF s = "metrics" THEN "assigned" ELSE "spawned"
    /\ \E next \in IF closing[s] THEN {"stopped"} ELSE {"listening", "failed"} :
           server' = [server EXCEPT ![s] = next]
    /\ UNCHANGED <<flags, main, signal, closing, expired, conn, vault>>
-----------------------------------------------------------------------------
(* Requests.                                                                *)

\* Any request that is not one of the following; /metrics on the metrics server.
Accept(q, s) ==
    /\ Alive
    /\ server[s] = "listening" /\ handler[q] = Idle
    /\ handler' = [handler EXCEPT ![q] = [Idle EXCEPT !.at = s, !.op = "call"]]
    /\ UNCHANGED <<flags, main, signal, server, closing, expired, isReady, lb, vault>>

Respond(q) ==
    /\ Alive
    /\ handler[q].op = "call"
    /\ handler' = [handler EXCEPT ![q] = Idle]
    /\ UNCHANGED <<flags, main, signal, server, closing, expired, isReady, lb, vault>>

\* handleDrain, of a server that was ready: it sleeps now.  (Of one that was not,
\* it returns at once and changes nothing.)
\* Mutant: isReady.Load() instead of isReady.Swap(false).
LoadNotSwap(q) ==
    /\ Alive
    /\ server["api"] = "listening" /\ handler[q] = Idle
    /\ isReady
    /\ handler' = [handler EXCEPT ![q] = [Idle EXCEPT !.at = "api", !.op = "drain"]]
    /\ UNCHANGED <<flags, main, signal, server, closing, expired, isReady, lb, vault>>
Drain(q) ==
    /\ Alive
    /\ server["api"] = "listening" /\ handler[q] = Idle
    /\ isReady
    /\ isReady' = FALSE
    /\ handler' = [handler EXCEPT ![q] = [Idle EXCEPT !.at = "api", !.op = "drain"]]
    /\ UNCHANGED <<flags, main, signal, server, closing, expired, lb, vault>>

\* The sleep is over, whether the load balancer has asked meanwhile or not.
DrainReturns(q) ==
    /\ Alive
    /\ handler[q].op = "drain"
    /\ handler' = [handler EXCEPT ![q] = Idle]
    /\ UNCHANGED <<flags, main, signal, server, closing, expired, isReady, lb, vault>>

\* handleUndrain; drains that sleep meanwhile are marked for the property.
Undrain ==
    /\ Alive
    /\ server["api"] = "listening"
    /\ isReady' = TRUE
    /\ handler' = [q \in Request |-> [handler[q] EXCEPT !.undrained = handler[q].op = "drain"]]
    /\ UNCHANGED <<flags, main, signal, server, closing, expired, lb, vault>>

\* The load balancer asks /readyz; no answer counts as not ready.
PollReadiness ==
    /\ Alive
    /\ lb' = (isReady /\ server["api"] = "listening")
    /\ handler' = [q \in Request |-> [handler[q] EXCEPT !.polled = handler[q].op = "drain"]]
    /\ UNCHANGED <<flags, main, signal, server, closing, expired, isReady, vault>>
-----------------------------------------------------------------------------
(* Server.Shutdown, and the end of runCli.                                  *)

InFlight(s) == {q \in Request : handler[q].at = s}

\* The context of a Shutdown call: the three API servers share one.
Context(s) == IF s = "metrics" THEN "metrics" ELSE "api"

\* What follows the Shutdown of a server.
AfterStop(s) ==
    CASE s = "api" -> "internal"
      [] s = "internal" -> "admin"
      [] s = "admin" -> IF flags.metrics THEN "metrics" ELSE "close"
      [] s = "metrics" -> "close"

BeginShutdown ==
    /\ main = "serving"
    /\ signal
    /\ main' = "api"
    /\ UNCHANGED <<flags, signal, server, closing, expired, conn, vault>>

\* http.Server.Shutdown closes the listener; of a nil metrics server it panics.
Stop(s) ==
    /\ main = s
    /\ ~closing[s]
    /\ \/ /\ s = "metrics" /\ server[s] = "spawned"
          /\ main' = "panicked"
          /\ UNCHANGED <<server, closing>>
       \/ /\ ~(s = "metrics" /\ server[s] = "spawned")
          /\ closing' = [closing EXCEPT ![s] = TRUE]
          /\ server' = [server EXCEPT ![s] = IF @ = "listening" THEN "stopped" ELSE @]
          /\ UNCHANGED main
    /\ UNCHANGED <<flags, signal, expired, conn, vault>>

\* It returns when the server is idle, or at the deadline; the error is logged.
\* Mutants: Close, which waits for nobody; the first error ends Shutdown.
CloseNotShutdown(s) ==
    /\ main = s
    /\ closing[s]
    /\ main' = AfterStop(s)
    /\ UNCHANGED <<flags, signal, server, closing, expired, conn, vault>>
ReturnOnError(s) ==
    /\ main = s
    /\ closing[s]
    /\ \/ InFlight(s) = {} /\ main' = AfterStop(s)
       \/ InFlight(s) # {} /\ Context(s) \in expired /\ main' = "close"
    /\ UNCHANGED <<flags, signal, server, closing, expired, conn, vault>>
Stopped(s) ==
    /\ main = s
    /\ closing[s]
    /\ InFlight(s) = {} \/ Context(s) \in expired
    /\ main' = AfterStop(s)
    /\ UNCHANGED <<flags, signal, server, closing, expired, conn, vault>>

\* GracefulShutdownDuration is over.
\* Mutant: a context without a timeout.
NoTimeout(c) == FALSE /\ UNCHANGED vars
Expire(c) ==
    /\ main \in {s \in Server : Context(s) = c}
    /\ c \notin expired
    /\ expired' = expired \cup {c}
    /\ UNCHANGED <<flags, main, signal, server, closing, conn, vault>>

\* The deferred db.Close, and the process is gone.
CloseDatabase ==
    /\ main = "close"
    /\ main' = "exited"
    /\ UNCHANGED <<flags, signal, server, closing, expired, conn, vault>>
-----------------------------------------------------------------------------
(* watchTokenRenewal.                                                       *)

WatcherStops == watcher' = "stopped" /\ UNCHANGED <<flags, main, signal, server, closing, expired, conn, token>>

\* RenewCh: the loop goes on.
\* Mutant: it ends after the first renewal.
WatchOnce == Alive /\ watcher = "running" /\ WatcherStops /\ UNCHANGED refused
TokenRenewed == Alive /\ watcher = "running" /\ UNCHANGED vars

\* DoneCh: Vault renews no more, for its own reasons.
RenewalEnds == Alive /\ watcher = "running" /\ WatcherStops /\ refused' = TRUE

\* ctx.Done: the watcher shares the context of the signal.
WatcherCancelled == Alive /\ watcher = "running" /\ signal /\ WatcherStops /\ UNCHANGED refused

\* A token nobody renews runs out.
TokenExpires ==
    /\ Alive
    /\ token = "valid" /\ watcher # "running"
    /\ token' = "expired"
    /\ UNCHANGED <<flags, main, signal, server, closing, expired, conn, watcher, refused>>
-----------------------------------------------------------------------------
MainStep ==
    \/ OpenDatabase \/ ConnectSecrets \/ StartServers
    \/ BeginShutdown \/ CloseDatabase
    \/ \E s \in Server : Stop(s) \/ Stopped(s)

Deadline == \E c \in {"api", "metrics"} : Expire(c)

Requests ==
    \/ \E q \in Request : Respond(q) \/ Drain(q) \/ DrainReturns(q) \/ \E s \in Server : Accept(q, s)
    \/ Undrain \/ PollReadiness

Watch == TokenRenewed \/ RenewalEnds \/ WatcherCancelled \/ TokenExpires

Terminated == ~Alive /\ UNCHANGED vars

Next ==
    \/ Signal \/ MainStep \/ Deadline
    \/ AssignMetrics \/ \E s \in Server : ListenAndServe(s)
    \/ Requests \/ Watch \/ Terminated

Spec == Init /\ [][Next]_vars

(* The main goroutine runs, the calls it makes at the start return and      *)
(* timers fire.  Handlers may run for ever.                                 *)
FairSpec == Spec /\ WF_vars(MainStep) /\ WF_vars(Deadline)
-----------------------------------------------------------------------------
(* Properties.                                                              *)

(* A request is cut off by the end of the process, or loses the database    *)
(* under it, only when the deadline of its server's Shutdown has passed:    *)
(* not because a server was left out, not by the failure of another.        *)
CutOffOnlyAtDeadline ==
    main \in {"close"} \cup Ended =>
        \A q \in Request : handler[q] # Idle => Context(handler[q].at) \in expired

(* When runCli closes the database no server takes requests any more,       *)
(* whatever went wrong in the Shutdown of another one and however late a    *)
(* server's goroutine came to listen.                                       *)
ClosedToNewRequests ==
    main \in {"close", "exited"} => \A s \in Server : server[s] # "listening"

(* Once the load balancer has asked while a /drain sleeps it takes the      *)
(* server for not ready until that /drain returns, however many drains and  *)
(* polls overlap, unless an /undrain overtook it (the comment at            *)
(* handler.go:27).                                                          *)
DrainNoticed ==
    \A q \in Request : handler[q].polled /\ ~handler[q].undrained => ~lb

(* The Vault token of a login stays valid until the process is told to end  *)
(* or Vault itself ends the renewal: watchTokenRenewal gives up for no      *)
(* other reason.                                                            *)
TokenKept == token = "expired" /\ flags.login => signal \/ refused

(* After the signal the process ends, although requests may hang, servers   *)
(* may have failed to start or have not started yet.                        *)
SignalEndsProcess == signal ~> ~Alive

(* What the comment at main.go:328 says of the signal, and Shutdown of its  *)
(* last step: the servers are shut down, the metrics server too.            *)
ShutdownNeverPanics == main # "panicked"
=============================================================================
