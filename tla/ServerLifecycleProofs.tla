------------------------ MODULE ServerLifecycleProofs ------------------------
(***************************************************************************)
(* Proofs of the safety properties of ServerLifecycle, for any number of   *)
(* requests and any command lines.                                         *)
(***************************************************************************)
EXTENDS ServerLifecycle, Integers, TLAPS

(* What a slot for requests may hold.                                       *)
Handler == [at : Server \cup {"none"}, op : {"none", "call", "drain"},
            polled : BOOLEAN, undrained : BOOLEAN]

LEMMA IdleTyped == Idle \in Handler
  BY DEF Idle, Handler

LEMMA CallTyped ==
    ASSUME NEW s \in Server, NEW op \in {"call", "drain"}
    PROVE  /\ [Idle EXCEPT !.at = s, !.op = op] \in Handler
           /\ [Idle EXCEPT !.at = s, !.op = op].at = s
           /\ [Idle EXCEPT !.at = s, !.op = op].op = op
           /\ [Idle EXCEPT !.at = s, !.op = op].polled = FALSE
           /\ [Idle EXCEPT !.at = s, !.op = op].undrained = FALSE
  BY DEF Idle, Handler

(* Marking a drain changes the mark only.                                   *)
LEMMA Marked ==
    ASSUME NEW h \in Handler, NEW b \in BOOLEAN
    PROVE  /\ [h EXCEPT !.polled = b] \in Handler
           /\ [h EXCEPT !.polled = b].polled = b
           /\ [h EXCEPT !.polled = b].at = h.at
           /\ [h EXCEPT !.polled = b].op = h.op
           /\ [h EXCEPT !.polled = b].undrained = h.undrained
           /\ [h EXCEPT !.undrained = b] \in Handler
           /\ [h EXCEPT !.undrained = b].undrained = b
           /\ [h EXCEPT !.undrained = b].at = h.at
           /\ [h EXCEPT !.undrained = b].op = h.op
           /\ [h EXCEPT !.undrained = b].polled = h.polled
  BY DEF Handler

LEMMA SameMark ==
    ASSUME NEW h \in Handler
    PROVE  [h EXCEPT !.polled = h.polled] = h /\ [h EXCEPT !.undrained = h.undrained] = h
  BY DEF Handler

LEMMA IdleUnmarked ==
    /\ [Idle EXCEPT !.polled = Idle.op = "drain"] = Idle
    /\ [Idle EXCEPT !.undrained = Idle.op = "drain"] = Idle
  <1>1. Idle.polled = (Idle.op = "drain") /\ Idle.undrained = (Idle.op = "drain")
    BY DEF Idle
  <1>2. [Idle EXCEPT !.polled = Idle.polled] = Idle /\ [Idle EXCEPT !.undrained = Idle.undrained] = Idle
    BY IdleTyped, SameMark
  <1> QED
    BY <1>1, <1>2, Zenon

(* A readiness check or an undrain leaves every request where it is.        *)
LEMMA MarkingStays ==
    ASSUME TypeOK, Undrain \/ PollReadiness, NEW q \in Request
    PROVE  /\ handler'[q].at = handler[q].at
           /\ handler'[q].op = handler[q].op
           /\ handler[q] = Idle => handler'[q] = Idle
           /\ Undrain => /\ handler'[q].undrained = (handler[q].op = "drain")
                         /\ handler'[q].polled = handler[q].polled
           /\ PollReadiness => /\ handler'[q].polled = (handler[q].op = "drain")
                               /\ handler'[q].undrained = handler[q].undrained
  <1>1. handler[q] \in Handler
    BY DEF TypeOK, Handler
  <1>2. (handler[q].op = "drain") \in BOOLEAN
    OBVIOUS
  <1>3. Undrain => handler'[q] = [handler[q] EXCEPT !.undrained = handler[q].op = "drain"]
    BY DEF Undrain
  <1>4. PollReadiness => handler'[q] = [handler[q] EXCEPT !.polled = handler[q].op = "drain"]
    BY DEF PollReadiness
  <1> DEFINE b == handler[q].op = "drain"
  <1>5. handler[q] = Idle => handler'[q] = Idle
    BY <1>3, <1>4, IdleUnmarked
  <1> HIDE DEF b
  <1>6. /\ handler'[q].at = handler[q].at
        /\ handler'[q].op = handler[q].op
        /\ Undrain => handler'[q].undrained = b /\ handler'[q].polled = handler[q].polled
        /\ PollReadiness => handler'[q].polled = b /\ handler'[q].undrained = handler[q].undrained
    <2>1. b \in BOOLEAN
      BY <1>2 DEF b
    <2>2. /\ Undrain => handler'[q] = [handler[q] EXCEPT !.undrained = b]
          /\ PollReadiness => handler'[q] = [handler[q] EXCEPT !.polled = b]
      BY <1>3, <1>4 DEF b
    <2> DEFINE h == handler[q]
    <2> HIDE DEF h
    <2>3. h \in Handler
      BY <1>1 DEF h
    <2>4. /\ [h EXCEPT !.undrained = b].undrained = b
          /\ [h EXCEPT !.undrained = b].polled = h.polled
          /\ [h EXCEPT !.undrained = b].at = h.at
          /\ [h EXCEPT !.undrained = b].op = h.op
      BY <2>1, <2>3, Marked
    <2>5. /\ [h EXCEPT !.polled = b].polled = b
          /\ [h EXCEPT !.polled = b].undrained = h.undrained
          /\ [h EXCEPT !.polled = b].at = h.at
          /\ [h EXCEPT !.polled = b].op = h.op
      BY <2>1, <2>3, Marked
    <2> QED
      BY <2>2, <2>4, <2>5, Zenon DEF h
  <1> QED
    BY <1>5, <1>6 DEF b

(* Type correctness.                                                        *)

LEMMA InitTyped == Init => TypeOK
  <1> SUFFICES ASSUME Init PROVE TypeOK
    OBVIOUS
  <1>1. handler \in [Request -> Handler]
    BY IdleTyped DEF Init
  <1> QED
    BY <1>1 DEF Init, TypeOK, Handler, Server, ApiServer, Ended

LEMMA MainTyped == TypeOK /\ MainStep => TypeOK'
  <1> SUFFICES ASSUME TypeOK, MainStep PROVE TypeOK'
    OBVIOUS
  <1> USE DEF TypeOK, Server, ApiServer, Ended, conn, vault
  <1>1. CASE OpenDatabase
    BY <1>1 DEF OpenDatabase
  <1>2. CASE ConnectSecrets
    BY <1>2 DEF ConnectSecrets
  <1>3. CASE StartServers
    BY <1>3 DEF StartServers
  <1>4. CASE BeginShutdown
    BY <1>4 DEF BeginShutdown
  <1>5. CASE CloseDatabase
    BY <1>5 DEF CloseDatabase
  <1>6. ASSUME NEW s \in Server, Stop(s) PROVE TypeOK'
    BY <1>6 DEF Stop
  <1>7. ASSUME NEW s \in Server, Stopped(s) PROVE TypeOK'
    BY <1>7 DEF Stopped, AfterStop
  <1> QED
    BY <1>1, <1>2, <1>3, <1>4, <1>5, <1>6, <1>7 DEF MainStep

LEMMA RequestsTyped == TypeOK /\ Requests => TypeOK'
  <1> SUFFICES ASSUME TypeOK, Requests PROVE TypeOK'
    OBVIOUS
  <1> USE DEF TypeOK, Server, ApiServer, Ended, conn, vault, Idle
  <1>1. ASSUME NEW q \in Request, Respond(q) PROVE TypeOK'
    BY <1>1 DEF Respond
  <1>2. ASSUME NEW q \in Request, Drain(q) PROVE TypeOK'
    BY <1>2 DEF Drain
  <1>3. ASSUME NEW q \in Request, DrainReturns(q) PROVE TypeOK'
    BY <1>3 DEF DrainReturns
  <1>4. ASSUME NEW q \in Request, NEW s \in Server, Accept(q, s) PROVE TypeOK'
    <2>1. handler' \in [Request -> Handler]
      BY <1>4, CallTyped DEF Accept, Handler
    <2> QED
      BY <1>4, <2>1 DEF Accept, Handler
  <1>5. CASE Undrain
    <2>1. handler' \in [Request -> Handler]
      <3>1. \A q \in Request : [handler[q] EXCEPT !.undrained = handler[q].op = "drain"] \in Handler
        BY Marked DEF Handler
      <3> QED
        BY <1>5, <3>1 DEF Undrain
    <2> QED
      BY <1>5, <2>1 DEF Undrain, Handler
  <1>6. CASE PollReadiness
    <2>1. handler' \in [Request -> Handler]
      <3>1. \A q \in Request : [handler[q] EXCEPT !.polled = handler[q].op = "drain"] \in Handler
        BY Marked DEF Handler
      <3> QED
        BY <1>6, <3>1 DEF PollReadiness
    <2> QED
      BY <1>6, <2>1 DEF PollReadiness, Handler
  <1> QED
    BY <1>1, <1>2, <1>3, <1>4, <1>5, <1>6 DEF Requests

LEMMA NextTyped == TypeOK /\ [Next]_vars => TypeOK'
  <1> SUFFICES ASSUME TypeOK, [Next]_vars PROVE TypeOK'
    OBVIOUS
  <1> USE DEF TypeOK, Server, ApiServer, Ended, conn, vault
  <1>1. CASE Signal
    BY <1>1 DEF Signal
  <1>2. CASE Deadline
    BY <1>2 DEF Deadline, Expire, Context
  <1>3. CASE AssignMetrics
    BY <1>3 DEF AssignMetrics
  <1>4. ASSUME NEW s \in Server, ListenAndServe(s) PROVE TypeOK'
    BY <1>4 DEF ListenAndServe
  <1>5. CASE Watch
    <2>1. CASE TokenRenewed
      BY <2>1 DEF TokenRenewed, vars
    <2>2. CASE RenewalEnds
      BY <2>2 DEF RenewalEnds, WatcherStops
    <2>3. CASE WatcherCancelled
      BY <2>3 DEF WatcherCancelled, WatcherStops
    <2>4. CASE TokenExpires
      BY <2>4 DEF TokenExpires
    <2> QED
      BY <1>5, <2>1, <2>2, <2>3, <2>4 DEF Watch
  <1>6. CASE UNCHANGED vars
    BY <1>6 DEF vars
  <1> QED
    BY <1>1, <1>2, <1>3, <1>4, <1>5, <1>6, MainTyped, RequestsTyped DEF Next, Terminated

(* Every step keeps the types: process, servers, requests and token.        *)
THEOREM LifecycleTypeCorrect == Spec => []TypeOK
  BY InitTyped, NextTyped, PTL DEF Spec
-----------------------------------------------------------------------------
(* Shutdown.                                                                *)

(* Where runCli is once the Shutdown of a server has returned.              *)
Past(s) ==
    CASE s = "api" -> main \in {"internal", "admin", "metrics", "close", "exited", "panicked"}
      [] s = "internal" -> main \in {"admin", "metrics", "close", "exited", "panicked"}
      [] s = "admin" -> main \in {"metrics", "close", "exited", "panicked"}
      [] s = "metrics" -> main \in {"close", "exited"}

(* What has been started, and what a panic met.                             *)
Started ==
    /\ main \in {"database", "secrets", "start", "failed"} => \A s \in Server : server[s] = "unstarted"
    /\ ~flags.metrics => server["metrics"] = "unstarted"
    /\ main = "panicked" => server["metrics"] = "spawned"

(* A server that is shut down does not listen, and those behind runCli are. *)
Closed ==
    /\ \A s \in Server : closing[s] => server[s] # "listening"
    /\ \A s \in Server : Past(s) /\ (s = "metrics" => flags.metrics) => closing[s]

(* A request runs on a server that listens or has listened.                 *)
Located ==
    \A q \in Request : handler[q] # Idle =>
        handler[q].at \in Server /\ server[handler[q].at] \in {"listening", "stopped"}

(* A request is left behind on a server at its deadline only.               *)
LeftAtDeadline ==
    \A q \in Request : handler[q] # Idle /\ Past(handler[q].at) => Context(handler[q].at) \in expired

(* The inductive invariant.                                                 *)
ShutdownInv == Started /\ Closed /\ Located /\ LeftAtDeadline

LEMMA ShutdownInit == Init => ShutdownInv
  BY DEF Init, ShutdownInv, Started, Closed, Located, LeftAtDeadline, Past, Server, ApiServer

LEMMA ShutdownMain == TypeOK /\ ShutdownInv /\ MainStep => ShutdownInv'
  <1> SUFFICES ASSUME TypeOK, ShutdownInv, MainStep PROVE ShutdownInv'
    OBVIOUS
  <1> USE DEF TypeOK, ShutdownInv, Started, Closed, Located, LeftAtDeadline, Past, Server, ApiServer, Ended, conn
  <1>1. CASE OpenDatabase
    BY <1>1 DEF OpenDatabase
  <1>2. CASE ConnectSecrets
    BY <1>2 DEF ConnectSecrets
  <1>3. CASE StartServers
    BY <1>3 DEF StartServers
  <1>4. CASE BeginShutdown
    BY <1>4 DEF BeginShutdown
  <1>5. CASE CloseDatabase
    BY <1>5 DEF CloseDatabase
  <1>6. ASSUME NEW s \in Server, Stop(s) PROVE ShutdownInv'
    <2>1. CASE main' = "panicked"
      <3>1. s = "metrics" /\ server[s] = "spawned" /\ main = "metrics"
        BY <1>6, <2>1 DEF Stop
      <3>2. UNCHANGED <<flags, server, closing, expired, handler>>
        BY <1>6, <3>1 DEF Stop
      <3> QED
        BY <2>1, <3>1, <3>2
    <2>2. CASE main' # "panicked"
      <3>1. /\ UNCHANGED <<flags, main, expired, handler>>
            /\ closing' = [closing EXCEPT ![s] = TRUE]
            /\ server' = [server EXCEPT ![s] = IF @ = "listening" THEN "stopped" ELSE @]
        BY <1>6, <2>2 DEF Stop
      <3>2. \A x \in Server : Past(x)' <=> Past(x)
        BY <3>1
      <3>3. main = s
        BY <1>6 DEF Stop
      <3>4. Started'
        BY <3>1, <3>3
      <3> HIDE DEF Past
      <3>5. Closed' /\ Located' /\ LeftAtDeadline'
        BY <3>1, <3>2 DEF Context
      <3> QED
        BY <3>4, <3>5
    <2> QED
      BY <2>1, <2>2
  <1>7. ASSUME NEW s \in Server, Stopped(s) PROVE ShutdownInv'
    <2>1. UNCHANGED <<flags, server, closing, expired, handler>> /\ closing[s] /\ main = s
      BY <1>7 DEF Stopped
    <2>2. InFlight(s) = {} \/ Context(s) \in expired
      BY <1>7 DEF Stopped
    <2>3. \A x \in Server : Past(x)' => Past(x) \/ x = s \/ (x = "metrics" /\ ~flags.metrics)
      BY <1>7 DEF Stopped, AfterStop
    <2>4. Started'
      BY <1>7, <2>1 DEF Stopped, AfterStop
    <2> HIDE DEF Past
    <2>5. Closed' /\ Located'
      BY <2>1, <2>3
    <2>6. LeftAtDeadline'
      BY <2>1, <2>2, <2>3 DEF InFlight, Context
    <2> QED
      BY <2>4, <2>5, <2>6
  <1> QED
    BY <1>1, <1>2, <1>3, <1>4, <1>5, <1>6, <1>7 DEF MainStep

LEMMA ShutdownRequests == TypeOK /\ TypeOK' /\ ShutdownInv /\ Requests => ShutdownInv'
  <1> SUFFICES ASSUME TypeOK, TypeOK', ShutdownInv, Requests PROVE ShutdownInv'
    OBVIOUS
  <1>1. UNCHANGED <<flags, main, server, closing, expired>>
    BY DEF Requests, Respond, Drain, DrainReturns, Accept, Undrain, PollReadiness
  <1>2. Started' /\ Closed' /\ (\A s \in Server : Past(s)' <=> Past(s))
    BY <1>1 DEF ShutdownInv, Started, Closed, Past
  <1> USE DEF ShutdownInv, Located, LeftAtDeadline, Context
  <1>3. ASSUME NEW q \in Request, Respond(q) \/ DrainReturns(q) PROVE Located' /\ LeftAtDeadline'
    BY <1>1, <1>2, <1>3 DEF TypeOK, Respond, DrainReturns
  <1>4. ASSUME NEW q \in Request, NEW s \in Server, Accept(q, s) \/ (Drain(q) /\ s = "api")
        PROVE  Located' /\ LeftAtDeadline'
    <2>1. server[s] = "listening" /\ ~closing[s]
      BY <1>4 DEF Accept, Drain, Closed
    <2>2. ~Past(s)
      <3>1. s = "metrics" => flags.metrics
        BY <2>1 DEF Started
      <3> QED
        BY <2>1, <3>1 DEF Closed
    <2>3. handler'[q].at = s /\ \A p \in Request \ {q} : handler'[p] = handler[p]
      <3>1. PICK op \in {"call", "drain"} : handler' = [handler EXCEPT ![q] = [Idle EXCEPT !.at = s, !.op = op]]
        BY <1>4 DEF Accept, Drain
      <3>2. [Idle EXCEPT !.at = s, !.op = op].at = s
        BY CallTyped
      <3> QED
        BY <3>1, <3>2 DEF TypeOK
    <2> QED
      BY <1>1, <1>2, <2>1, <2>2, <2>3
  <1>5. CASE Undrain \/ PollReadiness
    BY <1>1, <1>2, <1>5, MarkingStays
  <1> QED
    BY <1>2, <1>3, <1>4, <1>5 DEF Requests, Server, ApiServer

LEMMA ShutdownNext == TypeOK /\ TypeOK' /\ ShutdownInv /\ [Next]_vars => ShutdownInv'
  <1> SUFFICES ASSUME TypeOK, TypeOK', ShutdownInv, [Next]_vars PROVE ShutdownInv'
    OBVIOUS
  <1> USE DEF ShutdownInv, Started, Closed, Located, LeftAtDeadline, Past, conn
  <1>1. CASE Signal \/ Watch \/ Terminated \/ UNCHANGED vars
    <2>1. UNCHANGED <<flags, main, server, closing, expired, handler>>
      BY <1>1 DEF Signal, Watch, TokenRenewed, RenewalEnds, WatcherCancelled, TokenExpires,
                  WatcherStops, Terminated, vars
    <2> QED
      BY <2>1 DEF Context
  <1>2. CASE Deadline
    <2>1. UNCHANGED <<flags, main, server, closing, handler>> /\ expired \subseteq expired'
      BY <1>2 DEF Deadline, Expire
    <2> QED
      BY <2>1 DEF Context
  <1>3. CASE AssignMetrics
    <2>1. UNCHANGED <<flags, main, closing, expired, handler>> /\ main # "panicked" /\ server["metrics"] = "spawned"
      BY <1>3 DEF AssignMetrics, Alive, Ended
    <2>2. /\ server'["metrics"] = "assigned"
          /\ \A s \in Server \ {"metrics"} : server'[s] = server[s]
      BY <1>3 DEF AssignMetrics, TypeOK, Server, ApiServer
    <2> QED
      BY <2>1, <2>2 DEF Context, Server, ApiServer
  <1>4. ASSUME NEW s \in Server, ListenAndServe(s) PROVE ShutdownInv'
    <2>1. UNCHANGED <<flags, main, closing, expired, handler>> /\ main # "panicked" /\ main # "failed"
      BY <1>4 DEF ListenAndServe, Alive, Ended
    <2>2. server[s] \in {"spawned", "assigned"}
      BY <1>4 DEF ListenAndServe
    <2>3. /\ server'[s] \in {"listening", "failed", "stopped"}
          /\ closing[s] => server'[s] # "listening"
          /\ \A x \in Server \ {s} : server'[x] = server[x]
      BY <1>4 DEF ListenAndServe, TypeOK
    <2>4. Started'
      BY <2>1, <2>2, <2>3 DEF Server, ApiServer
    <2>5. \A x \in Server : Past(x)' <=> Past(x)
      BY <2>1
    <2> HIDE DEF Past
    <2>6. Closed' /\ Located' /\ LeftAtDeadline'
      BY <2>1, <2>2, <2>3, <2>5 DEF Context
    <2> QED
      BY <2>4, <2>6
  <1> QED
    BY <1>1, <1>2, <1>3, <1>4, ShutdownMain, ShutdownRequests DEF Next

LEMMA ShutdownInvariant == Spec => []ShutdownInv
  <1>1. Init => ShutdownInv
    BY ShutdownInit
  <1> QED
    BY <1>1, ShutdownNext, LifecycleTypeCorrect, PTL DEF Spec

(* Requests are cut off, or lose the database, at the deadline of their     *)
(* server's Shutdown only (Server.Shutdown and the deferred db.Close).      *)
THEOREM OnlyDeadlineCutsOff == Spec => []CutOffOnlyAtDeadline
  <1>1. TypeOK /\ ShutdownInv => CutOffOnlyAtDeadline
    <2> SUFFICES ASSUME TypeOK, ShutdownInv, main \in {"close"} \cup Ended,
                        NEW q \in Request, handler[q] # Idle
                 PROVE  Context(handler[q].at) \in expired
      BY DEF CutOffOnlyAtDeadline
    <2>1. handler[q].at \in Server /\ server[handler[q].at] \in {"listening", "stopped"}
      BY DEF ShutdownInv, Located
    <2>2. main # "failed" /\ (main = "panicked" => handler[q].at # "metrics")
      BY <2>1 DEF ShutdownInv, Started
    <2>3. Past(handler[q].at)
      BY <2>1, <2>2 DEF Past, Ended, Server, ApiServer
    <2> QED
      BY <2>3 DEF ShutdownInv, LeftAtDeadline
  <1> QED
    BY <1>1, LifecycleTypeCorrect, ShutdownInvariant, PTL

(* When the database is closed no server listens (Server.Shutdown, and the  *)
(* goroutines of RunInBackground).                                          *)
THEOREM NoneListensAtClose == Spec => []ClosedToNewRequests
  <1>1. ShutdownInv => ClosedToNewRequests
    BY DEF ShutdownInv, Closed, Started, Past, ClosedToNewRequests, Server, ApiServer
  <1> QED
    BY <1>1, ShutdownInvariant, PTL
-----------------------------------------------------------------------------
(* The token.                                                               *)

(* The watcher ends for a reason, and a token of a login had one.           *)
TokenInv ==
    /\ watcher = "stopped" => signal \/ refused
    /\ token # "none" /\ flags.login => watcher # "off"
    /\ TokenKept

(* The token of a login stays valid until the signal, or until Vault ends   *)
(* the renewal (watchTokenRenewal).                                         *)
THEOREM LoginTokenKept == Spec => []TokenKept
  <1>1. Init => TokenInv
    BY DEF Init, TokenInv, TokenKept
  <1>2. TypeOK /\ TokenInv /\ [Next]_vars => TokenInv'
    <2> SUFFICES ASSUME TypeOK, TokenInv, [Next]_vars PROVE TokenInv'
      OBVIOUS
    <2> USE DEF TokenInv, TokenKept
    <2>1. CASE ConnectSecrets
      BY <2>1 DEF ConnectSecrets
    <2>2. CASE Signal
      BY <2>2 DEF Signal, vault
    <2>3. CASE RenewalEnds
      BY <2>3 DEF RenewalEnds, WatcherStops
    <2>4. CASE WatcherCancelled
      BY <2>4 DEF WatcherCancelled, WatcherStops
    <2>5. CASE TokenExpires
      BY <2>5 DEF TokenExpires, TypeOK
    <2>6. CASE UNCHANGED <<flags, signal, vault>>
      BY <2>6 DEF vault
    <2> QED
      BY <2>1, <2>2, <2>3, <2>4, <2>5, <2>6
         DEF Next, MainStep, OpenDatabase, StartServers, BeginShutdown, CloseDatabase, Stop, Stopped,
             Deadline, Expire, AssignMetrics, ListenAndServe, Requests, Respond, Drain, DrainReturns,
             Accept, Undrain, PollReadiness, Watch, TokenRenewed, Terminated, vars
  <1>3. TokenInv => TokenKept
    BY DEF TokenInv
  <1> QED
    BY <1>1, <1>2, <1>3, LifecycleTypeCorrect, PTL DEF Spec
-----------------------------------------------------------------------------
(* Draining.                                                                *)

(* A drain that no undrain overtook has made the server not ready, and only *)
(* drains are marked as noticed.                                            *)
DrainInv ==
    /\ \A q \in Request : handler[q].op = "drain" /\ ~handler[q].undrained => ~isReady
    /\ \A q \in Request : handler[q].polled => handler[q].op = "drain"
    /\ DrainNoticed

(* A load balancer that has asked during a drain takes the server for not   *)
(* ready until the drain returns, unless an undrain overtook it             *)
(* (handleDrain, handleUndrain, handleReadinessCheck).                      *)
THEOREM DrainsAreNoticed == Spec => []DrainNoticed
  <1>1. Init => DrainInv
    BY DEF Init, DrainInv, DrainNoticed, Idle
  <1>2. TypeOK /\ ShutdownInv /\ DrainInv /\ [Next]_vars => DrainInv'
    <2> SUFFICES ASSUME TypeOK, ShutdownInv, DrainInv, [Next]_vars PROVE DrainInv'
      OBVIOUS
    <2> USE DEF DrainInv, DrainNoticed
    <2>1. CASE StartServers
      <3>1. \A q \in Request : handler[q] = Idle
        BY <2>1 DEF StartServers, ShutdownInv, Started, Located
      <3>2. Idle.op = "none" /\ Idle.polled = FALSE
        BY DEF Idle
      <3> QED
        BY <2>1, <3>1, <3>2 DEF StartServers
    <2>2. ASSUME NEW q \in Request, Respond(q) \/ DrainReturns(q) PROVE DrainInv'
      <3>1. Idle.op = "none" /\ Idle.polled = FALSE
        BY DEF Idle
      <3>2. /\ handler'[q] = Idle /\ \A p \in Request \ {q} : handler'[p] = handler[p]
            /\ UNCHANGED <<isReady, lb>>
        BY <2>2 DEF Respond, DrainReturns, TypeOK
      <3> QED
        BY <3>1, <3>2
    <2>3. ASSUME NEW q \in Request, NEW s \in Server, Accept(q, s) PROVE DrainInv'
      <3> DEFINE h == [Idle EXCEPT !.at = s, !.op = "call"]
      <3>1. h.op = "call" /\ h.polled = FALSE
        BY CallTyped
      <3>2. /\ handler'[q] = h /\ \A p \in Request \ {q} : handler'[p] = handler[p]
            /\ UNCHANGED <<isReady, lb>>
        BY <2>3 DEF Accept, TypeOK
      <3> HIDE DEF h
      <3> QED
        BY <3>1, <3>2
    <2>4. ASSUME NEW q \in Request, Drain(q) PROVE DrainInv'
      <3> DEFINE h == [Idle EXCEPT !.at = "api", !.op = "drain"]
      <3>1. h.op = "drain" /\ h.polled = FALSE
        BY CallTyped DEF Server, ApiServer
      <3>2. /\ handler'[q] = h /\ \A p \in Request \ {q} : handler'[p] = handler[p]
            /\ isReady' = FALSE /\ lb' = lb
        BY <2>4 DEF Drain, TypeOK
      <3> HIDE DEF h
      <3> QED
        BY <3>1, <3>2
    <2>5. CASE Undrain
      <3>1. \A q \in Request : /\ handler'[q].op = handler[q].op
                               /\ handler'[q].polled = handler[q].polled
                               /\ handler[q].op = "drain" => handler'[q].undrained
        BY <2>5, MarkingStays
      <3> QED
        BY <3>1, Zenon
    <2>6. CASE PollReadiness
      <3>1. \A q \in Request : /\ handler'[q].op = handler[q].op
                               /\ handler'[q].undrained = handler[q].undrained
                               /\ handler'[q].polled => handler[q].op = "drain"
        BY <2>6, MarkingStays
      <3>2. isReady' = isReady /\ (lb' => isReady)
        BY <2>6 DEF PollReadiness
      <3> QED
        BY <3>1, <3>2
    <2>7. CASE UNCHANGED conn
      BY <2>7 DEF conn
    <2> QED
      BY <2>1, <2>2, <2>3, <2>4, <2>5, <2>6, <2>7
         DEF Next, MainStep, OpenDatabase, ConnectSecrets, BeginShutdown, CloseDatabase, Stop, Stopped,
             Deadline, Expire, AssignMetrics, ListenAndServe, Requests, Signal, Watch, TokenRenewed,
             RenewalEnds, WatcherCancelled, WatcherStops, TokenExpires, Terminated, vars
  <1>3. DrainInv => DrainNoticed
    BY DEF DrainInv
  <1> QED
    BY <1>1, <1>2, <1>3, LifecycleTypeCorrect, ShutdownInvariant, PTL DEF Spec
-----------------------------------------------------------------------------
(* What SignalEndsProcess rests on besides fairness.                        *)

\* The stages of runCli that are still ahead.
Ahead == [database |-> 9, secrets |-> 8, start |-> 7, serving |-> 6, api |-> 5, internal |-> 4,
          admin |-> 3, metrics |-> 2, close |-> 1, exited |-> 0, failed |-> 0, panicked |-> 0]

\* A bound on the steps of the main goroutine and of the deadlines that are left.
StepsLeft ==
    2 * Ahead[main] + (IF main \in Server /\ ~closing[main] THEN 1 ELSE 0)
        + (IF "api" \in expired THEN 0 ELSE 1) + (IF "metrics" \in expired THEN 0 ELSE 1)

(* The guards of MainStep and of Deadline.                                  *)
MainReady ==
    \/ main \in {"database", "secrets", "start", "close"}
    \/ main = "serving" /\ signal
    \/ main \in Server /\ (~closing[main] \/ InFlight(main) = {} \/ Context(main) \in expired)
DeadlineReady == main \in Server /\ Context(main) \notin expired

LEMMA MainAdvances == TypeOK /\ MainStep => StepsLeft' < StepsLeft
<1> SUFFICES ASSUME TypeOK, MainStep
             PROVE  StepsLeft' < StepsLeft
  OBVIOUS
<1>1. expired' = expired
  BY DEF MainStep, OpenDatabase, ConnectSecrets, StartServers, BeginShutdown, CloseDatabase, Stop, Stopped
<1> DEFINE rest == (IF "api" \in expired THEN 0 ELSE 1) + (IF "metrics" \in expired THEN 0 ELSE 1)
           open == IF main \in Server /\ ~closing[main] THEN 1 ELSE 0
           nextOpen == IF main' \in Server /\ ~closing'[main'] THEN 1 ELSE 0
<1>2. /\ StepsLeft = 2 * Ahead[main] + open + rest
      /\ StepsLeft' = 2 * Ahead[main'] + nextOpen + rest
  <2>1. StepsLeft = 2 * Ahead[main] + open + rest
    <3> DEFINE a == 2 * Ahead[main]
    <3>1. a \in Int
      BY DEF TypeOK, Ahead, Server, ApiServer, Ended
    <3>2. StepsLeft = a + open + (IF "api" \in expired THEN 0 ELSE 1) + (IF "metrics" \in expired THEN 0 ELSE 1)
      BY DEF StepsLeft
    <3> HIDE DEF a
    <3>3. StepsLeft = a + open + rest
      BY <3>1, <3>2
    <3> QED
      BY <3>3 DEF a
  <2>2. StepsLeft' = 2 * Ahead[main'] + nextOpen + rest
    <3> DEFINE a == 2 * Ahead[main']
    <3>1. a \in Int
      BY MainTyped DEF TypeOK, Ahead, Server, ApiServer, Ended
    <3>2. StepsLeft' = a + nextOpen + (IF "api" \in expired THEN 0 ELSE 1) + (IF "metrics" \in expired THEN 0 ELSE 1)
      BY <1>1 DEF StepsLeft, Ahead
    <3> HIDE DEF a
    <3>3. StepsLeft' = a + nextOpen + rest
      BY <3>1, <3>2
    <3> QED
      BY <3>3 DEF a
  <2> QED
    BY <2>1, <2>2
<1>3. rest \in Int /\ open \in {0, 1} /\ nextOpen \in {0, 1}
  OBVIOUS
<1>4. Ahead[main] \in Int /\ Ahead[main'] \in Int
  BY MainTyped DEF TypeOK, Ahead, Server, ApiServer, Ended
<1>5. CASE \E s \in Server : main = s /\ main' = s /\ ~closing[s] /\ closing'[s]
  BY <1>2, <1>3, <1>4, <1>5
<1>6. CASE Ahead[main'] < Ahead[main]
  <2> HIDE DEF rest, open, nextOpen
  <2> QED
    BY <1>2, <1>3, <1>4, <1>6
<1>7. CASE OpenDatabase \/ ConnectSecrets \/ StartServers \/ BeginShutdown \/ CloseDatabase
  BY <1>6, <1>7 DEF OpenDatabase, ConnectSecrets, StartServers, BeginShutdown, CloseDatabase, Ahead
<1>8. CASE \E s \in Server : Stop(s)
  <2>1. PICK s \in Server : Stop(s)
    BY <1>8
  <2>2. CASE main' = "panicked"
    BY <1>6, <2>1, <2>2 DEF Stop, Ahead, Server, ApiServer
  <2>3. CASE main' # "panicked"
    <3>1. main = s /\ main' = s /\ ~closing[s] /\ closing' = [closing EXCEPT ![s] = TRUE]
      BY <2>1, <2>3 DEF Stop
    <3>2. closing'[s]
      BY <3>1 DEF TypeOK
    <3> QED
      BY <1>5, <3>1, <3>2
  <2> QED
    BY <2>2, <2>3
<1>9. CASE \E s \in Server : Stopped(s)
  <2>1. PICK s \in Server : Stopped(s)
    BY <1>9
  <2> QED
    BY <1>6, <2>1 DEF Stopped, AfterStop, Ahead, Server, ApiServer
<1> QED
  BY <1>7, <1>8, <1>9 DEF MainStep

LEMMA DeadlineAdvances == TypeOK /\ Deadline => StepsLeft' < StepsLeft
<1> SUFFICES ASSUME TypeOK, NEW c \in {"api", "metrics"}, Expire(c)
             PROVE  StepsLeft' < StepsLeft
  BY DEF Deadline
<1>1. main' = main /\ closing' = closing /\ c \notin expired /\ expired' = expired \cup {c}
  BY DEF Expire
<1> DEFINE rest == 2 * Ahead[main] + (IF main \in Server /\ ~closing[main] THEN 1 ELSE 0)
<1>2. rest \in Int
  BY DEF TypeOK, Ahead, Server, ApiServer, Ended
<1>3. rest' = rest
  BY <1>1 DEF Ahead
<1>4. StepsLeft = rest + (IF "api" \in expired THEN 0 ELSE 1) + (IF "metrics" \in expired THEN 0 ELSE 1)
  BY DEF StepsLeft
<1>5. StepsLeft' = rest + (IF "api" \in expired' THEN 0 ELSE 1) + (IF "metrics" \in expired' THEN 0 ELSE 1)
  BY <1>3 DEF StepsLeft
<1> HIDE DEF rest
<1> QED
  BY <1>1, <1>2, <1>4, <1>5

(* The main goroutine never waits for handlers alone: after the signal, and *)
(* until the process has ended, it can go on or the deadline of the         *)
(* Shutdown call it is in has still to come (Server.Shutdown in             *)
(* httpserver/server.go, the wait for the signal in runCli).                *)
THEOREM SignalNeverStuck == Spec => [](signal /\ Alive => MainReady \/ DeadlineReady)
<1>1. TypeOK => (signal /\ Alive => MainReady \/ DeadlineReady)
  BY DEF TypeOK, Alive, Ended, MainReady, DeadlineReady
<1> QED
  BY <1>1, LifecycleTypeCorrect, PTL

(* ... and each such step brings the end of the process nearer, while       *)
(* nothing else, no request, late server, signal or watcher, puts it off:   *)
(* at most StepsLeft of them, 20 at the start, are ever taken.              *)
THEOREM ShutdownOnlyAdvances ==
    Spec => [][StepsLeft' <= StepsLeft /\ (MainStep \/ Deadline => StepsLeft' < StepsLeft)]_vars
<1>1. (TypeOK => StepsLeft \in Nat) /\ (TypeOK' => StepsLeft' \in Nat)
  BY DEF TypeOK, StepsLeft, Ahead, Server, ApiServer, Ended
<1>2. ASSUME TypeOK, UNCHANGED <<main, closing, expired>>
      PROVE  StepsLeft' = StepsLeft
  BY <1>2 DEF StepsLeft, Ahead
<1>3. ASSUME TypeOK, Next
      PROVE  MainStep \/ Deadline \/ UNCHANGED <<main, closing, expired>>
  BY <1>3 DEF Next, Signal, AssignMetrics, ListenAndServe, Requests, Accept, Respond, Drain, DrainReturns,
     Undrain, PollReadiness, Watch, TokenRenewed, RenewalEnds, WatcherCancelled, WatcherStops,
     TokenExpires, Terminated, vars
<1>4. ASSUME TypeOK, TypeOK', Next
      PROVE  StepsLeft' <= StepsLeft /\ (MainStep \/ Deadline => StepsLeft' < StepsLeft)
  <2>1. StepsLeft \in Nat /\ StepsLeft' \in Nat
    BY <1>1, <1>4
  <2>2. MainStep \/ Deadline => StepsLeft' < StepsLeft
    BY <1>4, MainAdvances, DeadlineAdvances
  <2>3. StepsLeft' < StepsLeft \/ StepsLeft' = StepsLeft
    BY <1>2, <1>3, <1>4, <2>2
  <2> QED
    BY <2>1, <2>2, <2>3
<1> QED
  BY <1>4, LifecycleTypeCorrect, PTL DEF Spec
=============================================================================
