-------------------------------- MODULE Server --------------------------------
(***************************************************************************)
(* One run of the site's server process, from exec to exit: main and the   *)
(* tasks it spawns on the tokio runtime.                                   *)
(*                                                                         *)
(*   main        installs telemetry, resolves the configuration, brings    *)
(*               the listeners up and waits for the site server to end     *)
(*   signal task relays SIGTERM/SIGINT to the axum-server handle           *)
(*   TLS task    (SITE_TLS=on only) loads the PEM pair, binds, serves      *)
(*   connections tasks of the site listener, one per accepted connection   *)
(*                                                                         *)
(* The health and redirect listeners are spawned and never joined, so all  *)
(* that is kept of each is whether it is up.  A connection carries one     *)
(* request here.                                                           *)
(***************************************************************************)
EXTENDS SiteConfig, Naturals

CONSTANTS Conns,       \* client connections to the site listener
          Worlds,      \* what a run may find: see World
          MaxSignals   \* bound: signals the process is sent

\* A world is the environment plus what the operating system will answer:
\*   pair      whether the PEM pair on disk loads (both files, matching)
\*   ports     which configured addresses can be bound
\*   pid1      whether the process is pid 1 of its container, for which an
\*             unhandled SIGTERM is ignored and not fatal
World == [env   : Environment,
          pair  : {"good", "bad"},
          ports : SUBSET {"site", "health", "redirect"},
          pid1  : BOOLEAN]

ASSUME ServerAssumption ==
  /\ Worlds \subseteq World
  /\ MaxSignals \in Nat

VARIABLES
  world,      \* fixed for the run
  pc,         \* where main is
  config,     \* the resolved configuration
  guard,      \* main's TelemetryGuard
  exit,       \* how the process is ending: "none" while it is not
  sigTask,    \* the task graceful_handle spawns
  pending,    \* a signal was delivered to an installed handler
  signals,    \* signals sent so far
  graceful,   \* Handle::graceful_shutdown was called
  tlsTask,    \* the spawned tls::serve
  address,    \* the handle's published address: "unset", "some" or "none"
  woken,      \* main's wait in Handle::listening was notified
  site,       \* the site listener
  expired,    \* the 10s drain bound ran out
  health,     \* the auxiliary listeners are up
  redirect,
  conn,       \* per connection
  span        \* per connection, its request's telemetry span

mainVars   == <<world, config, guard, exit>>
signalVars == <<sigTask, pending, signals, graceful>>
tlsVars    == <<tlsTask, address, woken>>
siteVars   == <<site, expired>>
auxVars    == <<health, redirect>>
connVars   == <<conn, span>>
vars == <<pc, mainVars, signalVars, tlsVars, siteVars, auxVars, connVars>>

-----------------------------------------------------------------------------
MainStates == {"install", "resolve", "bind", "health", "redirect", "serve",
               "listening", "waiting", "join", "drop", "teardown", "exited"}

Running == pc # "exited"
Tls     == config.tls
Live    == {"open", "busy"}          \* accepted connections axum-server counts
InFlight == {c \in Conns : conn[c] \in Live}

Init ==
  /\ world \in Worlds
  /\ pc = "install" /\ config = Unresolved /\ guard = "none" /\ exit = "none"
  /\ sigTask = "none" /\ pending = FALSE /\ signals = 0 /\ graceful = FALSE
  /\ tlsTask = "none" /\ address = "unset" /\ woken = FALSE
  /\ site = "unbound" /\ expired = FALSE
  /\ health = FALSE /\ redirect = FALSE
  /\ conn = [c \in Conns |-> "idle"]
  /\ span = [c \in Conns |-> "none"]

-----------------------------------------------------------------------------
(* main: startup *)

\* Everything buffered is handed to the exporter.
Flush == span' = [c \in Conns |-> IF span[c] = "buffered" THEN "exported" ELSE span[c]]

\* An `.expect` in main failed: the panic hook flushes, then the stack unwinds,
\* dropping the guard first.
Panic == pc' = "drop" /\ exit' = "panic" /\ Flush

InstallTelemetryStep ==
  /\ pc = "install"
  /\ LET result == InstallTelemetry(world.env) IN
     \/ /\ result.ok
        /\ pc' = "resolve"
        /\ guard' = result.is
        /\ UNCHANGED <<exit, span>>
     \/ /\ ~result.ok
        /\ Panic
        /\ UNCHANGED guard
  /\ UNCHANGED <<world, config, signalVars, tlsVars, siteVars, auxVars, conn>>

\* The resolvers, the limits and the router; with TLS also graceful_handle() and
\* the spawn of tls::serve, since main first awaits after them.
ResolveConfigStep ==
  /\ pc = "resolve"
  /\ LET result == ResolveConfig(world.env) IN
     \/ /\ ~result.ok
        /\ Panic
        /\ UNCHANGED <<config, sigTask, tlsTask>>
     \/ /\ result.ok
        /\ config' = result.is
        /\ UNCHANGED <<exit, span>>
        /\ IF result.is.tls
             THEN pc' = "listening" /\ sigTask' = "spawned" /\ tlsTask' = "loading"
             ELSE pc' = "bind" /\ UNCHANGED <<sigTask, tlsTask>>
  /\ UNCHANGED <<world, guard, pending, signals, graceful, address, woken,
                 siteVars, auxVars, conn>>

\* Slip: the plain arm accepts before the auxiliary listeners are bound.
BindSiteAccepting ==
  /\ pc = "bind" /\ "site" \in world.ports
  /\ site' = "accepting"
  /\ pc' = "health"
  /\ UNCHANGED <<world, config, guard, exit, signalVars, tlsVars, expired, auxVars, connVars>>

\* Plain arm: TcpListener::bind on the site address.
BindSite ==
  /\ pc = "bind"
  /\ \/ /\ "site" \in world.ports
        /\ site' = "bound"
        /\ pc' = "health"
        /\ UNCHANGED <<exit, span>>
     \/ /\ "site" \notin world.ports
        /\ Panic
        /\ UNCHANGED site
  /\ UNCHANGED <<world, config, guard, signalVars, tlsVars, expired, auxVars, conn>>

\* spawn_health_listener.
SpawnHealthListener ==
  /\ pc = "health"
  /\ \/ /\ ~config.health
        /\ pc' = "redirect"
        /\ UNCHANGED <<exit, health, span>>
     \/ /\ config.health /\ "health" \in world.ports
        /\ health' = TRUE
        /\ pc' = "redirect"
        /\ UNCHANGED <<exit, span>>
     \/ /\ config.health /\ "health" \notin world.ports
        /\ Panic
        /\ UNCHANGED health
  /\ UNCHANGED <<world, config, guard, signalVars, tlsVars, siteVars, redirect, conn>>

\* spawn_redirect_listener, and on the plain arm the graceful_handle() and
\* Server::serve that follow it without another await.
SpawnRedirectListener ==
  /\ pc = "redirect"
  /\ \/ /\ config.redirect /\ "redirect" \notin world.ports
        /\ Panic
        /\ UNCHANGED <<redirect, sigTask, address, site>>
     \/ /\ config.redirect => "redirect" \in world.ports
        /\ redirect' = config.redirect
        /\ UNCHANGED <<exit, span>>
        /\ IF Tls
             THEN pc' = "join" /\ UNCHANGED <<sigTask, address, site>>
             ELSE /\ pc' = "serve"
                  /\ sigTask' = "spawned"
                  /\ address' = "some"
                  /\ site' = "accepting"
  /\ UNCHANGED <<world, config, guard, pending, signals, graceful, tlsTask, woken,
                 expired, health, conn>>

-----------------------------------------------------------------------------
(* main: waiting for the site server *)

\* Slip: an address published already is not looked for.
StartListeningBlindly ==
  /\ pc = "listening"
  /\ pc' = "waiting"
  /\ UNCHANGED <<mainVars, signalVars, tlsVars, siteVars, auxVars, connVars>>

\* Handle::listening, first half: an address already published is returned at
\* once, anything else (unset, or None after a failed bind) is waited for.
StartListening ==
  /\ pc = "listening"
  /\ pc' = IF address = "some" THEN "health" ELSE "waiting"
  /\ UNCHANGED <<mainVars, signalVars, tlsVars, siteVars, auxVars, connVars>>

\* Slip: the published address is not looked at.
FinishListeningBlindly ==
  /\ pc = "waiting" /\ woken
  /\ pc' = "health"
  /\ UNCHANGED <<mainVars, signalVars, tlsVars, siteVars, auxVars, connVars>>

\* Second half: only a notification sent after the wait began resumes main, which
\* then skips the auxiliary listeners if no address was published.
FinishListening ==
  /\ pc = "waiting" /\ woken
  /\ pc' = IF address = "some" THEN "health" ELSE "join"
  /\ UNCHANGED <<mainVars, signalVars, tlsVars, siteVars, auxVars, connVars>>

\* server.await of the TLS arm, with its two expects.
JoinServer ==
  /\ pc = "join"
  /\ \/ tlsTask = "ok" /\ pc' = "drop" /\ exit' = "ok" /\ UNCHANGED span
     \/ tlsTask = "err" /\ Panic
  /\ UNCHANGED <<world, config, guard, signalVars, tlsVars, siteVars, auxVars, conn>>

\* server.serve(..).await of the plain arm.
ServeReturns ==
  /\ pc = "serve" /\ site = "closed"
  /\ pc' = "drop" /\ exit' = "ok"
  /\ UNCHANGED <<world, config, guard, signalVars, tlsVars, siteVars, auxVars, connVars>>

\* Slip: the providers are let go without being shut down.
DropGuardUnflushed ==
  /\ pc = "drop"
  /\ pc' = "teardown"
  /\ guard' = IF guard = "live" THEN "shutdown" ELSE guard
  /\ UNCHANGED <<world, config, exit, signalVars, tlsVars, siteVars, auxVars, connVars>>

\* `_telemetry` is dropped, on return and on unwinding alike: TelemetryGuard::drop
\* shuts the providers down, exporting what is buffered.
DropGuard ==
  /\ pc = "drop"
  /\ pc' = "teardown"
  /\ guard' = IF guard = "live" THEN "shutdown" ELSE guard
  /\ Flush
  /\ UNCHANGED <<world, config, exit, signalVars, tlsVars, siteVars, auxVars, conn>>

\* The process is gone: accepted connections are cut, queued ones reset, and no
\* span that had not been exported ever will be.
Vanish ==
  /\ pc' = "exited"
  /\ conn' = [c \in Conns |-> CASE conn[c] \in Live  -> "cut"
                                [] conn[c] = "queued" -> "reset"
                                [] OTHER              -> conn[c]]
  /\ span' = [c \in Conns |-> IF span[c] \in {"open", "buffered"} THEN "lost" ELSE span[c]]

\* The runtime is dropped with every task still on it, and the process exits.
Teardown ==
  /\ pc = "teardown"
  /\ Vanish
  /\ UNCHANGED <<mainVars, signalVars, tlsVars, siteVars, auxVars>>

-----------------------------------------------------------------------------
(* The task tls::serve runs on *)

\* Slip: the address is published but nobody is woken.
PublishSilently(a) == address' = a /\ UNCHANGED woken

\* Handle::notify_listening: publishes the address and wakes whoever is already
\* waiting; the notification is not stored for a later waiter.
NotifyListening(a) ==
  /\ address' = a
  /\ woken' = (woken \/ pc = "waiting")

\* Slip: a pair that does not load is served without.
LoadPemPairAnyway ==
  /\ Running /\ tlsTask = "loading"
  /\ tlsTask' = "binding"
  /\ UNCHANGED <<pc, mainVars, signalVars, address, woken, siteVars, auxVars, connVars>>

\* RustlsConfig::from_pem_file(..).await?: an error ends the task before the
\* handle ever reaches a server, so nothing is published.
LoadPemPair ==
  /\ Running /\ tlsTask = "loading"
  /\ tlsTask' = IF world.pair = "good" THEN "binding" ELSE "err"
  /\ UNCHANGED <<pc, mainVars, signalVars, address, woken, siteVars, auxVars, connVars>>

\* bind_rustls(..).serve: bind, publish, accept.
BindTls ==
  /\ Running /\ tlsTask = "binding"
  /\ \/ /\ "site" \in world.ports
        /\ NotifyListening("some")
        /\ site' = "accepting"
        /\ tlsTask' = "serving"
     \/ /\ "site" \notin world.ports
        /\ NotifyListening("none")
        /\ tlsTask' = "err"
        /\ UNCHANGED site
  /\ UNCHANGED <<pc, mainVars, signalVars, expired, auxVars, connVars>>

TlsServeReturns ==
  /\ Running /\ tlsTask = "serving" /\ site = "closed"
  /\ tlsTask' = "ok"
  /\ UNCHANGED <<pc, mainVars, signalVars, address, woken, siteVars, auxVars, connVars>>

-----------------------------------------------------------------------------
(* The signal task, and signals *)

\* shutdown_signal is first polled: the SIGINT and SIGTERM handlers are installed.
InstallHandlers ==
  /\ Running /\ sigTask = "spawned"
  /\ sigTask' = "armed"
  /\ UNCHANGED <<pc, mainVars, pending, signals, graceful, tlsVars, siteVars, auxVars, connVars>>

RelaySignal ==
  /\ Running /\ sigTask = "armed" /\ pending
  /\ sigTask' = "done" /\ graceful' = TRUE /\ pending' = FALSE
  /\ UNCHANGED <<pc, mainVars, signals, tlsVars, siteVars, auxVars, connVars>>

\* SIGTERM or SIGINT.  Once installed, the handlers stay, whether or not a task
\* still listens; before that the default action applies.
SendTerm ==
  /\ Running /\ signals < MaxSignals
  /\ signals' = signals + 1
  /\ \/ /\ sigTask \in {"armed", "done"}
        /\ pending' = TRUE
        /\ UNCHANGED <<pc, exit, connVars>>
     \/ /\ sigTask \notin {"armed", "done"} /\ world.pid1
        /\ UNCHANGED <<pc, exit, pending, connVars>>
     \/ /\ sigTask \notin {"armed", "done"} /\ ~world.pid1
        /\ Vanish /\ exit' = "killed"
        /\ UNCHANGED pending
  /\ UNCHANGED <<world, config, guard, sigTask, graceful, tlsVars, siteVars, auxVars>>

\* SIGKILL: the container engine's stop timeout, or the OOM killer.
SendKill ==
  /\ Running /\ signals < MaxSignals
  /\ signals' = signals + 1
  /\ Vanish /\ exit' = "killed"
  /\ UNCHANGED <<world, config, guard, sigTask, pending, graceful, tlsVars, siteVars, auxVars>>

-----------------------------------------------------------------------------
(* axum-server's accept loop and drain *)

StopAccepting ==
  /\ Running /\ site = "accepting" /\ graceful
  /\ site' = "draining"
  /\ UNCHANGED <<pc, mainVars, signalVars, tlsVars, expired, auxVars, connVars>>

\* Slip: the drain has no bound.
DrainUnbounded ==
  /\ Running /\ site = "draining" /\ InFlight = {}
  /\ site' = "closed"
  /\ UNCHANGED <<pc, mainVars, signalVars, tlsVars, expired, auxVars, connVars>>

\* wait_connections_end: the last counted connection ended, or the bound given to
\* graceful_shutdown ran out first.
DrainEnds ==
  /\ Running /\ site = "draining"
  /\ site' = "closed"
  /\ expired' = (InFlight # {})
  /\ UNCHANGED <<pc, mainVars, signalVars, tlsVars, auxVars, connVars>>

-----------------------------------------------------------------------------
(* Connections of the site listener *)

\* Where a request's span goes when it ends: to the batch buffer while the
\* providers run, nowhere once they are shut down.
EndSpan(c) ==
  span' = [span EXCEPT ![c] = IF span[c] # "open" THEN span[c]
                              ELSE IF guard = "live" THEN "buffered" ELSE "lost"]

\* A client's SYN is queued from the bind on; a queue nobody accepts from any
\* longer may refuse it, so connecting is never certain.
Connect(c) ==
  /\ Running /\ conn[c] = "idle"
  /\ site \in {"bound", "accepting", "draining"}
  /\ conn' = [conn EXCEPT ![c] = "queued"]
  /\ UNCHANGED <<pc, mainVars, signalVars, tlsVars, siteVars, auxVars, span>>

\* Slip: the queue is still served during the drain.
AcceptLate(c) ==
  /\ Running /\ conn[c] = "queued" /\ site \in {"accepting", "draining"}
  /\ conn' = [conn EXCEPT ![c] = "open"]
  /\ UNCHANGED <<pc, mainVars, signalVars, tlsVars, siteVars, auxVars, span>>

Accept(c) ==
  /\ Running /\ conn[c] = "queued" /\ site = "accepting"
  /\ conn' = [conn EXCEPT ![c] = "open"]
  /\ UNCHANGED <<pc, mainVars, signalVars, tlsVars, siteVars, auxVars, span>>

ReadRequest(c) ==
  /\ Running /\ conn[c] = "open"
  /\ conn' = [conn EXCEPT ![c] = "busy"]
  /\ span' = [span EXCEPT ![c] = IF guard \in {"live", "shutdown"} THEN "open" ELSE "none"]
  /\ UNCHANGED <<pc, mainVars, signalVars, tlsVars, siteVars, auxVars>>

\* The response is sent.
Respond(c) ==
  /\ Running /\ conn[c] = "busy"
  /\ conn' = [conn EXCEPT ![c] = "done"]
  /\ EndSpan(c)
  /\ UNCHANGED <<pc, mainVars, signalVars, tlsVars, siteVars, auxVars>>

\* The client goes away, the header-read timeout or an unanswered h2 ping closes
\* the connection, or a graceful shutdown closes an idle one.
CloseConn(c) ==
  /\ Running /\ conn[c] \in Live
  /\ conn' = [conn EXCEPT ![c] = "closed"]
  /\ EndSpan(c)
  /\ UNCHANGED <<pc, mainVars, signalVars, tlsVars, siteVars, auxVars>>

\* Handle::shutdown, called when the drain bound expires: connection tasks stop.
CutConn(c) ==
  /\ Running /\ expired /\ conn[c] \in Live
  /\ conn' = [conn EXCEPT ![c] = "cut"]
  /\ EndSpan(c)
  /\ UNCHANGED <<pc, mainVars, signalVars, tlsVars, siteVars, auxVars>>

\* The batch processors export on their own schedule.
ExportBatch ==
  /\ Running /\ guard = "live"
  /\ \E c \in Conns : span[c] = "buffered"
  /\ Flush
  /\ UNCHANGED <<pc, mainVars, signalVars, tlsVars, siteVars, auxVars, conn>>

-----------------------------------------------------------------------------
Main == \/ InstallTelemetryStep \/ ResolveConfigStep
        \/ BindSite \/ SpawnHealthListener \/ SpawnRedirectListener
        \/ StartListening \/ FinishListening \/ JoinServer \/ ServeReturns
        \/ DropGuard \/ Teardown
TlsTask    == LoadPemPair \/ BindTls \/ TlsServeReturns
SignalTask == InstallHandlers \/ RelaySignal
SiteLoop   == StopAccepting \/ DrainEnds
Signal     == SendTerm \/ SendKill
Connection == \E c \in Conns : \/ Connect(c) \/ Accept(c) \/ ReadRequest(c)
                               \/ Respond(c) \/ CloseConn(c) \/ CutConn(c)

Next == Main \/ TlsTask \/ SignalTask \/ SiteLoop \/ Signal \/ Connection \/ ExportBatch

Spec == Init /\ [][Next]_vars

\* The runtime keeps polling every task that can run, main included.  Nothing is
\* assumed of clients, of signals or of the exporters.
Fairness == WF_vars(Main) /\ WF_vars(TlsTask) /\ WF_vars(SignalTask) /\ WF_vars(SiteLoop)

FairSpec == Spec /\ Fairness

-----------------------------------------------------------------------------
(* Properties *)

TypeOK ==
  /\ world \in Worlds
  /\ pc \in MainStates
  /\ config \in [tls : BOOLEAN, health : BOOLEAN, base : BOOLEAN, redirect : BOOLEAN]
  /\ guard \in {"none", "inert", "live", "shutdown"}
  /\ exit \in {"none", "ok", "panic", "killed"}
  /\ sigTask \in {"none", "spawned", "armed", "done"}
  /\ pending \in BOOLEAN /\ graceful \in BOOLEAN
  /\ signals \in 0..MaxSignals
  /\ tlsTask \in {"none", "loading", "binding", "serving", "ok", "err"}
  /\ address \in {"unset", "some", "none"} /\ woken \in BOOLEAN
  /\ site \in {"unbound", "bound", "accepting", "draining", "closed"}
  /\ expired \in BOOLEAN /\ health \in BOOLEAN /\ redirect \in BOOLEAN
  /\ conn \in [Conns -> {"idle", "queued", "open", "busy", "done", "closed", "cut", "reset"}]
  /\ span \in [Conns -> {"none", "open", "buffered", "exported", "lost"}]

\* main.rs:171-172 and 191-192: neither the health nor the redirect listener
\* answers before the site socket is bound, on either arm and however the TLS
\* task, main and a shutdown interleave; and a redirect always has a target.
AuxAfterSite ==
  /\ health \/ redirect => site # "unbound"
  /\ redirect => config.base

\* A run ends well only if it was told to stop and the site listener had closed:
\* axum-server never returns Ok by itself and main never skips the join.
EndsWellOnlyWhenTold == exit = "ok" => graceful /\ site = "closed"

\* An accepted connection is cut only past the drain bound, or by a run that is
\* killed or panics - never by an orderly shutdown that still had time.
CutOnlyWhenLate == \A c \in Conns : conn[c] = "cut" => expired \/ exit \in {"panic", "killed"}

\* main.rs:230-231: after an orderly shutdown inside the bound, the span of every
\* request taken has been exported: the drain ends before the guard is dropped.
DrainedMeansExported ==
  pc = "exited" /\ exit = "ok" /\ ~expired =>
    \A c \in Conns : span[c] \in {"none", "exported"}

\* A panic that hits a site already taking connections comes only from an
\* auxiliary address that cannot be bound, and only with TLS: the plain arm binds
\* everything before it accepts, the TLS arm accepts first.
PanicWhileServing ==
  exit = "panic" /\ site \in {"accepting", "draining", "closed"} =>
    /\ Tls
    /\ \/ config.health /\ "health" \notin world.ports
       \/ config.redirect /\ "redirect" \notin world.ports

\* tls.rs:35-37: a run that declares TLS never serves plain http, one that does not
\* never serves TLS, and TLS is served only from a pair that loads.
ServesAsDeclared ==
  site # "unbound" => /\ Tls <=> world.env.siteTls = "on"
                      /\ Tls => world.pair = "good"

\* A value the resolvers call malformed.
Malformed(env) ==
  \/ env.leptos = "malformed"
  \/ env.otlp \in {"unbuildable", "malformed"}
  \/ env.siteTls = "other"
  \/ env.health = "malformed"
  \/ env.baseUrl \in {"empty", "malformed"}
  \/ env.redirect = "malformed"

\* Values that contradict each other: a certificate pair and the switch, a redirect
\* without a target, PROD without a public base URL.
Contradictory(env) ==
  \/ Filled(env.cert) # (env.siteTls = "on")
  \/ Filled(env.key) # (env.siteTls = "on")
  \/ env.leptos = "prod" /\ env.baseUrl # "bare"
  \/ Filled(env.redirect) /\ env.baseUrl # "bare"

Misconfigured(env) == Malformed(env) \/ Contradictory(env)

\* The resolvers' contract (tls.rs:75-105, http_redirect.rs:43-60, config.rs:16-28): no
\* listener comes up over a malformed value or over values that contradict each other.
MisconfigurationIsFatal == site # "unbound" => ~Misconfigured(world.env)

\* The startups that can leave main waiting for a notification that never comes:
\* a pair that does not load, and a failed bind announced before main waits.
MayStick == world.env.siteTls = "on" /\ (world.pair = "bad" \/ "site" \notin world.ports)

\* main.rs:152-160: outside those, every startup reaches serving or ends; main
\* does not miss the notification, whichever of it and the TLS task is first.
StartupSettles == ~MayStick => <>(pc \in {"join", "serve"} \/ ~Running)

\* main.rs:216-217: outside those, a relayed signal ends the process whatever its
\* clients do: the drain bound holds against connections that never finish.
ShutdownEnds == ~MayStick => (graceful ~> ~Running)

\* What a client sees of the run.
Phase ==
  CASE pc = "exited"                                     -> "over"
    [] pc # "exited" /\ site \in {"unbound", "bound"}    -> "starting"
    [] pc # "exited" /\ site = "accepting"               -> "serving"
    [] pc # "exited" /\ site \in {"draining", "closed"}  -> "draining"
Outcome == IF pc # "exited" THEN "none" ELSE IF exit = "ok" THEN "ok" ELSE "failed"
Client ==
  [c \in Conns |-> CASE conn[c] \in {"idle", "queued", "reset"} -> "waiting"
                     [] conn[c] \in Live                        -> "active"
                     [] conn[c] \in {"done", "closed"}          -> "finished"
                     [] conn[c] = "cut"                         -> "abandoned"]

\* The promise to clients, of SiteLifecycle: an orderly end abandons nobody who
\* was taken, unless the drain bound ran out first, and nobody is taken once the
\* run was told to stop.
Lifecycle == INSTANCE SiteLifecycle WITH
  phase <- Phase, outcome <- Outcome, late <- expired, client <- Client

ImplementsLifecycle == Lifecycle!Spec

\* main waits for a notification that the TLS task, having no more to announce, will
\* not send.
Stuck == /\ \/ pc = "listening" /\ address # "some"
            \/ pc = "waiting" /\ ~woken
         /\ tlsTask \notin {"loading", "binding"}

\* What the host sees of the run.
UnitPhase ==
  CASE ~Running                                                 -> "down"
    [] Running /\ Stuck                                         -> "stuck"
    [] Running /\ ~Stuck /\ site \in {"unbound", "bound"}       -> "loading"
    [] Running /\ ~Stuck /\ site \in {"draining", "closed"}     -> "stopping"
    [] Running /\ ~Stuck /\ site = "accepting"
         -> IF redirect = config.redirect THEN "open" ELSE "listening"

\* main.rs:152-160 and 191-192: however main and the TLS task interleave, main never
\* waits for a notification already sent - only a pair that does not load, or an address
\* that cannot be bound, leaves it waiting for ever, which nothing but the end of the
\* process ends - and the redirect answers only where the site does.
Unit == INSTANCE SiteUnit WITH phase <- UnitPhase, loadable <- ~MayStick

ImplementsRun == Unit!RunSpec

\* The providers, as one that holds what is buffered.
SpanFate == [c \in Conns |-> IF span[c] = "buffered" THEN "held" ELSE span[c]]
TracerState ==
  CASE ~Running                       -> "gone"
    [] Running /\ guard = "shutdown"  -> "down"
    [] Running /\ guard # "shutdown"  -> "up"

\* guard.rs:57-72: to the spans of this run the guard, its drop on every way out of main
\* and the panic hook are one provider, which holds nothing once it was dropped; what it
\* does with queues and batches is Telemetry's.
Tracer == INSTANCE RecordFate WITH Records <- Conns, fate <- SpanFate, state <- TracerState

ImplementsTracer == Tracer!Spec

-----------------------------------------------------------------------------
(* Claims of the repository's comments that the code does not keep *)

\* main.rs:154-156: on startup failure main will "join the server task, whose error
\* the expect below surfaces".
StartupFailureSurfaces == tlsTask = "err" ~> exit # "none"
=============================================================================
