----------------------------- MODULE Server_proofs -----------------------------
(***************************************************************************)
(* Proofs about Server, for every set of worlds and connections and every  *)
(* number of signals.                                                      *)
(***************************************************************************)
EXTENDS Server, TLAPS

ConfigType == [tls : BOOLEAN, health : BOOLEAN, base : BOOLEAN, redirect : BOOLEAN]

\* What the resolvers return, whatever the environment.
LEMMA InstallResult ==
  ASSUME NEW env, InstallTelemetry(env).ok
  PROVE  InstallTelemetry(env).is \in {"inert", "live"}
BY DEF InstallTelemetry, Try, ResolveTelemetryMode, ResolveTlsTrust, LoadTlsConfig,
       BuildProviders, Ok, Err

LEMMA SwitchResult ==
  ASSUME NEW raw, ResolveSwitch(raw).ok
  PROVE  /\ ResolveSwitch(raw).is.enabled = (Read(raw) = "on")
         /\ Filled(raw) => Read(raw) \in {"on", "off"}
BY DEF ResolveSwitch, Ok, Err, Filled

LEMMA ModeResult ==
  ASSUME NEW on \in BOOLEAN, NEW cert, NEW key, ResolveTlsMode(on, cert, key).ok
  PROVE  /\ (ResolveTlsMode(on, cert, key).is = "enabled") <=> on
         /\ Filled(cert) <=> on
         /\ Filled(key) <=> on
BY DEF ResolveTlsMode, Ok, Err, Filled

LEMMA HealthResult ==
  ASSUME NEW raw, ResolveHealthAddr(raw).ok
  PROVE  /\ ResolveHealthAddr(raw).is = (Read(raw) = "addr")
         /\ Filled(raw) => Read(raw) = "addr"
BY DEF ResolveHealthAddr, Ok, Err, Filled

LEMMA TlsConfigResult ==
  ASSUME NEW env, ResolveTlsConfig(env).ok
  PROVE  LET is == ResolveTlsConfig(env).is IN
         /\ (is.mode = "enabled") <=> (Read(env.siteTls) = "on")
         /\ is.health = (Read(env.health) = "addr")
         /\ Filled(env.siteTls) => Read(env.siteTls) \in {"on", "off"}
         /\ Filled(env.cert) <=> (Read(env.siteTls) = "on")
         /\ Filled(env.key) <=> (Read(env.siteTls) = "on")
         /\ Filled(env.health) => Read(env.health) = "addr"
<1> DEFINE switch == ResolveSwitch(env.siteTls)
           mode   == ResolveTlsMode(switch.is.enabled, env.cert, env.key)
           hp     == ResolveHealthAddr(env.health)
<1>1. /\ switch.ok /\ mode.ok /\ hp.ok
      /\ ResolveTlsConfig(env).is =
           [mode |-> mode.is, health |-> hp.is, source |-> switch.is.source]
  BY DEF ResolveTlsConfig, Try, Ok
<1>2. /\ switch.is.enabled = (Read(env.siteTls) = "on") /\ switch.is.enabled \in BOOLEAN
      /\ Filled(env.siteTls) => Read(env.siteTls) \in {"on", "off"}
  BY <1>1, SwitchResult
<1>3. /\ (mode.is = "enabled") <=> switch.is.enabled
      /\ Filled(env.cert) <=> switch.is.enabled
      /\ Filled(env.key) <=> switch.is.enabled
  <2> DEFINE on == switch.is.enabled
  <2>1. on \in BOOLEAN /\ ResolveTlsMode(on, env.cert, env.key).ok
    BY <1>1, <1>2
  <2> HIDE DEF on
  <2>2. /\ (ResolveTlsMode(on, env.cert, env.key).is = "enabled") <=> on
        /\ Filled(env.cert) <=> on
        /\ Filled(env.key) <=> on
    BY <2>1, ModeResult
  <2>3. QED
    BY <2>2 DEF on
<1>4. hp.is = (Read(env.health) = "addr") /\ (Filled(env.health) => Read(env.health) = "addr")
  BY <1>1, HealthResult
<1>5. ResolveTlsConfig(env).is.mode = mode.is /\ ResolveTlsConfig(env).is.health = hp.is
  BY <1>1
<1>6. switch.is.enabled <=> Read(env.siteTls) = "on"
  BY <1>2
<1> HIDE DEF switch, mode, hp
<1>7. QED
  BY <1>2, <1>3, <1>4, <1>5, <1>6

LEMMA BaseResult ==
  ASSUME NEW prod, NEW raw, ResolvePublicBaseUrl(prod, raw).ok
  PROVE  /\ ResolvePublicBaseUrl(prod, raw).is = (Read(raw) = "bare")
         /\ Read(raw) \in {"bare", "absent"}
         /\ prod => Read(raw) = "bare"
BY DEF ResolvePublicBaseUrl, Ok, Err

LEMMA RedirectResult ==
  ASSUME NEW raw, NEW base \in BOOLEAN, ResolveRedirect(raw, base).ok
  PROVE  /\ ResolveRedirect(raw, base).is = (Read(raw) = "addr")
         /\ Filled(raw) => Read(raw) = "addr" /\ base
         /\ Read(raw) = "addr" => base
BY DEF ResolveRedirect, Ok, Err, Filled

LEMMA ConfigResult ==
  ASSUME NEW env, ResolveConfig(env).ok
  PROVE  /\ ResolveConfig(env).is =
              [tls      |-> Read(env.siteTls) = "on",
               health   |-> Read(env.health) = "addr",
               base     |-> Read(env.baseUrl) = "bare",
               redirect |-> Read(env.redirect) = "addr"]
         /\ env.leptos # "malformed"
         /\ Filled(env.siteTls) => Read(env.siteTls) \in {"on", "off"}
         /\ Filled(env.cert) <=> (Read(env.siteTls) = "on")
         /\ Filled(env.key) <=> (Read(env.siteTls) = "on")
         /\ Filled(env.health) => Read(env.health) = "addr"
         /\ Read(env.baseUrl) \in {"bare", "absent"}
         /\ env.leptos = "prod" => Read(env.baseUrl) = "bare"
         /\ Filled(env.redirect) => Read(env.redirect) = "addr" /\ Read(env.baseUrl) = "bare"
         /\ Read(env.redirect) = "addr" => Read(env.baseUrl) = "bare"
<1> DEFINE tls  == ResolveTlsConfig(env)
           base == ResolvePublicBaseUrl(env.leptos = "prod", env.baseUrl)
           rd   == ResolveRedirect(env.redirect, base.is)
<1>1. /\ env.leptos # "malformed" /\ tls.ok /\ base.ok /\ rd.ok
      /\ ResolveConfig(env).is = [tls |-> tls.is.mode = "enabled", health |-> tls.is.health,
                                  base |-> base.is, redirect |-> rd.is]
  BY DEF ResolveConfig, Try, Ok, Err
<1>2. base.is = (Read(env.baseUrl) = "bare")
  BY <1>1, BaseResult
<1> HIDE DEF tls, base, rd
<1>3. /\ rd.is = (Read(env.redirect) = "addr")
      /\ Filled(env.redirect) => Read(env.redirect) = "addr" /\ base.is
      /\ Read(env.redirect) = "addr" => base.is
  BY <1>1, <1>2, RedirectResult DEF rd
<1>4. /\ tls.is.health = (Read(env.health) = "addr")
      /\ (tls.is.mode = "enabled") <=> (Read(env.siteTls) = "on")
  BY <1>1, TlsConfigResult DEF tls
<1>5. QED
  BY <1>1, <1>2, <1>3, <1>4, TlsConfigResult, BaseResult DEF tls, base

LEMMA ConfigTyped ==
  ASSUME NEW env, ResolveConfig(env).ok
  PROVE  LET is == ResolveConfig(env).is IN
         /\ is \in ConfigType
         /\ is.tls <=> Read(env.siteTls) = "on"
         /\ is.redirect => is.base
<1> DEFINE is == ResolveConfig(env).is
           tls == Read(env.siteTls) = "on"
           healthy == Read(env.health) = "addr"
           base == Read(env.baseUrl) = "bare"
           redirecting == Read(env.redirect) = "addr"
<1>1. /\ is = [tls |-> tls, health |-> healthy, base |-> base, redirect |-> redirecting]
      /\ redirecting => base
  BY ConfigResult
<1>2. tls \in BOOLEAN /\ healthy \in BOOLEAN /\ base \in BOOLEAN /\ redirecting \in BOOLEAN
  OBVIOUS
<1> HIDE DEF is, tls, healthy, base, redirecting
<1>3. is \in ConfigType /\ is.tls = tls /\ is.base = base /\ is.redirect = redirecting
  BY <1>1, <1>2 DEF ConfigType
<1>4. (is.tls <=> tls) /\ (is.redirect => is.base)
  BY <1>1, <1>3
<1>5. QED
  BY <1>3, <1>4 DEF is, tls

-----------------------------------------------------------------------------
(* The inductive invariant, in parts. *)

Opened == {"accepting", "draining", "closed"}
Ended  == {"drop", "teardown", "exited"}

\* Nothing is bound, and no TLS task runs, but over a configuration that resolved.
Configured ==
  /\ InstallTelemetry(world.env).ok /\ ResolveConfig(world.env).ok
  /\ config = ResolveConfig(world.env).is

Configuration ==
  /\ pc = "resolve" => InstallTelemetry(world.env).ok
  /\ pc \in {"bind", "health", "redirect", "serve", "listening", "waiting", "join"} => Configured
  /\ tlsTask # "none" \/ site # "unbound" => Configured

\* Which of main's states belong to which arm, and where each finds the site.
Arms ==
  /\ pc \in {"install", "resolve"} => tlsTask = "none" /\ site = "unbound"
  /\ pc \in {"bind", "serve"} => ~Tls
  /\ pc \in {"listening", "waiting", "join"} => Tls
  /\ (tlsTask # "none") <=> Tls
  /\ ~Tls /\ pc \in {"health", "redirect"} => site = "bound"
  /\ ~Tls /\ site \in Opened => pc \in {"serve"} \union Ended
  /\ Tls /\ pc \in {"health", "redirect"} => address = "some"

\* The site follows the TLS task, and the published address follows the site.
TlsListener ==
  /\ tlsTask \in {"loading", "binding", "err"} => site = "unbound"
  /\ tlsTask \in {"serving", "ok"} => site \in Opened
  /\ tlsTask = "ok" => site = "closed"
  /\ tlsTask \in {"binding", "serving", "ok"} => world.pair = "good"
  /\ (address = "some") <=> (site \in Opened)

\* Why the run is ending.
AuxUnbindable == \/ config.health /\ "health" \notin world.ports
                 \/ config.redirect /\ "redirect" \notin world.ports
Ending ==
  /\ pc \in {"drop", "teardown"} => exit \in {"ok", "panic"}
  /\ (pc \in Ended) <=> (exit # "none")
  /\ site \in {"draining", "closed"} => graceful
  /\ exit = "ok" => graceful /\ site = "closed"
  /\ exit = "panic" => \/ Tls /\ AuxUnbindable
                       \/ site \in {"unbound", "bound"} /\ tlsTask \in {"none", "err"}

\* The drain ends with nobody in flight, or late.
Drain ==
  /\ expired => site = "closed"
  /\ site = "closed" /\ ~expired => \A c \in Conns : conn[c] \notin Live

\* A span is open while its request is, buffered only while somebody exports.
Spans ==
  /\ pc = "install" => guard = "none"
  /\ guard = "shutdown" => pc \in {"teardown", "exited"}
  /\ pc = "teardown" => guard # "live"
  /\ \A c \in Conns :
       /\ span[c] = "open" => conn[c] = "busy" /\ guard \in {"live", "shutdown"}
       /\ span[c] = "buffered" => guard = "live"
       /\ span[c] = "lost" => guard = "shutdown" \/ pc = "exited"
       /\ exit = "ok" /\ ~expired => span[c] # "lost"
       /\ pc = "exited" => span[c] \notin {"open", "buffered"}

IInv == /\ TypeOK /\ Configuration /\ Arms /\ TlsListener /\ Ending
        /\ AuxAfterSite /\ Drain /\ CutOnlyWhenLate /\ Spans

-----------------------------------------------------------------------------
LEMMA InitIInv == Init => IInv
<1> SUFFICES ASSUME Init PROVE IInv
  OBVIOUS
<1>1. TypeOK
  <2>1. Unresolved \in ConfigType
    BY DEF Unresolved, ConfigType
  <2>2. /\ pending \in BOOLEAN /\ graceful \in BOOLEAN /\ woken \in BOOLEAN
        /\ expired \in BOOLEAN /\ health \in BOOLEAN /\ redirect \in BOOLEAN
    BY DEF Init
  <2>3. QED
    BY <2>1, <2>2, ServerAssumption DEF Init, TypeOK, MainStates, ConfigType
<1>2. Configuration /\ Arms /\ TlsListener /\ AuxAfterSite
  BY DEF Init, Configuration, Arms, TlsListener, AuxAfterSite, Tls, Opened, Unresolved
<1>3. Ending /\ Drain /\ CutOnlyWhenLate /\ Spans
  BY DEF Init, Ending, Ended, Drain, Live, CutOnlyWhenLate, Spans
<1>4. QED
  BY <1>1, <1>2, <1>3 DEF IInv

\* Steps of main.
LEMMA MainIInv == IInv /\ Main => IInv'
<1> SUFFICES ASSUME IInv, Main PROVE IInv'
  OBVIOUS
<1> USE DEF IInv, TypeOK, MainStates, Configuration, Configured, Arms, TlsListener, Ending,
            AuxUnbindable, AuxAfterSite, Drain, CutOnlyWhenLate, Spans, Opened, Ended, Live, Tls,
            mainVars, signalVars, tlsVars, siteVars, auxVars, connVars
<1>1. CASE InstallTelemetryStep
  <2>1. CASE InstallTelemetry(world.env).ok
    <3>1. guard' \in {"inert", "live"} /\ pc' = "resolve"
      BY <1>1, <2>1, InstallResult DEF InstallTelemetryStep
    <3>2. UNCHANGED <<world, config, exit, signalVars, tlsVars, siteVars, auxVars, connVars>>
      BY <1>1, <2>1 DEF InstallTelemetryStep
    <3>3. pc = "install"
      BY <1>1 DEF InstallTelemetryStep
    <3>4. TypeOK' /\ Configuration' /\ Arms' /\ TlsListener'
      BY <2>1, <3>1, <3>2, <3>3
    <3>5. AuxAfterSite' /\ Ending'
      BY <3>1, <3>2, <3>3
    <3>6. Drain' /\ CutOnlyWhenLate' /\ Spans'
      BY <3>1, <3>2, <3>3
    <3>7. QED
      BY <3>4, <3>5, <3>6
  <2>2. CASE ~InstallTelemetry(world.env).ok
    BY <1>1, <2>2 DEF InstallTelemetryStep, Panic, Flush
  <2>3. QED
    BY <2>1, <2>2
<1>2. CASE ResolveConfigStep
  <2>1. CASE ResolveConfig(world.env).ok
    <3>1. /\ config' = ResolveConfig(world.env).is /\ config' \in ConfigType
          /\ IF config'.tls THEN pc' = "listening" /\ sigTask' = "spawned" /\ tlsTask' = "loading"
                            ELSE pc' = "bind" /\ UNCHANGED <<sigTask, tlsTask>>
      BY <1>2, <2>1, ConfigTyped DEF ResolveConfigStep
    <3>2. /\ UNCHANGED <<world, guard, exit, pending, signals, graceful, address, woken>>
          /\ UNCHANGED <<siteVars, auxVars, connVars>>
      BY <1>2, <2>1 DEF ResolveConfigStep
    <3>3. pc = "resolve"
      BY <1>2 DEF ResolveConfigStep
    <3>4. TypeOK'
      BY <3>1, <3>2 DEF ConfigType
    <3>5. QED
      BY <2>1, <3>1, <3>2, <3>3, <3>4
  <2>2. CASE ~ResolveConfig(world.env).ok
    BY <1>2, <2>2 DEF ResolveConfigStep, Panic, Flush
  <2>3. QED
    BY <2>1, <2>2
<1>3. CASE BindSite
  BY <1>3 DEF BindSite, Panic, Flush
<1>4. CASE SpawnHealthListener
  <2>1. TypeOK'
    <3>1. health' \in BOOLEAN
      BY <1>4 DEF SpawnHealthListener
    <3>2. QED
      BY <1>4, <3>1 DEF SpawnHealthListener, Panic, Flush
  <2>2. Configuration' /\ Arms' /\ TlsListener'
    BY <1>4 DEF SpawnHealthListener, Panic, Flush
  <2>3. AuxAfterSite' /\ Ending'
    BY <1>4 DEF SpawnHealthListener, Panic, Flush
  <2>4. Drain' /\ CutOnlyWhenLate' /\ Spans'
    BY <1>4 DEF SpawnHealthListener, Panic, Flush
  <2>5. QED
    BY <2>1, <2>2, <2>3, <2>4
<1>5. CASE SpawnRedirectListener
  <2>1. config.redirect => config.base
    BY <1>5, ConfigTyped DEF SpawnRedirectListener
  <2>2. TypeOK' /\ Configuration' /\ Arms' /\ TlsListener'
    BY <1>5 DEF SpawnRedirectListener, Panic, Flush
  <2>3. AuxAfterSite' /\ Ending'
    BY <1>5, <2>1 DEF SpawnRedirectListener, Panic, Flush
  <2>4. Drain' /\ CutOnlyWhenLate' /\ Spans'
    BY <1>5 DEF SpawnRedirectListener, Panic, Flush
  <2>5. QED
    BY <2>2, <2>3, <2>4
<1>6. CASE StartListening
  BY <1>6 DEF StartListening
<1>7. CASE FinishListening
  BY <1>7 DEF FinishListening
<1>8. CASE JoinServer
  BY <1>8 DEF JoinServer, Panic, Flush
<1>9. CASE ServeReturns
  BY <1>9 DEF ServeReturns
<1>10. CASE DropGuard
  BY <1>10 DEF DropGuard, Flush
<1>11. CASE Teardown
  BY <1>11 DEF Teardown, Vanish
<1>12. QED
  BY <1>1, <1>2, <1>3, <1>4, <1>5, <1>6, <1>7, <1>8, <1>9, <1>10, <1>11 DEF Main

\* Steps of the TLS task, the signal task, the accept loop, and signals.
LEMMA TaskIInv == IInv /\ (TlsTask \/ SignalTask \/ SiteLoop \/ Signal) => IInv'
<1> SUFFICES ASSUME IInv, TlsTask \/ SignalTask \/ SiteLoop \/ Signal PROVE IInv'
  OBVIOUS
<1> USE DEF IInv, TypeOK, MainStates, Configuration, Configured, Arms, TlsListener, Ending,
            AuxUnbindable, AuxAfterSite, Drain, CutOnlyWhenLate, Spans, Opened, Ended, Live, Tls,
            Running, mainVars, signalVars, tlsVars, siteVars, auxVars, connVars
<1>1. CASE LoadPemPair
  BY <1>1 DEF LoadPemPair
<1>2. CASE BindTls
  BY <1>2 DEF BindTls, NotifyListening
<1>3. CASE TlsServeReturns
  BY <1>3 DEF TlsServeReturns
<1>4. CASE InstallHandlers
  BY <1>4 DEF InstallHandlers
<1>5. CASE RelaySignal
  <2>1. TypeOK'
    <3>1. pending' \in BOOLEAN /\ graceful' \in BOOLEAN
      BY <1>5 DEF RelaySignal
    <3>2. QED
      BY <1>5, <3>1 DEF RelaySignal
  <2>2. Configuration' /\ Arms' /\ TlsListener'
    BY <1>5 DEF RelaySignal
  <2>3. AuxAfterSite' /\ Ending'
    BY <1>5 DEF RelaySignal
  <2>4. Drain' /\ CutOnlyWhenLate' /\ Spans'
    BY <1>5 DEF RelaySignal
  <2>5. QED
    BY <2>1, <2>2, <2>3, <2>4
<1>6. CASE StopAccepting
  BY <1>6 DEF StopAccepting
<1>7. CASE DrainEnds
  <2>1. expired' \in BOOLEAN /\ (~expired' => \A c \in Conns : conn[c] \notin Live)
    BY <1>7 DEF DrainEnds, InFlight
  <2>2. site = "draining" /\ site' = "closed"
    BY <1>7 DEF DrainEnds
  <2>3. UNCHANGED <<pc, mainVars, signalVars, tlsVars, auxVars, connVars>>
    BY <1>7 DEF DrainEnds
  <2>4. TypeOK' /\ Configuration' /\ Arms' /\ TlsListener'
    BY <2>1, <2>2, <2>3
  <2>5. AuxAfterSite' /\ Ending'
    BY <2>2, <2>3
  <2>6. Drain' /\ CutOnlyWhenLate' /\ Spans'
    BY <2>1, <2>2, <2>3
  <2>7. QED
    BY <2>4, <2>5, <2>6
<1>8. CASE SendTerm
  <2>1. signals' \in 0..MaxSignals
    BY <1>8, ServerAssumption DEF SendTerm
  <2>2. CASE sigTask \in {"armed", "done"} \/ world.pid1
    <3>1. pending' \in BOOLEAN /\ UNCHANGED <<pc, exit, connVars>>
      BY <1>8, <2>2 DEF SendTerm
    <3>2. UNCHANGED <<world, config, guard, sigTask, graceful, tlsVars, siteVars, auxVars>>
      BY <1>8 DEF SendTerm
    <3>3. TypeOK' /\ Configuration' /\ Arms' /\ TlsListener'
      BY <2>1, <3>1, <3>2
    <3>4. AuxAfterSite' /\ Ending' /\ Drain' /\ CutOnlyWhenLate' /\ Spans'
      BY <3>1, <3>2
    <3>5. QED
      BY <3>3, <3>4
  <2>3. CASE ~(sigTask \in {"armed", "done"} \/ world.pid1)
    <3>1. /\ Vanish /\ exit' = "killed" /\ UNCHANGED pending
          /\ UNCHANGED <<world, config, guard, sigTask, graceful, tlsVars, siteVars, auxVars>>
      BY <1>8, <2>3 DEF SendTerm
    <3>2. TypeOK' /\ Configuration' /\ Arms' /\ TlsListener'
      BY <2>1, <3>1 DEF Vanish
    <3>3. AuxAfterSite' /\ Ending' /\ Drain' /\ CutOnlyWhenLate' /\ Spans'
      BY <3>1 DEF Vanish
    <3>4. QED
      BY <3>2, <3>3
  <2>4. QED
    BY <2>2, <2>3
<1>9. CASE SendKill
  BY <1>9, ServerAssumption DEF SendKill, Vanish
<1>10. QED
  BY <1>1, <1>2, <1>3, <1>4, <1>5, <1>6, <1>7, <1>8, <1>9
     DEF TlsTask, SignalTask, SiteLoop, Signal

\* Steps of the connections and the exporter.
LEMMA ConnIInv == IInv /\ (Connection \/ ExportBatch) => IInv'
<1> SUFFICES ASSUME IInv, Connection \/ ExportBatch PROVE IInv'
  OBVIOUS
<1> USE DEF IInv, TypeOK, MainStates, Configuration, Configured, Arms, TlsListener, Ending,
            AuxUnbindable, AuxAfterSite, Drain, CutOnlyWhenLate, Spans, Opened, Ended, Live, Tls,
            Running, mainVars, signalVars, tlsVars, siteVars, auxVars, connVars
<1>1. ASSUME NEW c \in Conns, Connect(c) PROVE IInv'
  BY <1>1 DEF Connect
<1>2. ASSUME NEW c \in Conns, Accept(c) PROVE IInv'
  BY <1>2 DEF Accept
<1>3. ASSUME NEW c \in Conns, ReadRequest(c) PROVE IInv'
  BY <1>3 DEF ReadRequest
<1>4. ASSUME NEW c \in Conns, Respond(c) PROVE IInv'
  BY <1>4 DEF Respond, EndSpan
<1>5. ASSUME NEW c \in Conns, CloseConn(c) PROVE IInv'
  BY <1>5 DEF CloseConn, EndSpan
<1>6. ASSUME NEW c \in Conns, CutConn(c) PROVE IInv'
  BY <1>6 DEF CutConn, EndSpan
<1>7. CASE ExportBatch
  BY <1>7 DEF ExportBatch, Flush
<1>8. QED
  BY <1>1, <1>2, <1>3, <1>4, <1>5, <1>6, <1>7 DEF Connection

LEMMA NextIInv == IInv /\ [Next]_vars => IInv'
<1>1. IInv /\ UNCHANGED vars => IInv'
  BY DEF vars, IInv, TypeOK, Configuration, Configured, Arms, TlsListener, Ending,
         AuxUnbindable, AuxAfterSite, Drain, CutOnlyWhenLate, Spans, Tls,
         mainVars, signalVars, tlsVars, siteVars, auxVars, connVars
<1>2. QED
  BY <1>1, MainIInv, TaskIInv, ConnIInv DEF Next

-----------------------------------------------------------------------------
(* What follows from it. *)

\* Every variable keeps its type.
THEOREM ServerTypes == Spec => []TypeOK
<1>1. IInv => TypeOK
  BY DEF IInv
<1>2. QED
  BY InitIInv, NextIInv, <1>1, PTL DEF Spec

\* main.rs:171-172 and 191-192: the auxiliary listeners never answer before the
\* site socket is bound, and a redirect has a target.
THEOREM AuxFollowsSite == Spec => []AuxAfterSite
<1>1. IInv => AuxAfterSite
  BY DEF IInv
<1>2. QED
  BY InitIInv, NextIInv, <1>1, PTL DEF Spec

\* A run that ends well was told to stop and had closed its listener.
THEOREM OrderlyEnd == Spec => []EndsWellOnlyWhenTold
<1>1. IInv => EndsWellOnlyWhenTold
  BY DEF IInv, Ending, EndsWellOnlyWhenTold
<1>2. QED
  BY InitIInv, NextIInv, <1>1, PTL DEF Spec

\* An orderly shutdown cuts no connection while it has time left.
THEOREM NoEarlyCut == Spec => []CutOnlyWhenLate
<1>1. IInv => CutOnlyWhenLate
  BY DEF IInv
<1>2. QED
  BY InitIInv, NextIInv, <1>1, PTL DEF Spec

\* main.rs:230-231: an orderly shutdown inside the bound has exported every span.
THEOREM DrainExports == Spec => []DrainedMeansExported
<1>1. IInv => DrainedMeansExported
  BY DEF IInv, TypeOK, Spans, DrainedMeansExported
<1>2. QED
  BY InitIInv, NextIInv, <1>1, PTL DEF Spec

\* A panic hits a serving site only over an auxiliary address, and only with TLS.
THEOREM PanicsBeforeServing == Spec => []PanicWhileServing
<1>1. IInv => PanicWhileServing
  BY DEF IInv, Ending, AuxUnbindable, PanicWhileServing
<1>2. QED
  BY InitIInv, NextIInv, <1>1, PTL DEF Spec

\* tls.rs:35-37: the site is served over the transport its environment declares,
\* and TLS only from a pair that loads.
THEOREM DeclaredTransport == Spec => []ServesAsDeclared
<1>1. IInv => ServesAsDeclared
  <2> SUFFICES ASSUME IInv, site # "unbound" PROVE ServesAsDeclared
    BY DEF ServesAsDeclared
  <2>1. Tls <=> Read(world.env.siteTls) = "on"
    BY ConfigTyped DEF IInv, Configuration, Configured, Tls
  <2>2. Read(world.env.siteTls) = "on" <=> world.env.siteTls = "on"
    BY DEF Read
  <2>3. Tls => world.pair = "good"
    BY DEF IInv, TypeOK, Arms, TlsListener
  <2>4. QED
    BY <2>1, <2>2, <2>3 DEF ServesAsDeclared
<1>2. QED
  BY InitIInv, NextIInv, <1>1, PTL DEF Spec

\* No listener comes up over a configuration its resolvers call wrong.
THEOREM OnlyResolvedServe == Spec => []MisconfigurationIsFatal
<1>1. IInv => MisconfigurationIsFatal
  <2> SUFFICES ASSUME IInv, site # "unbound" PROVE MisconfigurationIsFatal
    BY DEF MisconfigurationIsFatal
  <2> DEFINE env == world.env
  <2>1. InstallTelemetry(env).ok /\ ResolveConfig(env).ok
    BY DEF IInv, Configuration, Configured
  <2>2. env.otlp \notin {"unbuildable", "malformed"}
    BY <2>1 DEF InstallTelemetry, ResolveTelemetryMode, ResolveTlsTrust, LoadTlsConfig,
                BuildProviders, Try, Ok, Err, Filled, Read
  <2>3. /\ env.leptos # "malformed"
        /\ Filled(env.siteTls) => Read(env.siteTls) \in {"on", "off"}
        /\ Filled(env.health) => Read(env.health) = "addr"
        /\ Read(env.baseUrl) \in {"bare", "absent"}
        /\ env.leptos = "prod" => Read(env.baseUrl) = "bare"
        /\ Filled(env.redirect) => Read(env.redirect) = "addr" /\ Read(env.baseUrl) = "bare"
    BY <2>1, ConfigResult
  <2>4. /\ Filled(env.cert) <=> (Read(env.siteTls) = "on")
        /\ Filled(env.key) <=> (Read(env.siteTls) = "on")
    BY <2>1, ConfigResult
  <2>5. ~Malformed(env)
    BY <2>2, <2>3 DEF Malformed, Filled, Read
  <2>6. /\ Filled(env.cert) = (env.siteTls = "on")
        /\ Filled(env.key) = (env.siteTls = "on")
    BY <2>4 DEF Filled, Read
  <2>7. /\ env.leptos = "prod" => env.baseUrl = "bare"
        /\ Filled(env.redirect) => env.baseUrl = "bare"
    BY <2>3 DEF Read
  <2>8. QED
    BY <2>5, <2>6, <2>7 DEF MisconfigurationIsFatal, Misconfigured, Contradictory
<1>2. QED
  BY InitIInv, NextIInv, <1>1, PTL DEF Spec

-----------------------------------------------------------------------------
(* Refinement: the process keeps the promise of SiteLifecycle. *)

\* A step that leaves the exit, the drain bound, the connections and the phase
\* alone is invisible to clients.
LEMMA Invisible ==
  ASSUME pc # "exited", pc' # "exited", Phase' = Phase, UNCHANGED <<expired, conn>>
  PROVE  UNCHANGED Lifecycle!vars
BY DEF Lifecycle!vars, Outcome, Client, Live

LEMMA LifecycleInit == Init => Lifecycle!Init
BY DEF Init, Lifecycle!Init, Phase, Outcome, Client, Live

\* The end of the process ends the run: well, or as a failure.
LEMMA VanishEnds ==
  ASSUME IInv, pc # "exited", Vanish, UNCHANGED <<site, expired>>, exit' # "none",
         exit' = "ok" => exit = "ok"
  PROVE  Lifecycle!End \/ Lifecycle!Fail
<1>1. Phase' = "over" /\ Outcome' \in {"ok", "failed"} /\ (Outcome' = "ok" <=> exit' = "ok")
  BY DEF Vanish, Phase, Outcome
<1>2. Lifecycle!Drop
  BY DEF Vanish, Lifecycle!Drop, Client, IInv, TypeOK, Live
<1>3. CASE exit' = "ok"
  <2>1. site = "closed" /\ (~expired => \A c \in Conns : conn[c] \notin Live)
    BY <1>3 DEF IInv, Ending, Drain
  <2>2. Phase = "draining"
    BY <2>1 DEF Phase
  <2>3. ~expired => Lifecycle!Active = {}
    BY <2>1 DEF Lifecycle!Active, Client, IInv, TypeOK, Live
  <2>4. QED
    BY <1>1, <1>2, <1>3, <2>2, <2>3 DEF Lifecycle!End
<1>4. CASE exit' # "ok"
  <2>1. Phase # "over"
    BY DEF Phase, IInv, TypeOK
  <2>2. QED
    BY <1>1, <1>2, <1>4, <2>1 DEF Lifecycle!Fail
<1>5. QED
  BY <1>3, <1>4

LEMMA LifecycleStep == IInv /\ [Next]_vars => [Lifecycle!Next]_(Lifecycle!vars)
<1> SUFFICES ASSUME IInv, [Next]_vars PROVE Lifecycle!Next \/ UNCHANGED Lifecycle!vars
  OBVIOUS
<1> USE DEF mainVars, signalVars, tlsVars, siteVars, auxVars, connVars
<1>0. TypeOK /\ Arms /\ TlsListener /\ Ending /\ Drain
  BY DEF IInv
<1>1. CASE \/ InstallTelemetryStep \/ ResolveConfigStep \/ BindSite \/ SpawnHealthListener
           \/ StartListening \/ FinishListening \/ JoinServer \/ ServeReturns \/ DropGuard
  <2>1. pc # "exited" /\ pc' # "exited"
    BY <1>1 DEF InstallTelemetryStep, ResolveConfigStep, BindSite, SpawnHealthListener,
                StartListening, FinishListening, JoinServer, ServeReturns, DropGuard, Panic
  <2>2. UNCHANGED <<expired, conn>>
    BY <1>1 DEF InstallTelemetryStep, ResolveConfigStep, BindSite, SpawnHealthListener,
                StartListening, FinishListening, JoinServer, ServeReturns, DropGuard
  <2>3. site' = site \/ (site = "unbound" /\ site' = "bound")
    BY <1>0, <1>1 DEF InstallTelemetryStep, ResolveConfigStep, BindSite, SpawnHealthListener,
                StartListening, FinishListening, JoinServer, ServeReturns, DropGuard, Arms,
                Opened, Ended, TypeOK
  <2>4. Phase' = Phase
    BY <2>1, <2>3 DEF Phase
  <2>5. QED
    BY <2>1, <2>2, <2>4, Invisible
<1>2. CASE SpawnRedirectListener
  <2>1. pc # "exited" /\ pc' # "exited" /\ UNCHANGED <<expired, conn>>
    BY <1>2 DEF SpawnRedirectListener, Panic
  <2>2. CASE site' = site
    BY <2>1, <2>2, Invisible DEF Phase
  <2>3. CASE site' # site
    <3>1. site = "bound" /\ site' = "accepting"
      BY <1>0, <1>2, <2>3 DEF SpawnRedirectListener, Arms
    <3>2. Lifecycle!Open
      BY <2>1, <3>1 DEF Lifecycle!Open, Phase, Outcome, Client, Live
    <3>3. QED
      BY <3>2 DEF Lifecycle!Next
  <2>4. QED
    BY <2>2, <2>3
<1>3. CASE BindTls
  <2>1. pc # "exited" /\ UNCHANGED <<pc, exit, expired, conn>>
    BY <1>3 DEF BindTls, Running
  <2>2. CASE site' = site
    BY <2>1, <2>2, Invisible DEF Phase
  <2>3. CASE site' # site
    <3>1. site = "unbound" /\ site' = "accepting"
      BY <1>0, <1>3, <2>3 DEF BindTls, TlsListener
    <3>2. Lifecycle!Open
      BY <2>1, <3>1 DEF Lifecycle!Open, Phase, Outcome, Client, Live
    <3>3. QED
      BY <3>2 DEF Lifecycle!Next
  <2>4. QED
    BY <2>2, <2>3
<1>4. CASE StopAccepting
  <2>1. Lifecycle!Stop
    BY <1>4 DEF StopAccepting, Running, Lifecycle!Stop, Phase, Outcome, Client, Live
  <2>2. QED
    BY <2>1 DEF Lifecycle!Next
<1>5. CASE DrainEnds
  <2>1. /\ pc # "exited" /\ site = "draining" /\ site' = "closed" /\ ~expired
        /\ expired' = (InFlight # {}) /\ UNCHANGED <<pc, exit, conn>>
    BY <1>0, <1>5 DEF DrainEnds, Running, Drain
  <2>2. Phase = "draining" /\ Phase' = "draining"
    BY <2>1 DEF Phase
  <2>3. UNCHANGED <<Outcome, Client>>
    BY <2>1 DEF Outcome, Client, Live
  <2>4. CASE InFlight # {}
    <3>1. Lifecycle!Active # {}
      BY <2>4 DEF InFlight, Lifecycle!Active, Client, Live
    <3>2. expired' = TRUE
      BY <2>1, <2>4
    <3>3. Lifecycle!RunOut
      BY <2>2, <2>3, <3>1, <3>2 DEF Lifecycle!RunOut
    <3>4. QED
      BY <3>3 DEF Lifecycle!Next
  <2>5. CASE InFlight = {}
    <3>1. expired' = expired
      BY <1>0, <2>1, <2>5 DEF TypeOK
    <3>2. QED
      BY <2>2, <2>3, <3>1 DEF Lifecycle!vars
  <2>6. QED
    BY <2>4, <2>5
<1>6. CASE Teardown
  <2>1. Lifecycle!End \/ Lifecycle!Fail
    BY <1>0, <1>6, VanishEnds DEF Teardown, Ending, Ended
  <2>2. QED
    BY <2>1 DEF Lifecycle!Next
<1>7. CASE SendKill
  <2>1. Lifecycle!End \/ Lifecycle!Fail
    BY <1>7, VanishEnds DEF SendKill, Running
  <2>2. QED
    BY <2>1 DEF Lifecycle!Next
<1>8. CASE SendTerm
  <2>1. CASE UNCHANGED <<pc, exit, connVars>>
    BY <1>8, <2>1, Invisible DEF SendTerm, Running, Phase
  <2>2. CASE Vanish /\ exit' = "killed"
    <3>1. Lifecycle!End \/ Lifecycle!Fail
      BY <1>8, <2>2, VanishEnds DEF SendTerm, Running
    <3>2. QED
      BY <3>1 DEF Lifecycle!Next
  <2>3. QED
    BY <1>8, <2>1, <2>2 DEF SendTerm
<1>9. CASE LoadPemPair \/ TlsServeReturns \/ InstallHandlers \/ RelaySignal \/ ExportBatch
  <2>1. pc # "exited" /\ UNCHANGED <<pc, site, expired, conn>>
    BY <1>9 DEF LoadPemPair, TlsServeReturns, InstallHandlers, RelaySignal, ExportBatch, Running
  <2>2. QED
    BY <2>1, Invisible DEF Phase
<1>10. ASSUME NEW c \in Conns,
              Connect(c) \/ Accept(c) \/ ReadRequest(c) \/ Respond(c) \/ CloseConn(c) \/ CutConn(c)
       PROVE  Lifecycle!Next \/ UNCHANGED Lifecycle!vars
  <2>1. pc # "exited" /\ UNCHANGED <<pc, exit, site, expired>>
    BY <1>10 DEF Connect, Accept, ReadRequest, Respond, CloseConn, CutConn, Running
  <2>2. UNCHANGED <<Phase, Outcome>> /\ Phase # "over"
    BY <1>0, <2>1 DEF Phase, Outcome, TypeOK
  <2>3. CASE Connect(c) \/ ReadRequest(c)
    <3>1. Client' = Client
      BY <1>0, <2>3 DEF Connect, ReadRequest, TypeOK, Client, Live
    <3>2. QED
      BY <2>1, <2>2, <3>1 DEF Lifecycle!vars
  <2>4. CASE Accept(c)
    <3>1. Client[c] = "waiting" /\ Client' = [Client EXCEPT ![c] = "active"]
      BY <1>0, <2>4 DEF Accept, TypeOK, Client, Live
    <3>2. Phase = "serving"
      BY <2>1, <2>4 DEF Accept, Phase
    <3>3. Lifecycle!Take(c)
      BY <2>1, <2>2, <3>1, <3>2 DEF Lifecycle!Take
    <3>4. QED
      BY <3>3 DEF Lifecycle!Next
  <2>5. CASE Respond(c) \/ CloseConn(c)
    <3>1. Client[c] = "active" /\ Client' = [Client EXCEPT ![c] = "finished"]
      BY <1>0, <2>5 DEF Respond, CloseConn, TypeOK, Client, Live
    <3>2. Lifecycle!Finish(c)
      BY <2>1, <2>2, <3>1 DEF Lifecycle!Finish
    <3>3. QED
      BY <3>2 DEF Lifecycle!Next
  <2>6. CASE CutConn(c)
    <3>1. Client[c] = "active" /\ Client' = [Client EXCEPT ![c] = "abandoned"]
      BY <1>0, <2>6 DEF CutConn, TypeOK, Client, Live
    <3>2. Lifecycle!Abandon(c)
      BY <2>1, <2>2, <2>6, <3>1 DEF Lifecycle!Abandon, CutConn
    <3>3. QED
      BY <3>2 DEF Lifecycle!Next
  <2>7. QED
    BY <1>10, <2>3, <2>4, <2>5, <2>6
<1>11. CASE UNCHANGED vars
  BY <1>11 DEF vars, Lifecycle!vars, Phase, Outcome, Client, Live
<1>12. QED
  BY <1>1, <1>2, <1>3, <1>4, <1>5, <1>6, <1>7, <1>8, <1>9, <1>10, <1>11
     DEF Next, Main, TlsTask, SignalTask, SiteLoop, Signal, Connection

\* The process with all its tasks keeps the promise made to clients: it opens
\* once, takes nobody once told to stop, and ends well only with everybody it took
\* finished or the drain bound run out.
THEOREM KeepsLifecycle == Spec => ImplementsLifecycle
<1>1. Init => IInv
  BY InitIInv
<1>2. QED
  BY <1>1, NextIInv, LifecycleInit, LifecycleStep, PTL
     DEF Spec, ImplementsLifecycle, Lifecycle!Spec

-----------------------------------------------------------------------------
(* Refinement: one run of the process is a run of SiteUnit. *)

\* What IInv leaves out of the notification: nobody is woken before waiting, an address
\* published before the wait ends it, and the TLS task fails only where it must.
Notices ==
  /\ pc \in {"install", "resolve", "bind", "listening"} => ~woken
  /\ pc = "waiting" /\ address = "some" => woken
  /\ tlsTask = "err" => MayStick

\* A run that got to its listeners resolved the switch its environment sets.
LEMMA SwitchKept ==
  ASSUME IInv, Configured
  PROVE  Tls <=> world.env.siteTls = "on"
<1>1. Tls <=> Read(world.env.siteTls) = "on"
  BY ConfigTyped DEF Configured, Tls
<1>2. QED
  BY <1>1 DEF Read

LEMMA WorldStays == [Next]_vars => world' = world
BY DEF Next, Main, TlsTask, SignalTask, SiteLoop, Signal, Connection, vars, mainVars,
       InstallTelemetryStep, ResolveConfigStep, BindSite, SpawnHealthListener,
       SpawnRedirectListener, StartListening, FinishListening, JoinServer, ServeReturns,
       DropGuard, Teardown, LoadPemPair, BindTls, TlsServeReturns, InstallHandlers, RelaySignal,
       StopAccepting, DrainEnds, SendTerm, SendKill, Connect, Accept, ReadRequest, Respond,
       CloseConn, CutConn, ExportBatch

LEMMA NoticesInit == Init => Notices
BY DEF Init, Notices

LEMMA NoticesStep == IInv /\ Notices /\ [Next]_vars => Notices'
<1> SUFFICES ASSUME IInv, Notices, [Next]_vars PROVE Notices'
  OBVIOUS
<1> USE DEF mainVars, signalVars, tlsVars, siteVars, auxVars, connVars
<1>0. TypeOK /\ Arms /\ TlsListener /\ Configuration
  BY DEF IInv
<1>1. MayStick' = MayStick
  BY WorldStays DEF MayStick
<1>2. CASE LoadPemPair
  <2>1. tlsTask = "loading" /\ UNCHANGED <<pc, address, woken>>
    BY <1>2 DEF LoadPemPair
  <2>2. world.env.siteTls = "on"
    BY <1>0, <2>1, SwitchKept DEF Configuration, Arms
  <2>3. world.pair \in {"good", "bad"}
    BY <1>0, ServerAssumption DEF TypeOK, World
  <2>4. tlsTask' = "err" => MayStick
    BY <1>2, <2>2, <2>3 DEF LoadPemPair, MayStick
  <2>5. QED
    BY <1>1, <2>1, <2>4 DEF Notices
<1>3. CASE BindTls
  <2>1. tlsTask = "binding" /\ UNCHANGED pc
    BY <1>3 DEF BindTls
  <2>2. world.env.siteTls = "on"
    BY <1>0, <2>1, SwitchKept DEF Configuration, Arms
  <2>3. tlsTask' = "err" => MayStick
    BY <1>3, <2>2 DEF BindTls, MayStick
  <2>4. woken' = (woken \/ pc = "waiting")
    BY <1>3 DEF BindTls, NotifyListening
  <2>5. QED
    BY <1>1, <2>1, <2>3, <2>4 DEF Notices
<1>4. CASE StartListening
  BY <1>1, <1>4 DEF StartListening, Notices
<1>5. CASE ResolveConfigStep
  <2>1. tlsTask = "none" /\ pc = "resolve"
    BY <1>0, <1>5 DEF ResolveConfigStep, Arms
  <2>2. QED
    BY <1>1, <1>5, <2>1 DEF ResolveConfigStep, Panic, Notices
<1>6. CASE \/ InstallTelemetryStep \/ BindSite \/ SpawnHealthListener \/ SpawnRedirectListener
           \/ FinishListening \/ JoinServer \/ ServeReturns \/ DropGuard \/ Teardown
  <2>1. UNCHANGED <<tlsTask, woken>>
    BY <1>6 DEF InstallTelemetryStep, BindSite, SpawnHealthListener, SpawnRedirectListener,
         FinishListening, JoinServer, ServeReturns, DropGuard, Teardown
  <2>2. \/ pc' \in {"health", "redirect", "join", "serve", "drop", "teardown", "exited"}
        \/ pc = "install" /\ pc' = "resolve"
    BY <1>6 DEF InstallTelemetryStep, BindSite, SpawnHealthListener, SpawnRedirectListener,
         FinishListening, JoinServer, ServeReturns, DropGuard, Teardown, Vanish, Panic
  <2>3. QED
    BY <1>1, <2>1, <2>2 DEF Notices
<1>7. CASE \/ TlsServeReturns \/ SignalTask \/ SiteLoop \/ Signal \/ Connection \/ ExportBatch
  <2>1. /\ UNCHANGED <<address, woken>>
        /\ tlsTask' = "err" => tlsTask = "err"
        /\ pc' \in {pc, "exited"}
    BY <1>7 DEF TlsServeReturns, SignalTask, InstallHandlers, RelaySignal, SiteLoop,
         StopAccepting, DrainEnds, Signal, SendTerm, SendKill, Vanish, Connection, Connect,
         Accept, ReadRequest, Respond, CloseConn, CutConn, ExportBatch
  <2>2. QED
    BY <1>1, <2>1 DEF Notices
<1>8. CASE UNCHANGED vars
  BY <1>1, <1>8 DEF vars, Notices
<1>9. QED
  BY <1>2, <1>3, <1>4, <1>5, <1>6, <1>7, <1>8 DEF Next, Main, TlsTask

\* Main is stuck exactly when the TLS task failed and nobody told it.
LEMMA StuckMeans ==
  ASSUME IInv, Notices
  PROVE  /\ Stuck <=> pc \in {"listening", "waiting"} /\ tlsTask = "err" /\ ~woken
         /\ Stuck => MayStick /\ site = "unbound"
<1>0. TypeOK /\ Arms /\ TlsListener
  BY DEF IInv
<1>1. ASSUME Stuck PROVE pc \in {"listening", "waiting"} /\ tlsTask = "err" /\ ~woken
  <2>1. pc \in {"listening", "waiting"} /\ ~woken /\ address # "some"
    BY <1>1 DEF Stuck, Notices
  <2>2. tlsTask # "none" /\ tlsTask \notin {"serving", "ok"}
    BY <1>0, <2>1 DEF Arms, TlsListener
  <2>3. QED
    BY <1>0, <1>1, <2>1, <2>2 DEF Stuck, TypeOK
<1>2. ASSUME pc \in {"listening", "waiting"}, tlsTask = "err", ~woken PROVE Stuck
  <2>1. address # "some"
    BY <1>0, <1>2 DEF TlsListener, Opened
  <2>2. QED
    BY <1>2, <2>1 DEF Stuck
<1>3. Stuck => MayStick /\ site = "unbound"
  BY <1>0, <1>1 DEF Notices, TlsListener
<1>4. QED
  BY <1>1, <1>2, <1>3

\* Steps that the host does not see.
LEMMA UnitInvisible ==
  ASSUME IInv, Running, Running', ~Stuck, ~Stuck', world' = world,
         UNCHANGED <<site, redirect, config>> \/ {site, site'} \subseteq {"unbound", "bound"}
  PROVE  UNCHANGED Unit!vars
<1>1. UnitPhase' = UnitPhase
  <2>1. CASE UNCHANGED <<site, redirect, config>>
    BY <2>1 DEF UnitPhase
  <2>2. CASE {site, site'} \subseteq {"unbound", "bound"}
    BY <2>2 DEF UnitPhase
  <2>3. QED
    BY <2>1, <2>2
<1>2. MayStick' = MayStick
  BY DEF MayStick
<1>3. QED
  BY <1>1, <1>2 DEF Unit!vars

LEMMA RunInit == Init => UnitPhase = "loading"
BY DEF Init, UnitPhase, Running, Stuck

LEMMA RunStep == IInv /\ Notices /\ [Next]_vars => [Unit!RunNext]_(Unit!vars)
<1> SUFFICES ASSUME IInv, Notices, [Next]_vars PROVE Unit!RunNext \/ UNCHANGED Unit!vars
  OBVIOUS
<1> USE DEF mainVars, signalVars, tlsVars, siteVars, auxVars, connVars, Unit!Goto
<1>0. TypeOK /\ Arms /\ TlsListener /\ Configuration
  BY DEF IInv
<1>1. UNCHANGED MayStick
  BY WorldStays DEF MayStick
<1>2. CASE \/ InstallTelemetryStep \/ ResolveConfigStep \/ BindSite \/ SpawnHealthListener
           \/ FinishListening \/ JoinServer \/ ServeReturns \/ DropGuard
  <2>1. Running /\ pc # "listening" /\ (pc = "waiting" => woken)
    BY <1>2 DEF InstallTelemetryStep, ResolveConfigStep, BindSite, SpawnHealthListener,
         FinishListening, JoinServer, ServeReturns, DropGuard, Running
  <2>2. Running' /\ (pc' \in {"listening", "waiting"} => tlsTask' = "loading")
    BY <1>2 DEF InstallTelemetryStep, ResolveConfigStep, BindSite, SpawnHealthListener,
         FinishListening, JoinServer, ServeReturns, DropGuard, Running, Panic
  <2>3. ~Stuck /\ ~Stuck'
    BY <2>1, <2>2 DEF Stuck
  <2>4. UNCHANGED <<site, redirect, config>> \/ {site, site'} \subseteq {"unbound", "bound"}
    BY <1>0, <1>2 DEF InstallTelemetryStep, ResolveConfigStep, BindSite, SpawnHealthListener,
         FinishListening, JoinServer, ServeReturns, DropGuard, Arms, Opened, Ended, TypeOK
  <2>5. QED
    BY <2>1, <2>2, <2>3, <2>4, WorldStays, UnitInvisible
<1>3. CASE SpawnRedirectListener
  <2>1. Running /\ Running' /\ ~Stuck /\ ~Stuck'
    BY <1>3 DEF SpawnRedirectListener, Panic, Running, Stuck
  <2>2. CASE UNCHANGED redirect /\ UNCHANGED site
    BY <1>3, <2>1, <2>2, WorldStays, UnitInvisible DEF SpawnRedirectListener
  <2>3. CASE redirect' # redirect \/ site' # site
    <3>1. redirect' = config.redirect /\ config' = config
      BY <1>3, <2>3 DEF SpawnRedirectListener
    <3>2. CASE site' # site
      <4>1. ~Tls /\ site = "bound" /\ site' = "accepting"
        BY <1>0, <1>3, <3>2 DEF SpawnRedirectListener, Arms
      <4>2. ~MayStick
        BY <1>0, <1>3, <4>1, SwitchKept DEF SpawnRedirectListener, Configuration, MayStick
      <4>3. UnitPhase = "loading" /\ UnitPhase' = "open"
        BY <2>1, <3>1, <4>1 DEF UnitPhase
      <4>4. QED
        BY <1>1, <4>2, <4>3 DEF Unit!Listen, Unit!RunNext
    <3>3. CASE site' = site
      <4>1. UnitPhase' = UnitPhase \/ (UnitPhase = "listening" /\ UnitPhase' = "open")
        BY <1>0, <2>1, <3>1, <3>3 DEF UnitPhase, TypeOK
      <4>2. QED
        BY <1>1, <4>1 DEF Unit!Open, Unit!RunNext, Unit!vars
    <3>4. QED
      BY <3>2, <3>3
  <2>4. QED
    BY <2>2, <2>3
<1>4. CASE StartListening
  <2>1. Running /\ Running' /\ UNCHANGED <<site, redirect, config, tlsTask, address, woken>>
    BY <1>4 DEF StartListening, Running
  <2>2. Stuck' <=> Stuck
    BY <1>4, <2>1 DEF StartListening, Stuck, Notices
  <2>3. UnitPhase' = UnitPhase
    BY <2>1, <2>2 DEF UnitPhase
  <2>4. QED
    BY <1>1, <2>3 DEF Unit!vars
<1>5. CASE LoadPemPair
  <2>1. /\ Running /\ Running' /\ UNCHANGED <<site, redirect, config>>
        /\ site = "unbound" /\ ~Stuck
    BY <1>0, <1>5 DEF LoadPemPair, Running, Stuck, TlsListener
  <2>2. CASE ~Stuck'
    BY <2>1, <2>2, WorldStays, UnitInvisible
  <2>3. CASE Stuck'
    <3>1. MayStick
      BY <1>1, <1>5, <2>3, NoticesStep DEF LoadPemPair, Stuck, Notices
    <3>2. UnitPhase = "loading" /\ UnitPhase' = "stuck"
      BY <2>1, <2>3 DEF UnitPhase
    <3>3. QED
      BY <1>1, <3>1, <3>2 DEF Unit!Stick, Unit!RunNext
  <2>4. QED
    BY <2>2, <2>3
<1>6. CASE BindTls
  <2>1. /\ Running /\ Running' /\ UNCHANGED <<pc, redirect, config>>
        /\ site = "unbound" /\ tlsTask = "binding" /\ ~Stuck
    BY <1>0, <1>6 DEF BindTls, Running, Stuck, TlsListener
  <2>2. UnitPhase = "loading"
    BY <2>1 DEF UnitPhase
  <2>3. CASE tlsTask' = "serving"
    <3>1. site' = "accepting" /\ address' = "some" /\ (pc = "waiting" => woken')
      BY <1>6, <2>3 DEF BindTls, NotifyListening
    <3>2. ~Stuck'
      BY <2>1, <3>1 DEF Stuck
    <3>3. ~MayStick
      BY <1>0, <1>6, <2>1, <2>3 DEF BindTls, TlsListener, MayStick
    <3>4. UnitPhase' \in {"listening", "open"}
      BY <2>1, <3>1, <3>2 DEF UnitPhase
    <3>5. QED
      BY <1>1, <2>2, <3>3, <3>4 DEF Unit!Listen, Unit!RunNext
  <2>4. CASE tlsTask' # "serving"
    <3>1. tlsTask' = "err" /\ site' = "unbound"
      BY <1>6, <2>1, <2>4 DEF BindTls
    <3>2. CASE Stuck'
      <4>1. MayStick
        BY <1>1, <3>1, NoticesStep DEF Notices
      <4>2. UnitPhase' = "stuck"
        BY <2>1, <3>2 DEF UnitPhase
      <4>3. QED
        BY <1>1, <2>2, <4>1, <4>2 DEF Unit!Stick, Unit!RunNext
    <3>3. CASE ~Stuck'
      <4>1. UnitPhase' = "loading"
        BY <2>1, <3>1, <3>3 DEF UnitPhase
      <4>2. QED
        BY <1>1, <2>2, <4>1 DEF Unit!vars
    <3>4. QED
      BY <3>2, <3>3
  <2>5. QED
    BY <2>3, <2>4
<1>7. CASE StopAccepting
  <2>1. /\ Running /\ Running' /\ UNCHANGED <<pc, tlsVars, redirect, config>>
        /\ site = "accepting" /\ site' = "draining"
    BY <1>7 DEF StopAccepting, Running
  <2>2. ~Stuck /\ ~Stuck'
    BY <2>1, StuckMeans DEF Stuck
  <2>3. UnitPhase \in {"listening", "open"} /\ UnitPhase' = "stopping"
    BY <2>1, <2>2 DEF UnitPhase
  <2>4. QED
    BY <1>1, <2>3 DEF Unit!Stop, Unit!RunNext
<1>8. CASE DrainEnds
  <2>1. /\ Running /\ Running' /\ UNCHANGED <<pc, tlsVars, redirect, config>>
        /\ site = "draining" /\ site' = "closed"
    BY <1>8 DEF DrainEnds, Running
  <2>2. Stuck' <=> Stuck
    BY <2>1 DEF Stuck
  <2>3. UnitPhase' = UnitPhase
    BY <2>1, <2>2 DEF UnitPhase
  <2>4. QED
    BY <1>1, <2>3 DEF Unit!vars
<1>9. CASE (Teardown \/ SendKill \/ SendTerm) /\ Vanish
  <2>1. Running /\ ~Running'
    BY <1>9 DEF Teardown, SendKill, SendTerm, Vanish, Running
  <2>2. UnitPhase' = "down"
    BY <2>1 DEF UnitPhase
  <2>3. UnitPhase \in {"loading", "listening", "open", "stopping", "stuck"}
    BY <1>0, <2>1 DEF UnitPhase, TypeOK
  <2>4. QED
    BY <1>1, <2>2, <2>3 DEF Unit!End, Unit!Leave, Unit!RunNext
<1>10. CASE \/ TlsServeReturns \/ SignalTask \/ Connection \/ ExportBatch \/ UNCHANGED vars
            \/ SendTerm /\ UNCHANGED pc
  <2>1. /\ UNCHANGED <<pc, address, woken, site, redirect, config>>
        /\ tlsTask' = tlsTask \/ {tlsTask, tlsTask'} = {"serving", "ok"}
    BY <1>10 DEF TlsServeReturns, SignalTask, InstallHandlers, RelaySignal, Connection, Connect,
         Accept, ReadRequest, Respond, CloseConn, CutConn, ExportBatch, vars, SendTerm
  <2>2. (Stuck' <=> Stuck) /\ (Running' <=> Running)
    BY <2>1 DEF Stuck, Running
  <2>3. UnitPhase' = UnitPhase
    BY <2>1, <2>2 DEF UnitPhase
  <2>4. QED
    BY <1>1, <2>3 DEF Unit!vars
<1>11. /\ Teardown \/ SendKill => Vanish
       /\ SendTerm => Vanish \/ UNCHANGED pc
  BY DEF Teardown, SendKill, SendTerm
<1>12. QED
  BY <1>2, <1>3, <1>4, <1>5, <1>6, <1>7, <1>8, <1>9, <1>10, <1>11
     DEF Next, Main, TlsTask, SiteLoop, Signal

\* However the process' tasks interleave, the host sees a run of SiteUnit: main waits for
\* ever only over a pair that does not load or an address that cannot be bound, so never
\* for a notification it has missed (main.rs:152-160), and nothing of a run that waits so
\* comes up after all.
THEOREM RunsAsUnit == Spec => ImplementsRun
<1>1. (~MayStick) \in BOOLEAN
  BY DEF MayStick
<1>2. QED
  BY <1>1, InitIInv, NextIInv, NoticesInit, NoticesStep, RunInit, RunStep, PTL
     DEF Spec, ImplementsRun, Unit!RunSpec

\* main.rs:157-160: a run that is left waiting so is ended by no signal it handles and by no
\* task of its own, only by a kill.
StuckUntilKilled == [][Stuck => Stuck' \/ exit' = "killed"]_vars

\* Nothing but a kill ends a run that waits for ever, the relayed SIGTERM included.
THEOREM StuckStays == Spec => StuckUntilKilled
<1>1. ASSUME IInv, Notices, [Next]_vars, Stuck PROVE Stuck' \/ exit' = "killed"
  <2> USE DEF mainVars, signalVars, tlsVars, siteVars, auxVars, connVars
  <2>1. pc \in {"listening", "waiting"} /\ tlsTask = "err" /\ ~woken /\ address # "some"
    BY <1>1, StuckMeans DEF Stuck, Notices
  <2>2. CASE UNCHANGED <<pc, tlsVars>>
    BY <1>1, <2>2 DEF Stuck
  <2>3. CASE StartListening
    BY <2>1, <2>3 DEF StartListening, Stuck
  <2>4. CASE Signal
    BY <1>1, <2>2, <2>4 DEF Signal, SendTerm, SendKill
  <2>5. UNCHANGED <<pc, tlsVars>> \/ StartListening \/ Signal
    BY <1>1, <2>1 DEF Next, Main, TlsTask, SignalTask, SiteLoop, Connection, vars,
         InstallTelemetryStep, ResolveConfigStep, BindSite, SpawnHealthListener,
         SpawnRedirectListener, FinishListening, JoinServer, ServeReturns, DropGuard, Teardown,
         LoadPemPair, BindTls, TlsServeReturns, InstallHandlers, RelaySignal, StopAccepting,
         DrainEnds, Connect, Accept, ReadRequest, Respond, CloseConn, CutConn, ExportBatch
  <2>6. QED
    BY <2>2, <2>3, <2>4, <2>5
<1>2. QED
  BY <1>1, InitIInv, NextIInv, NoticesInit, NoticesStep, PTL DEF Spec, StuckUntilKilled

-----------------------------------------------------------------------------
(* Refinement: to its spans, the run is one provider of RecordFate. *)

\* No span before the request.
Unread == \A c \in Conns : conn[c] \in {"idle", "queued", "open"} => span[c] = "none"

LEMMA UnreadInit == Init => Unread
BY DEF Init, Unread

LEMMA UnreadStep == IInv /\ Unread /\ [Next]_vars => Unread'
<1> SUFFICES ASSUME IInv, Unread, [Next]_vars PROVE Unread'
  OBVIOUS
<1> USE DEF mainVars, signalVars, tlsVars, siteVars, auxVars, connVars
<1>0. /\ conn \in [Conns -> {"idle", "queued", "open", "busy", "done", "closed", "cut", "reset"}]
      /\ span \in [Conns -> {"none", "open", "buffered", "exported", "lost"}]
  BY DEF IInv, TypeOK
<1>1. CASE UNCHANGED conn /\ (Flush \/ UNCHANGED span)
  BY <1>1 DEF Unread, Flush
<1>2. CASE Vanish
  BY <1>0, <1>2 DEF Unread, Vanish, Live
<1>3. CASE Connection
  <2>1. PICK c \in Conns :
          \/ Connect(c) \/ Accept(c) \/ ReadRequest(c) \/ Respond(c) \/ CloseConn(c) \/ CutConn(c)
    BY <1>3 DEF Connection
  <2>2. \A d \in Conns : d # c => conn'[d] = conn[d] /\ span'[d] = span[d]
    BY <1>0, <2>1 DEF Connect, Accept, ReadRequest, Respond, CloseConn, CutConn, EndSpan
  <2>3. \/ conn'[c] \in {"queued", "open"} /\ conn[c] \in {"idle", "queued"} /\ span' = span
        \/ conn'[c] \in {"busy", "done", "closed", "cut"}
    BY <1>0, <2>1 DEF Connect, Accept, ReadRequest, Respond, CloseConn, CutConn
  <2>4. QED
    BY <2>2, <2>3 DEF Unread
<1>4. \/ UNCHANGED conn /\ (Flush \/ UNCHANGED span)
      \/ Vanish \/ Connection
  BY DEF Next, Main, TlsTask, SignalTask, SiteLoop, Signal, vars, Panic,
     InstallTelemetryStep, ResolveConfigStep, BindSite, SpawnHealthListener,
     SpawnRedirectListener, StartListening, FinishListening, JoinServer, ServeReturns, DropGuard,
     Teardown, LoadPemPair, BindTls, TlsServeReturns, InstallHandlers, RelaySignal, SendTerm,
     SendKill, StopAccepting, DrainEnds, ExportBatch
<1>5. QED
  BY <1>1, <1>2, <1>3, <1>4

LEMMA TracerInit == Init => Tracer!Init
BY DEF Init, Tracer!Init, SpanFate, TracerState, Running

\* A flush sends all that is held, and that is nothing unless the providers are live.
LEMMA AllSent ==
  ASSUME IInv, Flush
  PROVE  Tracer!Send(Tracer!HeldRecords)
<1>1. Tracer!HeldRecords = {c \in Conns : span[c] = "buffered"}
  BY DEF Tracer!HeldRecords, SpanFate, IInv, TypeOK
<1>2. SpanFate' = [c \in Conns |-> IF c \in Tracer!HeldRecords THEN "exported" ELSE SpanFate[c]]
  BY <1>1 DEF SpanFate, Flush
<1>3. QED
  BY <1>2 DEF Tracer!Send

LEMMA NothingSent ==
  ASSUME IInv, guard # "live", Flush \/ UNCHANGED span
  PROVE  SpanFate' = SpanFate
BY DEF IInv, Spans, Flush, SpanFate

\* One span that is begun, ended or untouched.
LEMMA OneSpan ==
  ASSUME IInv, NEW c \in Conns, NEW to \in {"none", "open", "buffered", "lost"},
         span' = [span EXCEPT ![c] = to]
  PROVE  SpanFate' = [SpanFate EXCEPT ![c] = IF to = "buffered" THEN "held" ELSE to]
BY DEF SpanFate, IInv, TypeOK

LEMMA TracerStep == IInv /\ Unread /\ [Next]_vars => [Tracer!Next]_(Tracer!vars)
<1> SUFFICES ASSUME IInv, Unread, [Next]_vars PROVE Tracer!Next \/ UNCHANGED Tracer!vars
  OBVIOUS
<1> USE DEF mainVars, signalVars, tlsVars, siteVars, auxVars, connVars
<1>0. TypeOK /\ Spans
  BY DEF IInv
<1>1. CASE DropGuard
  <2>1. Running /\ Running' /\ guard' = (IF guard = "live" THEN "shutdown" ELSE guard) /\ Flush
    BY <1>1 DEF DropGuard, Running
  <2>2. CASE guard = "live"
    <3>1. TracerState = "up" /\ TracerState' = "down"
      BY <2>1, <2>2 DEF TracerState
    <3>2. Tracer!Send(Tracer!HeldRecords)
      BY <2>1, AllSent
    <3>3. QED
      BY <3>1, <3>2 DEF Tracer!ShutDown, Tracer!Next
  <2>3. CASE guard # "live"
    <3>1. TracerState' = TracerState
      BY <2>1, <2>3 DEF TracerState
    <3>2. QED
      BY <2>1, <2>3, <3>1, NothingSent DEF Tracer!vars
  <2>4. QED
    BY <2>2, <2>3
<1>2. CASE Vanish /\ Running
  <2>1. TracerState # "gone" /\ TracerState' = "gone"
    BY <1>2 DEF Vanish, Running, TracerState
  <2>2. SpanFate' = [c \in Conns |-> IF SpanFate[c] \in {"open", "held"} THEN "lost"
                                    ELSE SpanFate[c]]
    BY <1>0, <1>2 DEF Vanish, SpanFate, TypeOK
  <2>3. QED
    BY <2>1, <2>2 DEF Tracer!Vanish, Tracer!Next
<1>3. CASE Connection
  <2>1. PICK c \in Conns :
          \/ Connect(c) \/ Accept(c) \/ ReadRequest(c) \/ Respond(c) \/ CloseConn(c) \/ CutConn(c)
    BY <1>3 DEF Connection
  <2>2. Running /\ UNCHANGED <<pc, guard>>
    BY <2>1 DEF Connect, Accept, ReadRequest, Respond, CloseConn, CutConn
  <2>3. UNCHANGED TracerState /\ TracerState # "gone" /\ (guard = "live" => TracerState = "up")
    BY <2>2 DEF TracerState, Running
  <2>4. CASE UNCHANGED span
    BY <2>3, <2>4 DEF SpanFate, Tracer!vars
  <2>5. CASE ReadRequest(c) /\ guard \in {"live", "shutdown"}
    <3>1. span[c] = "none" /\ span' = [span EXCEPT ![c] = "open"]
      BY <2>5 DEF ReadRequest, Unread
    <3>2. SpanFate[c] = "none" /\ SpanFate' = [SpanFate EXCEPT ![c] = "open"]
      BY <3>1, OneSpan DEF SpanFate
    <3>3. QED
      BY <2>3, <3>2 DEF Tracer!Begin, Tracer!Next
  <2>6. CASE EndSpan(c) /\ span[c] = "open"
    <3>1. SpanFate[c] = "open"
      BY <2>6 DEF SpanFate
    <3>2. CASE guard = "live"
      <4>1. SpanFate' = [SpanFate EXCEPT ![c] = "held"]
        BY <2>6, <3>2, OneSpan DEF EndSpan
      <4>2. QED
        BY <2>3, <3>1, <3>2, <4>1 DEF Tracer!Offer, Tracer!Next
    <3>3. CASE guard # "live"
      <4>1. SpanFate' = [SpanFate EXCEPT ![c] = "lost"]
        BY <2>6, <3>3, OneSpan DEF EndSpan
      <4>2. QED
        BY <2>3, <3>1, <4>1 DEF Tracer!Offer, Tracer!Next
    <3>4. QED
      BY <3>2, <3>3
  <2>7. \/ UNCHANGED span
        \/ ReadRequest(c) /\ guard \in {"live", "shutdown"}
        \/ EndSpan(c) /\ span[c] = "open"
    <3>1. CASE ReadRequest(c) /\ guard \notin {"live", "shutdown"}
      <4>1. span[c] = "none" /\ span' = [span EXCEPT ![c] = "none"]
        BY <3>1 DEF ReadRequest, Unread
      <4>2. QED
        BY <1>0, <4>1 DEF TypeOK
    <3>2. CASE EndSpan(c) /\ span[c] # "open"
      <4>1. span' = [span EXCEPT ![c] = span[c]]
        BY <3>2 DEF EndSpan
      <4>2. QED
        BY <1>0, <4>1 DEF TypeOK
    <3>3. QED
      BY <2>1, <3>1, <3>2 DEF Connect, Accept, Respond, CloseConn, CutConn
  <2>8. QED
    BY <2>4, <2>5, <2>6, <2>7
<1>4. CASE /\ Flush \/ UNCHANGED span
           /\ Running <=> Running'
           /\ (guard' = "shutdown") <=> (guard = "shutdown")
           /\ Running \/ UNCHANGED span
  <2>1. TracerState' = TracerState /\ (Running /\ guard = "live" => TracerState = "up")
    BY <1>4 DEF TracerState
  <2>2. CASE SpanFate' = SpanFate
    BY <2>1, <2>2 DEF Tracer!vars
  <2>3. CASE SpanFate' # SpanFate
    <3>1. guard = "live" /\ Running /\ Tracer!Send(Tracer!HeldRecords)
      BY <1>4, <2>3, NothingSent, AllSent DEF SpanFate
    <3>2. Tracer!Export
      BY <2>1, <3>1 DEF Tracer!Export
    <3>3. QED
      BY <3>2 DEF Tracer!Next
  <2>4. QED
    BY <2>2, <2>3
<1>5. CASE Main \/ ExportBatch
  <2>1. CASE InstallTelemetryStep
    <3>1. pc = "install" /\ guard = "none" /\ pc' \in {"resolve", "drop"}
      BY <1>0, <2>1 DEF InstallTelemetryStep, Spans, Panic
    <3>2. guard' \in {"none", "inert", "live"}
      BY <2>1, <3>1, InstallResult DEF InstallTelemetryStep
    <3>3. Flush \/ UNCHANGED span
      BY <2>1 DEF InstallTelemetryStep, Panic
    <3>4. QED
      BY <1>4, <3>1, <3>2, <3>3 DEF Running
  <2>2. CASE Main /\ ~InstallTelemetryStep /\ ~DropGuard /\ ~Teardown
    <3>1. Running /\ Running' /\ UNCHANGED guard /\ (Flush \/ UNCHANGED span)
      BY <2>2 DEF Main, ResolveConfigStep, BindSite, SpawnHealthListener, SpawnRedirectListener,
           StartListening, FinishListening, JoinServer, ServeReturns, Panic, Running
    <3>2. QED
      BY <1>4, <3>1
  <2>3. CASE ExportBatch
    BY <1>4, <2>3 DEF ExportBatch, Running
  <2>4. QED
    BY <1>1, <1>2, <1>5, <2>1, <2>2, <2>3 DEF Teardown, Running
<1>6. CASE TlsTask \/ SignalTask \/ SiteLoop \/ Signal \/ UNCHANGED vars
  <2>1. \/ Vanish /\ Running
        \/ UNCHANGED <<pc, guard, span>>
    BY <1>6 DEF TlsTask, SignalTask, SiteLoop, Signal, vars, LoadPemPair, BindTls,
         TlsServeReturns, InstallHandlers, RelaySignal, SendTerm, SendKill, StopAccepting, DrainEnds
  <2>2. QED
    BY <1>2, <1>4, <2>1 DEF Running
<1>7. QED
  BY <1>3, <1>5, <1>6 DEF Next

\* guard.rs:57-72: to the spans of the requests the whole run, however it ends, is one
\* provider: each is exported once or lost once, and whatever the providers hold when main
\* returns or unwinds, the guard's drop exports.
THEOREM TracerKeepsSpans == Spec => ImplementsTracer
BY InitIInv, NextIInv, UnreadInit, UnreadStep, TracerInit, TracerStep, PTL
   DEF Spec, ImplementsTracer, Tracer!Spec

\* main.rs:230-231: no way out of main exports a request's span twice, loses one that was
\* exported, or lets the guard's drop leave one in its buffer.
THEOREM SpansSettle == Spec => Tracer!OutcomesAreFinal /\ Tracer!DownIsEmpty
<1>1. [Tracer!Next]_(Tracer!vars) => [Tracer!SettledStay]_(Tracer!vars)
  <2>1. SpanFate = [c \in Conns |-> SpanFate[c]]
    BY DEF SpanFate
  <2>2. QED
    BY <2>1 DEF Tracer!Next, Tracer!Begin, Tracer!Offer, Tracer!Export, Tracer!ShutDown,
       Tracer!Fail, Tracer!Vanish, Tracer!Send, Tracer!HeldRecords, Tracer!SettledStay
<1>2. IInv => (TracerState = "down" => Tracer!HeldRecords = {})
  BY DEF IInv, TypeOK, Spans, TracerState, SpanFate, Tracer!HeldRecords
<1>3. QED
  BY <1>1, <1>2, TracerKeepsSpans, InitIInv, NextIInv, PTL
     DEF Spec, ImplementsTracer, Tracer!Spec, Tracer!OutcomesAreFinal, Tracer!DownIsEmpty
=============================================================================
