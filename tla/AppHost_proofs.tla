---------------------------- MODULE AppHost_proofs ----------------------------
(***************************************************************************)
(* Proofs about AppHost, for every set of ports and default.               *)
(***************************************************************************)
EXTENDS AppHost, TLAPS

\* The inductive invariant: what is known of the configuration once it is accepted, of the
\* endpoints once they are declared, of each callback's part of the environment until it
\* has run and afterwards, and of the listeners once the server is up.
HasRead  == phase \notin {"reading", "failed"}
HasWired == phase \in {"composing", "serving", "exited"}
Started  == phase \in {"serving", "exited"}
SitePort == IF serveTls THEN endpoints.https ELSE endpoints.http

Configured ==
  HasRead =>
    /\ {config.site, config.reload, config.health} \subseteq Ports
    /\ config.site # config.reload /\ config.site # config.health
    /\ config.reload # config.health
Declared ==
  HasWired =>
    /\ endpoints = [http   |-> IF serveTls THEN 0 ELSE config.site,
                    https  |-> IF serveTls THEN config.site ELSE 0,
                    reload |-> config.reload,
                    health |-> IF serveTls THEN config.health ELSE 0]
    /\ probe = (IF serveTls THEN "health" ELSE "http")
    /\ Started => pending = {}
    /\ "certificate" \in pending => serveTls
Composed ==
  /\ env.leptos = "dev" /\ env.redirect = "absent" /\ env.debug = TRUE
  /\ ~HasWired => env = BareEnvironment
  /\ HasWired /\ "otlp" \notin pending => env.otlp \in {"http", "https"}
  /\ HasWired /\ serveTls /\ "certificate" \notin pending =>
       env.cert = "path" /\ env.key = "path" /\ env.ca = "pem"
  /\ HasWired /\ ~serveTls => env.cert = "absent" /\ env.key = "absent"
  /\ HasWired /\ "environment" \notin pending =>
       /\ env.siteTls = (IF serveTls THEN "on" ELSE "off")
       /\ env.health  = (IF serveTls THEN "addr" ELSE "absent")
       /\ env.baseUrl = (IF ambientBase \in {"absent", "blank"} THEN "bare" ELSE ambientBase)
       /\ addr = [site |-> SitePort, reload |-> endpoints.reload, health |-> endpoints.health,
                  base |-> DefaultBase(SitePort)]
Up ==
  /\ phase = "serving" =>
       /\ [port |-> config.site, tls |-> serveTls, pages |-> TRUE] \in listens
       /\ serveTls => [port |-> config.health, tls |-> FALSE, pages |-> FALSE] \in listens
  /\ ~Started => health = "unknown"
IInv == TypeOK /\ Configured /\ Declared /\ Composed /\ Up /\ RunsWhatItAccepts /\ ProbeReaches

-----------------------------------------------------------------------------
(* What the server makes of a composed environment *)

LEMMA TelemetryInstalls ==
  ASSUME env.otlp = "http" \/ (env.otlp = "https" /\ env.ca = "pem" /\ env.debug = TRUE)
  PROVE  InstallTelemetry(env).ok
<1>1. ResolveTelemetryMode(env.otlp) = Ok("exporting")
  BY DEF ResolveTelemetryMode, Filled, Read
<1>2. BuildProviders(env.otlp) = Ok("live")
  BY DEF BuildProviders
<1>3. CASE env.otlp = "http"
  <2>1. ResolveTlsTrust(env.otlp, env.ca, env.debug) = Ok("none")
    BY <1>3 DEF ResolveTlsTrust, Read
  <2>2. QED
    BY <1>1, <1>2, <2>1 DEF InstallTelemetry, Try, Ok
<1>4. CASE env.otlp = "https" /\ env.ca = "pem" /\ env.debug = TRUE
  <2>1. ResolveTlsTrust(env.otlp, env.ca, env.debug) = Ok("ca")
    BY <1>4 DEF ResolveTlsTrust, Filled, Read
  <2>2. LoadTlsConfig(env.ca) = Ok("ca")
    BY <1>4 DEF LoadTlsConfig
  <2>3. QED
    BY <1>1, <1>2, <2>1, <2>2 DEF InstallTelemetry, Try, Ok
<1>5. QED
  BY <1>3, <1>4

LEMMA ServerResolves ==
  ASSUME env.leptos = "dev", env.redirect = "absent", env.baseUrl \in {"bare", "malformed"},
         \/ /\ serveTls /\ env.siteTls = "on" /\ env.health = "addr"
            /\ env.cert = "path" /\ env.key = "path"
         \/ /\ ~serveTls /\ env.siteTls = "off" /\ env.health = "absent"
            /\ env.cert = "absent" /\ env.key = "absent",
         serveTls \in BOOLEAN
  PROVE  /\ env.baseUrl = "bare" =>
              ResolveConfig(env) = Ok([tls |-> serveTls, health |-> serveTls,
                                       base |-> TRUE, redirect |-> FALSE])
         /\ env.baseUrl = "malformed" => ~ResolveConfig(env).ok
<1>1. ResolveSwitch(env.siteTls) = Ok([enabled |-> serveTls, source |-> "declared"])
  BY DEF ResolveSwitch, Filled, Read
<1>2. ResolveTlsMode(serveTls, env.cert, env.key) = Ok(IF serveTls THEN "enabled" ELSE "disabled")
  BY DEF ResolveTlsMode, Filled, Read
<1>3. ResolveHealthAddr(env.health) = Ok(serveTls)
  BY DEF ResolveHealthAddr, Filled, Read
<1>4. ResolveTlsConfig(env) = Ok([mode |-> IF serveTls THEN "enabled" ELSE "disabled",
                                  health |-> serveTls, source |-> "declared"])
  <2>1. /\ ResolveSwitch(env.siteTls).ok = TRUE
        /\ ResolveSwitch(env.siteTls).is.enabled = serveTls
        /\ ResolveSwitch(env.siteTls).is.source = "declared"
    BY <1>1 DEF Ok
  <2>2. /\ ResolveTlsMode(serveTls, env.cert, env.key).ok = TRUE
        /\ ResolveTlsMode(serveTls, env.cert, env.key).is = IF serveTls THEN "enabled" ELSE "disabled"
    BY <1>2 DEF Ok
  <2>3. ResolveHealthAddr(env.health).ok = TRUE /\ ResolveHealthAddr(env.health).is = serveTls
    BY <1>3 DEF Ok
  <2>4. QED
    BY <2>1, <2>2, <2>3 DEF ResolveTlsConfig, Try
<1>5. ResolveRedirect(env.redirect, TRUE) = Ok(FALSE)
  BY DEF ResolveRedirect, Filled, Read
<1>6. CASE env.baseUrl = "bare"
  <2>1. ResolvePublicBaseUrl(env.leptos = "prod", env.baseUrl) = Ok(TRUE)
    BY <1>6 DEF ResolvePublicBaseUrl, Read
  <2>2. /\ ResolvePublicBaseUrl(env.leptos = "prod", env.baseUrl).ok = TRUE
        /\ ResolvePublicBaseUrl(env.leptos = "prod", env.baseUrl).is = TRUE
    BY <2>1 DEF Ok
  <2>3. /\ ResolveTlsConfig(env).ok = TRUE
        /\ ResolveTlsConfig(env).is.mode = IF serveTls THEN "enabled" ELSE "disabled"
        /\ ResolveTlsConfig(env).is.health = serveTls
    BY <1>4 DEF Ok
  <2>4. ResolveRedirect(env.redirect, TRUE).ok = TRUE /\ ResolveRedirect(env.redirect, TRUE).is = FALSE
    <3>1. Ok(FALSE).ok = TRUE /\ Ok(FALSE).is = FALSE
      BY DEF Ok
    <3>2. QED
      BY <1>5, <3>1
  <2>5. Ok(env.leptos).ok = TRUE /\ (env.leptos = "malformed") = FALSE
    BY DEF Ok
  <2>6. ResolveConfig(env) = Ok([tls |-> ResolveTlsConfig(env).is.mode = "enabled",
                                 health |-> ResolveTlsConfig(env).is.health,
                                 base |-> TRUE, redirect |-> FALSE])
    BY <2>2, <2>3, <2>4, <2>5 DEF ResolveConfig, Try
  <2>7. QED
    BY <1>6, <2>3, <2>6
<1>7. CASE env.baseUrl = "malformed"
  <2>1. ResolvePublicBaseUrl(env.leptos = "prod", env.baseUrl) = Err("BaseUrlInvalid")
    BY <1>7 DEF ResolvePublicBaseUrl, Read
  <2>2. QED
    BY <1>4, <1>7, <2>1 DEF ResolveConfig, Try, Ok, Err
<1>8. QED
  BY <1>6, <1>7

-----------------------------------------------------------------------------
(* Every action keeps the invariant *)

LEMMA InitIInv == Init => IInv
<1>1. Init => TypeOK
  <2>1. BareEnvironment \in Environment
    BY DEF BareEnvironment, Environment
  <2>2. 0 \in Numbers
    BY DEF Numbers
  <2>3. NoConfig \in [site : Numbers, reload : Numbers, health : Numbers,
                      readyPath : {"readyz", "page", "unserved"}, tls : BOOLEAN]
    BY <2>2 DEF NoConfig
  <2>4. NoEndpoints \in [http : Numbers, https : Numbers, reload : Numbers, health : Numbers]
    BY <2>2 DEF NoEndpoints
  <2>5. NoAddresses \in [site : Numbers, reload : Numbers, health : Numbers,
                         base : [tls : BOOLEAN, port : Numbers]]
    BY <2>2 DEF NoAddresses
  <2>6. QED
    BY <2>1, <2>3, <2>4, <2>5 DEF Init, TypeOK
<1>2. Init => Configured /\ Declared /\ Composed /\ Up
  BY DEF Init, Configured, Declared, Composed, Up, HasRead, HasWired, Started, BareEnvironment
<1>3. Init => RunsWhatItAccepts /\ ProbeReaches
  BY DEF Init, RunsWhatItAccepts, ProbeReaches
<1>4. QED
  BY <1>1, <1>2, <1>3 DEF IInv

\* An action that ends the AppHost before it has wired anything.
LEMMA FailIInv == IInv /\ phase \in {"reading", "preflight", "wiring"} /\ Fail => IInv'
<1>1. SUFFICES ASSUME IInv, phase \in {"reading", "preflight", "wiring"}, Fail
               PROVE  IInv'
  OBVIOUS
<1> USE DEF IInv
<1>2. TypeOK'
  BY <1>1 DEF TypeOK, Fail
<1>3. Configured' /\ Declared' /\ Composed' /\ Up'
  BY <1>1 DEF Fail, Configured, Declared, Composed, Up, HasRead, HasWired, Started
<1>4. RunsWhatItAccepts' /\ ProbeReaches'
  BY <1>1 DEF Fail, RunsWhatItAccepts, ProbeReaches
<1>5. QED
  BY <1>2, <1>3, <1>4

LEMMA ReadIInv == IInv /\ ReadWorkspace => IInv'
<1>1. SUFFICES ASSUME IInv, phase = "reading",
                      NEW w \in Workspace,
                      NEW override \in {"missing", "readyz", "page", "unserved", "relative"},
                      Accepts(w), override # "relative", phase' = "preflight",
                      config' = [site |-> w.site, reload |-> w.reload, health |-> HealthPort(w),
                                 readyPath |-> ReadyPath(w, override), tls |-> w.tls # "off"],
                      UNCHANGED <<serveTls, ambientBase, endpoints, probe, pending, env, addr,
                                  listens, health>>
               PROVE  IInv'
  BY FailIInv DEF ReadWorkspace
<1> USE DEF IInv
<1>2. ReadyPath(w, override) \in {"readyz", "page", "unserved"}
  BY <1>1 DEF ReadyPath, Accepts, Workspace
<1>3. {w.site, w.reload, HealthPort(w)} \subseteq Ports /\ PortsDistinct(w)
  BY <1>1 DEF Accepts
<1>4. TypeOK'
  BY <1>1, <1>2, <1>3 DEF TypeOK, Numbers
<1>5. Configured'
  BY <1>1, <1>3 DEF Configured, PortsDistinct
<1>6. Declared' /\ Composed' /\ Up'
  BY <1>1 DEF Declared, Composed, Up, HasWired, Started
<1>7. RunsWhatItAccepts' /\ ProbeReaches'
  BY <1>1 DEF RunsWhatItAccepts, ProbeReaches
<1>8. QED
  BY <1>4, <1>5, <1>6, <1>7

LEMMA PreflightIInv == IInv /\ Preflight => IInv'
<1>1. SUFFICES ASSUME IInv, phase = "preflight", phase' = "wiring",
                      UNCHANGED <<config, serveTls, ambientBase, endpoints, probe, pending, env,
                                  addr, listens, health>>
               PROVE  IInv'
  BY FailIInv DEF Preflight
<1> USE DEF IInv
<1>2. TypeOK'
  BY <1>1 DEF TypeOK
<1>3. Configured' /\ Declared' /\ Composed' /\ Up'
  BY <1>1 DEF Configured, Declared, Composed, Up, HasRead, HasWired, Started
<1>4. RunsWhatItAccepts' /\ ProbeReaches'
  BY <1>1 DEF RunsWhatItAccepts, ProbeReaches
<1>5. QED
  BY <1>2, <1>3, <1>4

LEMMA WireIInv == IInv /\ ResolveAndWire => IInv'
<1>1. SUFFICES ASSUME IInv, phase = "wiring",
                      NEW raw \in {"absent", "empty", "on", "off", "other"},
                      ambientBase' \in {"absent", "blank", "bare", "malformed"},
                      ResolveServeTls(raw, config.tls).ok,
                      phase' = "composing",
                      serveTls' = ResolveServeTls(raw, config.tls).is,
                      Wire(ResolveServeTls(raw, config.tls).is),
                      UNCHANGED <<config, env, addr, listens, health>>
               PROVE  IInv'
  BY FailIInv DEF ResolveAndWire
<1> USE DEF IInv
<1>2. serveTls' \in BOOLEAN
  <2>1. CASE raw \in {"absent", "empty"}
    <3>1. ResolveServeTls(raw, config.tls) = Ok(config.tls)
      BY <2>1 DEF ResolveServeTls
    <3>2. QED
      BY <1>1, <3>1 DEF Ok, TypeOK
  <2>2. CASE raw \in {"on", "off"}
    <3>1. ResolveServeTls(raw, config.tls) = Ok(raw = "on")
      BY <2>2 DEF ResolveServeTls
    <3>2. QED
      BY <1>1, <3>1 DEF Ok
  <2>3. CASE raw = "other"
    <3>1. ResolveServeTls(raw, config.tls) = Err("Switch")
      BY <2>3 DEF ResolveServeTls
    <3>2. QED
      BY <1>1, <3>1 DEF Err
  <2>4. QED
    BY <1>1, <2>1, <2>2, <2>3
<1>3. Wire(serveTls')
  BY <1>1
<1>4. config.site \in Ports /\ config.reload \in Ports /\ config.health \in Ports
  BY <1>1 DEF Configured, HasRead
<1>5. TypeOK'
  BY <1>1, <1>2, <1>3, <1>4 DEF TypeOK, Wire, Wired, Numbers
<1>6. Configured' /\ Up'
  BY <1>1 DEF Configured, Up, HasRead, Started
<1>7. Declared'
  BY <1>1, <1>2, <1>3 DEF Declared, HasWired, Started, Wire, Wired
<1>8. Composed'
  <2>1. env = BareEnvironment
    BY <1>1 DEF Composed, HasWired
  <2>2. {"otlp", "environment"} \subseteq pending' /\ (serveTls' => "certificate" \in pending')
    BY <1>2, <1>3 DEF Wire, Wired
  <2>3. QED
    BY <1>1, <1>2, <2>1, <2>2 DEF Composed, HasWired, BareEnvironment
<1>9. RunsWhatItAccepts' /\ ProbeReaches'
  BY <1>1 DEF RunsWhatItAccepts, ProbeReaches
<1>10. QED
  BY <1>5, <1>6, <1>7, <1>8, <1>9

\* A callback leaves everything but its part of the environment alone.
LEMMA OtlpIInv == IInv /\ ExportTelemetry => IInv'
<1>1. SUFFICES ASSUME IInv, Callback("otlp"), NEW scheme \in {"http", "https"},
                      env' = [env EXCEPT !.otlp = scheme], addr' = addr
               PROVE  IInv'
  BY DEF ExportTelemetry
<1> USE DEF IInv
<1>2. TypeOK'
  BY <1>1 DEF TypeOK, Callback, Environment
<1>3. Configured' /\ Declared' /\ Up'
  BY <1>1 DEF Callback, Configured, Declared, Up, HasRead, HasWired, Started
<1>4. Composed'
  BY <1>1 DEF Callback, Composed, HasWired, SitePort, DefaultBase, TypeOK, Environment
<1>5. RunsWhatItAccepts' /\ ProbeReaches'
  BY <1>1 DEF Callback, RunsWhatItAccepts, ProbeReaches
<1>6. QED
  BY <1>2, <1>3, <1>4, <1>5

LEMMA CertificateIInv == IInv /\ InjectCertificate => IInv'
<1>1. SUFFICES ASSUME IInv, Callback("certificate"), addr' = addr,
                      env' = [env EXCEPT !.cert = "path", !.key = "path", !.ca = "pem"]
               PROVE  IInv'
  BY DEF InjectCertificate
<1> USE DEF IInv
<1>2. TypeOK'
  <2>1. [env EXCEPT !.cert = "path"] \in Environment
    BY <1>1 DEF TypeOK, Environment
  <2>2. [env EXCEPT !.cert = "path", !.key = "path"] \in Environment
    BY <2>1 DEF Environment
  <2>3. env' \in Environment
    BY <1>1, <2>2 DEF Environment
  <2>4. QED
    BY <1>1, <2>3 DEF TypeOK, Callback
<1>3. Configured' /\ Declared' /\ Up'
  BY <1>1 DEF Callback, Configured, Declared, Up, HasRead, HasWired, Started
<1>4. serveTls
  BY <1>1 DEF Callback, Declared, HasWired
<1>5. Composed'
  BY <1>1, <1>4 DEF Callback, Composed, HasWired, SitePort, DefaultBase, TypeOK, Environment
<1>6. RunsWhatItAccepts' /\ ProbeReaches'
  BY <1>1 DEF Callback, RunsWhatItAccepts, ProbeReaches
<1>7. QED
  BY <1>2, <1>3, <1>5, <1>6

LEMMA EnvironmentIInv == IInv /\ ComposeEnvironment => IInv'
<1>1. SUFFICES ASSUME IInv, ComposeEnvironment
               PROVE  IInv'
  OBVIOUS
<1> USE DEF IInv
<1>2. Callback("environment")
  BY <1>1 DEF ComposeEnvironment
<1>3. env' = [env EXCEPT !.siteTls = IF serveTls THEN "on" ELSE "off",
                         !.baseUrl = IF ambientBase \in {"absent", "blank"} THEN "bare" ELSE ambientBase,
                         !.health  = IF serveTls THEN "addr" ELSE "absent"]
  BY <1>1 DEF ComposeEnvironment, UsesAmbientPublicBaseUrl
<1>4. addr' = [site |-> SitePort, reload |-> endpoints.reload, health |-> endpoints.health,
               base |-> DefaultBase(SitePort)]
  BY <1>1 DEF ComposeEnvironment, SitePort
<1>5. TypeOK'
  <2>1. env' \in Environment
    <3>1. PICK on \in {"on", "off"}, url \in {"bare", "malformed"}, at \in {"addr", "absent"} :
                 env' = [env EXCEPT !.siteTls = on, !.baseUrl = url, !.health = at]
      BY <1>1, <1>3 DEF TypeOK
    <3>2. [env EXCEPT !.siteTls = on] \in Environment
      BY <1>1 DEF TypeOK, Environment
    <3>3. [env EXCEPT !.siteTls = on, !.baseUrl = url] \in Environment
      BY <3>2 DEF Environment
    <3>4. QED
      BY <3>1, <3>3 DEF Environment
  <2>2. addr' \in [site : Numbers, reload : Numbers, health : Numbers,
                   base : [tls : BOOLEAN, port : Numbers]]
    BY <1>1, <1>4 DEF TypeOK, SitePort, DefaultBase
  <2>3. QED
    BY <1>1, <1>2, <2>1, <2>2 DEF TypeOK, Callback
<1>6. Configured' /\ Declared' /\ Up'
  BY <1>1, <1>2 DEF Callback, Configured, Declared, Up, HasRead, HasWired, Started
<1>7. Composed'
  <2>1. /\ env'.siteTls = (IF serveTls THEN "on" ELSE "off")
        /\ env'.health  = (IF serveTls THEN "addr" ELSE "absent")
        /\ env'.baseUrl = (IF ambientBase \in {"absent", "blank"} THEN "bare" ELSE ambientBase)
        /\ \A f \in {"otlp", "ca", "leptos", "cert", "key", "redirect", "debug"} : env'[f] = env[f]
    BY <1>1, <1>3 DEF TypeOK, Environment
  <2>2. SitePort' = SitePort /\ DefaultBase(SitePort)' = DefaultBase(SitePort)
    BY <1>2 DEF Callback, SitePort, DefaultBase
  <2>3. QED
    BY <1>1, <1>2, <1>4, <2>1, <2>2 DEF Callback, Composed, HasWired
<1>8. RunsWhatItAccepts' /\ ProbeReaches'
  BY <1>1, <1>2 DEF Callback, RunsWhatItAccepts, ProbeReaches
<1>9. QED
  BY <1>5, <1>6, <1>7, <1>8

\* The server comes up on the site's port and, over TLS, on the health port, which differ
\* from each other and from cargo-leptos's.
LEMMA StartIInv == IInv /\ StartServer => IInv'
<1>1. SUFFICES ASSUME IInv, StartServer
               PROVE  IInv'
  OBVIOUS
<1> USE DEF IInv
<1> DEFINE site   == [port |-> addr.site, tls |-> ResolveConfig(env).is.tls, pages |-> TRUE]
           aux    == [port |-> addr.health, tls |-> FALSE, pages |-> FALSE]
           wanted == {site} \union (IF ResolveConfig(env).is.health THEN {aux} ELSE {})
           binds  == /\ \A l \in wanted : l.port # addr.reload
                     /\ \A l, k \in wanted : l.port = k.port => l = k
           serves == InstallTelemetry(env).ok /\ ResolveConfig(env).ok /\ binds
<1>2. /\ phase = "composing" /\ pending = {}
      /\ phase' = IF serves THEN "serving" ELSE "exited"
      /\ listens' = IF serves THEN wanted ELSE {}
      /\ UNCHANGED <<config, serveTls, ambientBase, endpoints, probe, pending, env, addr, health>>
  BY <1>1 DEF StartServer
<1>3. /\ env.leptos = "dev" /\ env.redirect = "absent" /\ env.debug = TRUE
      /\ env.otlp \in {"http", "https"}
      /\ serveTls => env.cert = "path" /\ env.key = "path" /\ env.ca = "pem"
      /\ ~serveTls => env.cert = "absent" /\ env.key = "absent"
      /\ env.siteTls = (IF serveTls THEN "on" ELSE "off")
      /\ env.health  = (IF serveTls THEN "addr" ELSE "absent")
      /\ env.baseUrl = (IF ambientBase \in {"absent", "blank"} THEN "bare" ELSE ambientBase)
      /\ addr.site = SitePort /\ addr.reload = endpoints.reload /\ addr.health = endpoints.health
  BY <1>1, <1>2 DEF Composed, HasWired
<1>4. /\ config.site \in Ports /\ config.reload \in Ports /\ config.health \in Ports
      /\ config.site # config.reload /\ config.site # config.health
      /\ config.reload # config.health
  BY <1>1, <1>2 DEF Configured, HasRead
<1>5. /\ addr.site = config.site /\ addr.reload = config.reload
      /\ serveTls => addr.health = config.health
  BY <1>1, <1>2, <1>3 DEF Declared, HasWired, SitePort
<1>6. serveTls \in BOOLEAN /\ ambientBase \in {"absent", "blank", "bare", "malformed"}
  BY <1>1 DEF TypeOK
<1>7. /\ env.baseUrl = "bare" =>
            ResolveConfig(env) = Ok([tls |-> serveTls, health |-> serveTls,
                                     base |-> TRUE, redirect |-> FALSE])
      /\ env.baseUrl = "malformed" => ~ResolveConfig(env).ok
  BY <1>3, <1>6, ServerResolves
<1>8. env.baseUrl = "bare" =>
        ResolveConfig(env).ok /\ ResolveConfig(env).is.tls = serveTls
        /\ ResolveConfig(env).is.health = serveTls
  <2>1. ASSUME NEW r, r = Ok([tls |-> serveTls, health |-> serveTls, base |-> TRUE, redirect |-> FALSE])
        PROVE  r.ok /\ r.is.tls = serveTls /\ r.is.health = serveTls
    BY <2>1 DEF Ok
  <2>2. QED
    BY <1>7, <2>1
<1>9. env.baseUrl = "bare" \/ env.baseUrl = "malformed"
  BY <1>3, <1>6
<1>10. ASSUME serves
       PROVE  /\ [port |-> config.site, tls |-> serveTls, pages |-> TRUE] \in wanted
              /\ serveTls => [port |-> config.health, tls |-> FALSE, pages |-> FALSE] \in wanted
              /\ wanted \subseteq [port : Numbers, tls : BOOLEAN, pages : BOOLEAN]
  <2>1. env.baseUrl = "bare"
    BY <1>7, <1>9, <1>10
  <2>2. site = [port |-> config.site, tls |-> serveTls, pages |-> TRUE]
    BY <1>5, <1>8, <2>1
  <2>3. serveTls => aux = [port |-> config.health, tls |-> FALSE, pages |-> FALSE] /\ aux \in wanted
    BY <1>5, <1>8, <2>1
  <2>4. site \in [port : Numbers, tls : BOOLEAN, pages : BOOLEAN]
    BY <1>4, <1>6, <2>2 DEF Numbers
  <2>5. aux \in [port : Numbers, tls : BOOLEAN, pages : BOOLEAN]
    BY <1>1 DEF TypeOK
  <2>6. QED
    BY <2>2, <2>3, <2>4, <2>5
<1>11. TypeOK'
  <2>1. listens' \subseteq [port : Numbers, tls : BOOLEAN, pages : BOOLEAN]
    BY <1>2, <1>10
  <2>2. phase' \in {"serving", "exited"}
    BY <1>2
  <2>3. QED
    BY <1>1, <1>2, <2>1, <2>2 DEF TypeOK
<1>12. Configured' /\ Declared' /\ Composed'
  <2>1. phase' \in {"serving", "exited"}
    BY <1>2
  <2>2. QED
    BY <1>1, <1>2, <2>1 DEF Configured, Declared, Composed, HasRead, HasWired, Started, SitePort,
       DefaultBase
<1>13. Up'
  BY <1>2, <1>10 DEF Up, Started
<1>14. ProbeReaches'
  BY <1>1, <1>2 DEF Up, Started, ProbeReaches
<1>15. RunsWhatItAccepts'
  <2>1. SUFFICES ASSUME ambientBase # "malformed", ~(~serveTls /\ env.otlp = "https")
                 PROVE  serves
    BY <1>2 DEF RunsWhatItAccepts
  <2>2. env.baseUrl = "bare"
    BY <1>3, <1>6, <2>1
  <2>3. InstallTelemetry(env).ok
    BY <1>3, <1>6, <2>1, TelemetryInstalls
  <2>4. ResolveConfig(env).ok
    BY <1>8, <2>2
  <2>5. site.port = config.site
    BY <1>5
  <2>6. aux \in wanted => serveTls /\ aux.port = config.health
    <3>1. site # aux
      BY DEF site, aux
    <3>2. QED
      BY <1>5, <1>6, <1>8, <2>2, <3>1
  <2>7. \A l \in wanted : l.port # addr.reload
    BY <1>4, <1>5, <2>5, <2>6
  <2>8. \A l, k \in wanted : l.port = k.port => l = k
    <3>1. \A l \in wanted : l = site \/ l = aux
      OBVIOUS
    <3>2. QED
      BY <1>4, <2>5, <2>6, <3>1
  <2>9. QED
    BY <2>3, <2>4, <2>7, <2>8
<1>16. QED
  BY <1>11, <1>12, <1>13, <1>14, <1>15

LEMMA ProbeIInv == IInv /\ Probe => IInv'
<1>1. SUFFICES ASSUME IInv, Probe
               PROVE  IInv'
  OBVIOUS
<1> USE DEF IInv
<1>2. TypeOK'
  BY <1>1 DEF TypeOK, Probe
<1>3. Configured' /\ Declared' /\ Composed' /\ Up'
  BY <1>1 DEF Probe, Configured, Declared, Composed, Up, HasRead, HasWired, Started, SitePort,
     DefaultBase
<1>4. RunsWhatItAccepts'
  BY <1>1 DEF Probe, RunsWhatItAccepts
<1>5. ProbeReaches'
  <2>1. SUFFICES ASSUME phase = "serving", config.readyPath = "readyz"
                 PROVE  \E l \in listens : l.port = endpoints[probe] /\ ~l.tls
    BY <1>1 DEF Probe, ProbeReaches
  <2>2. /\ endpoints = [http   |-> IF serveTls THEN 0 ELSE config.site,
                        https  |-> IF serveTls THEN config.site ELSE 0,
                        reload |-> config.reload,
                        health |-> IF serveTls THEN config.health ELSE 0]
        /\ probe = (IF serveTls THEN "health" ELSE "http")
    BY <1>1, <2>1 DEF Declared, HasWired
  <2>3. CASE serveTls
    <3>1. [port |-> config.health, tls |-> FALSE, pages |-> FALSE] \in listens
      BY <1>1, <2>1, <2>3 DEF Up
    <3>2. QED
      BY <2>2, <2>3, <3>1
  <2>4. CASE ~serveTls
    <3>1. [port |-> config.site, tls |-> FALSE, pages |-> TRUE] \in listens
      BY <1>1, <2>1, <2>4 DEF Up, TypeOK
    <3>2. QED
      BY <2>2, <2>4, <3>1
  <2>5. QED
    BY <2>3, <2>4
<1>6. QED
  BY <1>2, <1>3, <1>4, <1>5

-----------------------------------------------------------------------------
(* Theorems *)

LEMMA Inductive == Spec => []IInv
<1>1. ASSUME IInv, [Next]_vars
      PROVE  IInv'
  <2>1. CASE Next
    BY <1>1, <2>1, ReadIInv, PreflightIInv, WireIInv, OtlpIInv, CertificateIInv,
       EnvironmentIInv, StartIInv, ProbeIInv DEF Next
  <2>2. CASE UNCHANGED vars
    BY <1>1, <2>2 DEF IInv, TypeOK, Configured, Declared, Composed, Up, RunsWhatItAccepts,
       ProbeReaches, HasRead, HasWired, Started, SitePort, DefaultBase, vars
  <2>3. QED
    BY <1>1, <2>1, <2>2
<1>2. QED
  BY InitIInv, <1>1, PTL DEF Spec

\* The types, for whatever ports are valid: what LeptosSiteConfig.Parse lets through
\* stays in range down to the addresses the server is given (LeptosHosting.cs:145-176).
THEOREM AppHostTypes == Spec => []TypeOK
BY Inductive, PTL DEF IInv

\* The server exits on the environment composed for it only for one of the two declared
\* causes, whatever the ports, the switch, the profile and the order of the callbacks
\* (LeptosHosting.cs:119-176 against the server's resolvers).
THEOREM AcceptedRuns == Spec => []RunsWhatItAccepts
BY Inductive, PTL DEF IInv

\* The health probe reaches a plain listener of a server that serves
\* (LeptosHosting.cs:117-120, 142).
THEOREM ProbesReach == Spec => []ProbeReaches
BY Inductive, PTL DEF IInv

\* The default public base URL names the listener the site is served on
\* (LeptosHosting.cs:160-169).
THEOREM BaseIsOwn == Spec => []OwnOrigin
<1>1. IInv => OwnOrigin
  <2>1. SUFFICES ASSUME IInv, phase = "serving"
                 PROVE  [port |-> addr.base.port, tls |-> addr.base.tls, pages |-> TRUE] \in listens
    BY DEF OwnOrigin
  <2>2. addr.base = [tls |-> serveTls, port |-> SitePort]
    BY <2>1 DEF IInv, Declared, Composed, HasWired, Started, DefaultBase
  <2>3. SitePort = config.site
    BY <2>1 DEF IInv, Declared, HasWired, SitePort
  <2>4. [port |-> config.site, tls |-> serveTls, pages |-> TRUE] \in listens
    BY <2>1 DEF IInv, Up
  <2>5. QED
    BY <2>2, <2>3, <2>4
<1>2. QED
  BY <1>1, Inductive, PTL
=============================================================================
