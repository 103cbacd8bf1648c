-------------------------------- MODULE AppHost --------------------------------
(***************************************************************************)
(* The Aspire AppHost in run mode: what it reads from the workspace's      *)
(* Cargo.toml and from its own environment, the endpoints and the health   *)
(* probe it declares, the environment its callbacks compose, and what the  *)
(* server's resolvers (SiteConfig) make of that environment.               *)
(*                                                                         *)
(* The two sides are written in two languages and agree only through       *)
(* variables; this module is where they meet.  Of the server's variables   *)
(* the AppHost's own environment holds SITE_TLS and PUBLIC_BASE_URL alone. *)
(***************************************************************************)
EXTENDS SiteConfig, Naturals

CONSTANTS Ports,            \* the valid port numbers
          DefaultHealth     \* HealthPort.Default

\* A number that is no port.
OutOfRange == 0

ASSUME AppHostAssumption ==
  /\ Ports \subseteq Nat \ {OutOfRange}
  /\ DefaultHealth \in Ports

VARIABLES
  phase,      \* where the AppHost, and then its resource, stands
  config,     \* the accepted LeptosSiteConfig, with the path the probe uses
  serveTls,
  ambientBase,   \* PUBLIC_BASE_URL in the AppHost's environment
  endpoints,  \* the ports declared: 0 for an endpoint that is not
  probe,      \* the endpoint the health check asks
  pending,    \* callbacks still to contribute to the server's environment
  env,        \* the server's environment, by SiteConfig's classes,
  addr,       \* and the addresses in it
  listens,    \* the server's listeners
  health      \* the resource's health, as the last probe found it
vars == <<phase, config, serveTls, ambientBase, endpoints, probe, pending, env, addr, listens, health>>

\* A Cargo.toml.  An address without a port is one with OutOfRange.
Workspace ==
  [host : {"missing", "name", "ip"}, site : Ports \union {OutOfRange},
   reloadDeclared : BOOLEAN, reload : Ports \union {OutOfRange},
   healthDeclared : BOOLEAN, health : Ports \union {OutOfRange},
   readyPath : {"missing", "readyz", "page", "unserved", "relative"},
   tls : {"missing", "on", "off"}]

NoConfig    == [site |-> 0, reload |-> 0, health |-> 0, readyPath |-> "readyz", tls |-> TRUE]
NoEndpoints == [http |-> 0, https |-> 0, reload |-> 0, health |-> 0]
NoAddresses == [site |-> 0, reload |-> 0, health |-> 0, base |-> [tls |-> FALSE, port |-> 0]]

\* A debug build under cargo leptos watch, before the callbacks.
BareEnvironment ==
  [otlp |-> "absent", ca |-> "absent", leptos |-> "dev", siteTls |-> "absent",
   cert |-> "absent", key |-> "absent", health |-> "absent", baseUrl |-> "absent",
   redirect |-> "absent", debug |-> TRUE]

Init ==
  /\ phase = "reading" /\ config = NoConfig /\ serveTls = FALSE /\ ambientBase = "absent"
  /\ endpoints = NoEndpoints /\ probe = "none" /\ pending = {}
  /\ env = BareEnvironment /\ addr = NoAddresses /\ listens = {} /\ health = "unknown"

Fail == /\ phase' = "failed"
        /\ UNCHANGED <<config, serveTls, ambientBase, endpoints, probe, pending, env, addr,
                       listens, health>>

-----------------------------------------------------------------------------
(* LeptosSiteConfig *)

HealthPort(w) == IF w.healthDeclared THEN w.health ELSE DefaultHealth

\* Slip: the health port is compared with the site's alone.
PortsLoose(w) == w.site \notin {w.reload, HealthPort(w)}

PortsDistinct(w) == w.site # w.reload /\ w.site # HealthPort(w) /\ w.reload # HealthPort(w)

\* Parse: every key present or optional, valid, and no two ports alike.
Accepts(w) ==
  /\ w.host = "ip" /\ w.site \in Ports
  /\ w.reloadDeclared /\ w.reload \in Ports
  /\ HealthPort(w) \in Ports
  /\ w.readyPath # "relative"
  /\ PortsDistinct(w)

\* A caller's path, where there is one, takes the place of the workspace's.
ReadyPath(w, override) ==
  IF override # "missing" THEN override
  ELSE IF w.readyPath = "missing" THEN "readyz" ELSE w.readyPath

ReadWorkspace ==
  /\ phase = "reading"
  /\ \E w \in Workspace, override \in {"missing", "readyz", "page", "unserved", "relative"} :
       IF Accepts(w) /\ override # "relative"
       THEN /\ phase' = "preflight"
            /\ config' = [site |-> w.site, reload |-> w.reload, health |-> HealthPort(w),
                          readyPath |-> ReadyPath(w, override),
                          tls |-> w.tls # "off"]
            /\ UNCHANGED <<serveTls, ambientBase, endpoints, probe, pending, env, addr, listens, health>>
       ELSE Fail

-----------------------------------------------------------------------------
(* AddLeptosServerApp *)

\* RunToolchainPreflight; publish mode is refused too.
Preflight ==
  /\ phase = "preflight"
  /\ \E tools \in [{"cargo", "cargo-leptos", "target", "cc"} ->
                   {"fine", "failing", "unavailable"}], publish \in BOOLEAN :
       IF publish \/ \E t \in DOMAIN tools : \/ tools[t] = "failing"
                                             \/ tools[t] = "unavailable" /\ t # "target"
       THEN Fail
       ELSE /\ phase' = "wiring"
            /\ UNCHANGED <<config, serveTls, ambientBase, endpoints, probe, pending, env, addr,
                           listens, health>>

ResolveServeTls(raw, default) ==
  CASE raw \in {"absent", "empty"} -> Ok(default)
    [] raw \in {"on", "off"}       -> Ok(raw = "on")
    [] OTHER                       -> Err("Switch")

\* The endpoints, the probe and the callbacks that are registered.
Wired(tls, asks) ==
  /\ endpoints' = [http   |-> IF tls THEN 0 ELSE config.site,
                   https  |-> IF tls THEN config.site ELSE 0,
                   reload |-> config.reload,
                   health |-> IF tls THEN config.health ELSE 0]
  /\ probe' = asks
  /\ pending' = {"otlp", "environment"} \union (IF tls THEN {"certificate"} ELSE {})

\* Slip: the probe asks the site's endpoint whatever it speaks.
WireProbingSite(tls) == Wired(tls, IF tls THEN "https" ELSE "http")

Wire(tls) == Wired(tls, IF tls THEN "health" ELSE "http")

ResolveAndWire ==
  /\ phase = "wiring"
  /\ \E raw \in {"absent", "empty", "on", "off", "other"},
       base \in {"absent", "blank", "bare", "malformed"} :
       LET tls == ResolveServeTls(raw, config.tls) IN
       IF tls.ok
       THEN /\ phase' = "composing" /\ serveTls' = tls.is /\ ambientBase' = base
            /\ Wire(tls.is)
            /\ UNCHANGED <<config, env, addr, listens, health>>
       ELSE Fail

-----------------------------------------------------------------------------
(* The callbacks, which Aspire runs as it starts the resource. *)

Callback(name) ==
  /\ phase = "composing" /\ name \in pending
  /\ pending' = pending \ {name}
  /\ UNCHANGED <<phase, config, serveTls, ambientBase, endpoints, probe, listens, health>>

\* WithOtlpExporter: the dashboard's endpoint, of the launch profile's scheme.
ExportTelemetry ==
  /\ Callback("otlp")
  /\ \E scheme \in {"http", "https"} : env' = [env EXCEPT !.otlp = scheme]
  /\ UNCHANGED addr

\* WithHttpsCertificateConfiguration.
InjectCertificate ==
  /\ Callback("certificate")
  /\ env' = [env EXCEPT !.cert = "path", !.key = "path", !.ca = "pem"]
  /\ UNCHANGED addr

UsesAmbientPublicBaseUrl(raw) == raw \notin {"absent", "blank"}

\* Slip: the default keeps the scheme of the everyday stack.
DefaultBaseHttps(site) == [tls |-> TRUE, port |-> site]

DefaultBase(site) == [tls |-> serveTls, port |-> site]

\* WithEnvironment.
ComposeEnvironment ==
  LET site == IF serveTls THEN endpoints.https ELSE endpoints.http IN
  /\ Callback("environment")
  /\ env' = [env EXCEPT !.siteTls = IF serveTls THEN "on" ELSE "off",
                        !.baseUrl = IF UsesAmbientPublicBaseUrl(ambientBase) THEN ambientBase ELSE "bare",
                        !.health  = IF serveTls THEN "addr" ELSE "absent"]
  /\ addr' = [site |-> site, reload |-> endpoints.reload, health |-> endpoints.health,
              base |-> DefaultBase(site)]

-----------------------------------------------------------------------------
(* The server and its probe *)

\* The server's resolvers, then its listeners; the reload port is cargo-leptos's.
StartServer ==
  LET resolved == ResolveConfig(env)
      site == [port |-> addr.site, tls |-> resolved.is.tls, pages |-> TRUE]
      aux  == [port |-> addr.health, tls |-> FALSE, pages |-> FALSE]
      wanted == {site} \union (IF resolved.is.health THEN {aux} ELSE {})
      binds  == /\ \A l \in wanted : l.port # addr.reload
                /\ \A l, k \in wanted : l.port = k.port => l = k
      serves == InstallTelemetry(env).ok /\ resolved.ok /\ binds
  IN
  /\ phase = "composing" /\ pending = {}
  /\ phase' = IF serves THEN "serving" ELSE "exited"
  /\ listens' = IF serves THEN wanted ELSE {}
  /\ UNCHANGED <<config, serveTls, ambientBase, endpoints, probe, pending, env, addr, health>>

\* WithHttpHealthCheck: plain http to the endpoint's port; 200 is healthy.
Probe ==
  /\ phase \in {"serving", "exited"}
  /\ health' = IF \E l \in listens :
                    /\ l.port = endpoints[probe] /\ ~l.tls
                    /\ config.readyPath \in {"readyz"} \union (IF l.pages THEN {"page"} ELSE {})
               THEN "healthy" ELSE "unhealthy"
  /\ UNCHANGED <<phase, config, serveTls, ambientBase, endpoints, probe, pending, env, addr, listens>>

Next == \/ ReadWorkspace \/ Preflight \/ ResolveAndWire
        \/ ExportTelemetry \/ InjectCertificate \/ ComposeEnvironment
        \/ StartServer \/ Probe

Spec == Init /\ [][Next]_vars

-----------------------------------------------------------------------------
(* Properties *)

Numbers == Ports \union {0}

TypeOK ==
  /\ phase \in {"reading", "preflight", "wiring", "composing", "serving", "exited", "failed"}
  /\ config \in [site : Numbers, reload : Numbers, health : Numbers,
                 readyPath : {"readyz", "page", "unserved"}, tls : BOOLEAN]
  /\ serveTls \in BOOLEAN /\ ambientBase \in {"absent", "blank", "bare", "malformed"}
  /\ endpoints \in [http : Numbers, https : Numbers, reload : Numbers, health : Numbers]
  /\ probe \in {"none", "http", "https", "health"}
  /\ pending \subseteq {"otlp", "environment", "certificate"}
  /\ env \in Environment
  /\ addr \in [site : Numbers, reload : Numbers, health : Numbers,
               base : [tls : BOOLEAN, port : Numbers]]
  /\ listens \subseteq [port : Numbers, tls : BOOLEAN, pages : BOOLEAN]
  /\ health \in {"unknown", "healthy", "unhealthy"}

\* LeptosHosting.cs:38-41 and LeptosSiteConfig.cs:148-154: whatever workspace and environment the
\* AppHost accepts, in whatever order its callbacks run, the server it composes the
\* environment for accepts too, and can bind.  Two exceptions: a base URL, which is left
\* to the server to judge, and plain http with an https collector (OffServesPlain).
RunsWhatItAccepts ==
  phase = "exited" => ambientBase = "malformed" \/ (~serveTls /\ env.otlp = "https")

\* LeptosHosting.cs:117-120 and 142: the probe asks a listener that the server opens, that
\* speaks plain http and answers /readyz, whichever transport the site is served on.
ProbeReaches == phase = "serving" /\ config.readyPath = "readyz" => health # "unhealthy"

\* LeptosHosting.cs:160-169: the default public base URL leads to the site's own listener and
\* speaks its transport, so that no canonical redirect leads away from the site.
OwnOrigin ==
  phase = "serving" /\ ambientBase \in {"absent", "blank"} =>
    [port |-> addr.base.port, tls |-> addr.base.tls, pages |-> TRUE] \in listens

-----------------------------------------------------------------------------
(* A claim that the code does not keep *)

\* README.md:40: SITE_TLS, "set it to off in the AppHost's environment to restore plain-http
\* serving".
OffServesPlain == phase = "exited" /\ ~serveTls => ambientBase = "malformed"
=============================================================================
