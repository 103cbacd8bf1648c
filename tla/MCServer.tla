------------------------------ MODULE MCServer ------------------------------
(***************************************************************************)
(* Instances of Server for TLC: the lifecycle, in worlds that serve and in *)
(* every misconfigured one, and the environment a claim fails in.          *)
(***************************************************************************)
EXTENDS Server

\* The production container: no telemetry collector, TLS, a redirect listener.
Production ==
  [otlp |-> "absent", ca |-> "absent", leptos |-> "prod", siteTls |-> "on",
   cert |-> "path", key |-> "path", health |-> "absent", baseUrl |-> "bare",
   redirect |-> "addr", debug |-> FALSE]

\* A run under the AppHost: telemetry, TLS, a health listener.
Orchestrated ==
  [otlp |-> "https", ca |-> "pem", leptos |-> "dev", siteTls |-> "on",
   cert |-> "path", key |-> "path", health |-> "addr", baseUrl |-> "absent",
   redirect |-> "absent", debug |-> TRUE]

\* Plain http with every listener and telemetry.
Plain == [Orchestrated EXCEPT !.otlp = "http", !.siteTls = "absent", !.cert = "empty",
                              !.key = "absent", !.baseUrl = "bare", !.redirect = "addr"]

AllPorts == {"site", "health", "redirect"}

\* A collector address nothing can be exported to.
NoTelemetry == [Production EXCEPT !.otlp = "malformed"]

LifecycleWorlds ==
  [env : {Production, Orchestrated, Plain, NoTelemetry}, pair : {"good", "bad"},
   ports : {AllPorts, {"health", "redirect"}, {"site", "redirect"}, {"site", "health"}},
   pid1 : BOOLEAN]

\* Every environment, in two parts that do not interact: the listeners' variables
\* with telemetry off, and telemetry's with the listeners of a plain run.
ListenerEnvironments ==
  [otlp : {"absent"}, ca : {"absent"}, debug : {TRUE},
   leptos   : {"dev", "prod", "malformed"},
   siteTls  : {"absent", "notUnicode", "empty", "on", "off", "other"},
   cert     : {"absent", "empty", "path"},
   key      : {"absent", "empty", "path"},
   health   : {"absent", "notUnicode", "empty", "addr", "malformed"},
   baseUrl  : {"absent", "notUnicode", "empty", "bare", "malformed"},
   redirect : {"absent", "notUnicode", "empty", "addr", "malformed"}]
TelemetryEnvironments ==
  {[Plain EXCEPT !.otlp = o, !.ca = c, !.debug = d] :
     o \in {"absent", "notUnicode", "empty", "http", "https", "unbuildable", "malformed"},
     c \in {"absent", "empty", "pem", "notPem"}, d \in BOOLEAN}
WrongWorlds ==
  [env : {env \in ListenerEnvironments \union TelemetryEnvironments : Misconfigured(env)},
   pair : {"good"}, ports : {AllPorts}, pid1 : {TRUE}]

AllWorlds == LifecycleWorlds \union WrongWorlds

\* The environments of the claims that fail.
BadPairWorlds == [env : {Production}, pair : {"bad"}, ports : {AllPorts}, pid1 : {TRUE}]
=============================================================================
