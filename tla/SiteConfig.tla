------------------------------ MODULE SiteConfig ------------------------------
(***************************************************************************)
(* How the server's startup configuration is resolved from its process     *)
(* environment: telemetry mode and transport trust, TLS intent, health and *)
(* redirect listeners, and the public base URL.  Every resolver is a pure  *)
(* operator over the raw value of a variable, as in the code; Server.tla   *)
(* runs them in the order main does.                                       *)
(*                                                                         *)
(* A raw value is abstracted to the classes the resolvers tell apart.      *)
(* "notUnicode" is a value that is present but not UTF-8: std::env::var    *)
(* reports it as an error, which every reader here turns into None.        *)
(***************************************************************************)

\* std::env::var(name).ok(): what the resolvers receive.
Read(raw) == IF raw = "notUnicode" THEN "absent" ELSE raw

\* The resolvers' shared `.filter(|s| !s.is_empty())`.
Filled(raw) == Read(raw) \notin {"absent", "empty"}

\* Result values, and the `?` operator that returns the first error.
Ok(value)  == [ok |-> TRUE,  is |-> value]
Err(error) == [ok |-> FALSE, is |-> error]
Try(result, rest) == IF result.ok THEN rest ELSE result

-----------------------------------------------------------------------------
\* The values each variable may hold when the process starts.  `leptos` stands
\* for the LEPTOS_* family, `debug` for a build with debug assertions.
Environment ==
  [otlp     : {"absent", "notUnicode", "empty", "http", "https", "unbuildable", "malformed"},
   ca       : {"absent", "empty", "pem", "notPem"},
   leptos   : {"dev", "prod", "malformed"},
   siteTls  : {"absent", "notUnicode", "empty", "on", "off", "other"},
   cert     : {"absent", "empty", "path"},
   key      : {"absent", "empty", "path"},
   health   : {"absent", "notUnicode", "empty", "addr", "malformed"},
   baseUrl  : {"absent", "notUnicode", "empty", "bare", "malformed"},
   redirect : {"absent", "notUnicode", "empty", "addr", "malformed"},
   debug    : BOOLEAN]

-----------------------------------------------------------------------------
(* Telemetry: TelemetryConfig::from_env followed by install. *)

\* TelemetryMode::resolve with OtlpEndpoint::parse: only a scheme with something
\* after it is accepted.
ResolveTelemetryMode(otlp) ==
  CASE ~Filled(otlp)                                -> Ok("disabled")
    [] Read(otlp) \in {"http", "https", "unbuildable"} -> Ok("exporting")
    [] OTHER                                        -> Err("Endpoint")

\* resolve_tls_trust: plaintext needs no trust, https needs a certificate and is
\* refused by release builds.
ResolveTlsTrust(otlp, ca, debug) ==
  IF Read(otlp) # "https" THEN Ok("none")
  ELSE IF debug /\ Filled(ca) THEN Ok("ca") ELSE Err("Tls")

\* load_tls_config: the trusted file must be readable and hold a PEM certificate.
LoadTlsConfig(ca) == IF ca = "pem" THEN Ok("ca") ELSE Err("Tls")

\* build_tracer_provider / build_logger_provider: an endpoint with an accepted
\* prefix may still not be a URI.
BuildProviders(otlp) == IF otlp = "unbuildable" THEN Err("Exporter") ELSE Ok("live")

\* from_env, then layers: the guard main will hold, or the fatal error.
InstallTelemetry(env) ==
  LET mode  == ResolveTelemetryMode(env.otlp)
      trust == ResolveTlsTrust(env.otlp, env.ca, env.debug)
      load  == IF trust.is = "ca" THEN LoadTlsConfig(env.ca) ELSE trust
  IN  Try(mode, IF mode.is = "disabled"
                THEN Ok("inert")
                ELSE Try(trust, Try(load, BuildProviders(env.otlp))))

-----------------------------------------------------------------------------
(* Listener configuration: TlsConfig::resolve. *)

\* resolve_switch: only `on` and `off` (any case) are accepted.
ResolveSwitch(raw) ==
  CASE ~Filled(raw)               -> Ok([enabled |-> FALSE, source |-> "defaulted"])
    [] Read(raw) = "on"           -> Ok([enabled |-> TRUE,  source |-> "declared"])
    [] Read(raw) = "off"          -> Ok([enabled |-> FALSE, source |-> "declared"])
    [] OTHER                      -> Err("Switch")

\* Slip: intent without material falls back to plain http.
ResolveTlsModeDowngrading(enabled, cert, key) ==
  IF enabled /\ Filled(cert) /\ Filled(key) THEN Ok("enabled") ELSE Ok("disabled")

\* TlsMode::resolve: declared intent and the certificate pair must agree.
ResolveTlsMode(enabled, cert, key) ==
  CASE enabled  /\ Filled(cert) /\ Filled(key)        -> Ok("enabled")
    [] enabled  /\ ~(Filled(cert) /\ Filled(key))     -> Err("RequiredButMissing")
    [] ~enabled /\ ~Filled(cert) /\ ~Filled(key)      -> Ok("disabled")
    [] ~enabled /\ (Filled(cert) \/ Filled(key))      -> Err("DisabledButConfigured")

\* resolve_health_addr.
ResolveHealthAddr(raw) ==
  CASE ~Filled(raw)          -> Ok(FALSE)
    [] Read(raw) = "addr"    -> Ok(TRUE)
    [] OTHER                 -> Err("HealthAddr")

\* TlsConfig::resolve: switch, then pair, then health address.
ResolveTlsConfig(env) ==
  LET switch == ResolveSwitch(env.siteTls)
      mode   == ResolveTlsMode(switch.is.enabled, env.cert, env.key)
      health == ResolveHealthAddr(env.health)
  IN  Try(switch, Try(mode, Try(health,
        Ok([mode |-> mode.is, health |-> health.is, source |-> switch.is.source]))))

-----------------------------------------------------------------------------
(* Public base URL and redirect listener. *)

\* resolve_public_base_url: unlike its siblings it does not treat an empty value
\* as absent - PublicBaseUrl::new rejects it.
ResolvePublicBaseUrl(isProd, raw) ==
  CASE Read(raw) = "bare"                -> Ok(TRUE)
    [] Read(raw) = "absent" /\ isProd    -> Err("BaseUrlMissingInProd")
    [] Read(raw) = "absent" /\ ~isProd   -> Ok(FALSE)
    [] OTHER                             -> Err("BaseUrlInvalid")

\* http_redirect::resolve: the address is judged before the missing target.
ResolveRedirect(raw, base) ==
  CASE ~Filled(raw)                      -> Ok(FALSE)
    [] Filled(raw) /\ Read(raw) # "addr" -> Err("Addr")
    [] Read(raw) = "addr" /\ ~base       -> Err("MissingBaseUrl")
    [] OTHER                             -> Ok(TRUE)

-----------------------------------------------------------------------------
\* main between installing telemetry and building the router: the first resolver
\* to fail aborts startup; otherwise the configuration the listeners are built from.
ResolveConfig(env) ==
  LET conf     == IF env.leptos = "malformed" THEN Err("Leptos") ELSE Ok(env.leptos)
      tls      == ResolveTlsConfig(env)
      base     == ResolvePublicBaseUrl(env.leptos = "prod", env.baseUrl)
      redirect == ResolveRedirect(env.redirect, base.is)
  IN  Try(conf, Try(tls, Try(base, Try(redirect,
        Ok([tls |-> tls.is.mode = "enabled", health |-> tls.is.health,
            base |-> base.is, redirect |-> redirect.is])))))

\* Before anything is resolved.
Unresolved == [tls |-> FALSE, health |-> FALSE, base |-> FALSE, redirect |-> FALSE]
=============================================================================
