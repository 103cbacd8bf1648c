------------------------------- MODULE Requests -------------------------------
(***************************************************************************)
(* Requests on the server's three listeners, through the layers each       *)
(* listener's router is built from.  The site router is an onion: a        *)
(* request travels inward until some layer answers it, the answer travels  *)
(* outward through the layers outside that one.  One poll takes a request  *)
(* from the edge to the layer that answers it, or to the application,      *)
(* which is the only place a request waits.  Requests meet at the rate     *)
(* limiter, which is used here as TokenBucket specifies it.                *)
(***************************************************************************)
EXTENDS Integers

CONSTANTS Reqs,      \* requests, each with the redirects its client follows
          Ips,       \* peer addresses
          Burst,     \* the limiter's burst
          Confs,     \* the configurations a run may resolve
          MaxHops    \* bound: redirects a client follows

\* What the routers are built from: transport, the public base URL's scheme, and
\* which auxiliary listeners there are.
Conf == [tls : BOOLEAN, base : {"none", "http", "https"}, health : BOOLEAN, redirect : BOOLEAN]

ASSUME RequestsAssumption ==
  /\ Confs \subseteq {conf \in Conf : conf.redirect => conf.base # "none"}
  /\ Burst \in Nat \ {0} /\ MaxHops \in Nat

VARIABLES
  conf,      \* fixed for the run
  flow,      \* per request: "unsent", "handling", "answered", "finished", "gone"
  asked,     \* per request, what was asked, and where
  reply,     \* per request, the answer's status and headers
  span,      \* per request, its span: "none", "open", "ended"
  recorded,  \* per request, the status its span carries
  charged,   \* per request, whether it spent budget
  hops,      \* per request, redirects followed
  spent,     \* the limiter's buckets
  verdict    \* and their latest answers

vars == <<conf, flow, asked, reply, span, recorded, charged, hops, spent, verdict>>

\* One unit of the bucket is one replenishment interval.
Bucket == INSTANCE TokenBucket WITH Cost <- 1, answer <- verdict

-----------------------------------------------------------------------------
(* The layers, by depth *)

Question == [listener : {"site", "health", "redirect"}, host : {"apex", "www"},
             path : {"readyz", "page"}, body : {"small", "oversized"}, ip : Ips]
Silence  == [status |-> 0, secured |-> FALSE, hsts |-> FALSE]

\* Slips: a layer added in the wrong order, or not added.
SiteWwwOutside == [www |-> 1, headers |-> 2, readyz |-> 3, governor |-> 4, trace |-> 5,
                   timeout |-> 6, limit |-> 7, panic |-> 8, app |-> 9]
SiteTraceInside == [headers |-> 1, www |-> 2, readyz |-> 3, governor |-> 4, timeout |-> 5,
                    limit |-> 6, panic |-> 7, trace |-> 8, app |-> 9]
SiteTraceOutside == [headers |-> 1, www |-> 2, readyz |-> 3, trace |-> 4, governor |-> 5,
                     timeout |-> 6, limit |-> 7, panic |-> 8, app |-> 9]
SiteUntimed == [headers |-> 1, www |-> 2, readyz |-> 3, governor |-> 4, trace |-> 5,
                limit |-> 6, panic |-> 7, app |-> 8]

\* router: /readyz is merged outside the governor, so it stands before it.
Site == [headers |-> 1, www |-> 2, readyz |-> 3, governor |-> 4, trace |-> 5,
         timeout |-> 6, limit |-> 7, panic |-> 8, app |-> 9]

\* health_app: nothing but /readyz, anything else is the router's own 404.
Health == [headers |-> 1, readyz |-> 2, missing |-> 3]

\* redirect_app: one fallback.
Redirect == [headers |-> 1, redirect |-> 2]

Depth(q) == CASE q.listener = "site"     -> Site
              [] q.listener = "health"   -> Health
              [] q.listener = "redirect" -> Redirect

Wraps(q, outer, inner) ==
  /\ outer \in DOMAIN Depth(q) /\ inner \in DOMAIN Depth(q)
  /\ Depth(q)[outer] < Depth(q)[inner]

\* Slip: any host but the configured one is taken for its www variant.
IsWwwLoosely(q) == conf.base # "none"

\* redirect_www: only www.<the base's host>, compared without port and case.
IsWww(q) == conf.base # "none" /\ q.host = "www"

\* Whether a layer answers a request itself.
Answers(layer, q) ==
  CASE layer = "www"      -> IsWww(q)
    [] layer = "readyz"   -> q.path = "readyz"
    [] layer = "governor" -> ~Bucket!Room(q.ip)
    [] layer = "limit"    -> q.body = "oversized"
    [] layer \in {"redirect", "missing", "app"} -> TRUE
    [] OTHER              -> FALSE

Answerer(q) ==
  CHOOSE layer \in DOMAIN Depth(q) :
    /\ Answers(layer, q)
    /\ \A other \in DOMAIN Depth(q) : Answers(other, q) => Depth(q)[layer] <= Depth(q)[other]

Status(layer) == CASE layer \in {"www", "redirect"} -> 301
                   [] layer = "readyz"              -> 200
                   [] layer = "governor"            -> 429
                   [] layer = "limit"               -> 413
                   [] layer = "missing"             -> 404

-----------------------------------------------------------------------------
Init ==
  /\ conf \in Confs
  /\ flow = [r \in Reqs |-> "unsent"] /\ asked \in [Reqs -> Question]
  /\ reply = [r \in Reqs |-> Silence]
  /\ span = [r \in Reqs |-> "none"] /\ recorded = [r \in Reqs |-> 0]
  /\ charged = [r \in Reqs |-> FALSE] /\ hops = [r \in Reqs |-> 0]
  /\ Bucket!Init
  /\ \A r \in Reqs : /\ asked[r].listener = "health" => conf.health
                     /\ asked[r].listener = "redirect" => conf.redirect

\* The governor's part of the way in, for a request stopped by `layer`.
Govern(r, layer) ==
  IF layer = "governor" THEN Bucket!Deny(asked[r].ip) /\ UNCHANGED charged
  ELSE IF Wraps(asked[r], "governor", layer)
         THEN Bucket!Allow(asked[r].ip) /\ charged' = [charged EXCEPT ![r] = TRUE]
         ELSE UNCHANGED <<spent, verdict, charged>>

\* The way out: a reply made by `layer` passes the layers outside it, of which the
\* trace layer records its status and the outermost adds the headers.
ReplyFrom(r, layer, status) ==
  LET q == asked[r] IN
  /\ flow' = [flow EXCEPT ![r] = "answered"]
  /\ reply' = [reply EXCEPT ![r] =
       [status |-> status, secured |-> Wraps(q, "headers", layer),
        hsts |-> Wraps(q, "headers", layer) /\ q.listener = "site" /\ conf.tls]]
  /\ recorded' = [recorded EXCEPT ![r] = IF Wraps(q, "trace", layer) THEN status ELSE @]

\* A request some layer answers without the application: its span, if it got one,
\* covers the reply.
Turn(r) ==
  LET layer == Answerer(asked[r]) IN
  /\ flow[r] = "unsent" /\ layer # "app"
  /\ Govern(r, layer)
  /\ span' = [span EXCEPT ![r] = IF Wraps(asked[r], "trace", layer) THEN "open" ELSE @]
  /\ ReplyFrom(r, layer, Status(layer))
  /\ UNCHANGED <<conf, asked, hops>>

\* A request that reaches the application and waits for it.
Dispatch(r) ==
  /\ flow[r] = "unsent" /\ Answerer(asked[r]) = "app"
  /\ Govern(r, "app")
  /\ span' = [span EXCEPT ![r] = IF Wraps(asked[r], "trace", "app") THEN "open" ELSE @]
  /\ flow' = [flow EXCEPT ![r] = "handling"]
  /\ UNCHANGED <<conf, asked, reply, recorded, hops>>

\* The application: a page, the fallback's 404, or an error page.
AppReplies(r) ==
  /\ flow[r] = "handling"
  /\ \E status \in {200, 404, 500} : ReplyFrom(r, "app", status)
  /\ UNCHANGED <<conf, asked, span, charged, hops, spent, verdict>>

\* It panics: the layer that catches it replies.
AppPanics(r) ==
  /\ flow[r] = "handling"
  /\ ReplyFrom(r, "panic", 500)
  /\ UNCHANGED <<conf, asked, span, charged, hops, spent, verdict>>

\* It takes longer than REQUEST_TIMEOUT: its future is dropped.
TimesOut(r) ==
  /\ flow[r] = "handling" /\ "timeout" \in DOMAIN Depth(asked[r])
  /\ ReplyFrom(r, "timeout", 408)
  /\ UNCHANGED <<conf, asked, span, charged, hops, spent, verdict>>

\* The client is gone before there is a reply, and the request with it.
Leaves(r) ==
  /\ flow[r] = "handling"
  /\ flow' = [flow EXCEPT ![r] = "gone"]
  /\ span' = [span EXCEPT ![r] = IF @ = "open" THEN "ended" ELSE @]
  /\ UNCHANGED <<conf, asked, reply, recorded, charged, hops, spent, verdict>>

\* The body is streamed to its end, or the connection closes under it; the span
\* lives as long as the body.
BodyEnds(r) ==
  /\ flow[r] = "answered"
  /\ flow' = [flow EXCEPT ![r] = "finished"]
  /\ span' = [span EXCEPT ![r] = IF @ = "open" THEN "ended" ELSE @]
  /\ UNCHANGED <<conf, asked, reply, recorded, charged, hops, spent, verdict>>

\* Where the public base URL leads: with TLS the site is behind https and the
\* redirect listener behind http, without it the site is behind http.
Target == CASE conf.base = "https" /\ conf.tls                  -> "site"
            [] conf.base = "http" /\ ~conf.tls                  -> "site"
            [] conf.base = "http" /\ conf.tls /\ conf.redirect  -> "redirect"
            [] OTHER                                            -> "nowhere"

\* A client follows a 301 to <base><path>: a new request, to the base's own host.
Follow(r) ==
  /\ flow[r] = "finished" /\ reply[r].status = 301 /\ hops[r] < MaxHops
  /\ Target # "nowhere"
  /\ hops' = [hops EXCEPT ![r] = @ + 1]
  /\ asked' = [asked EXCEPT ![r].listener = Target, ![r].host = "apex"]
  /\ flow' = [flow EXCEPT ![r] = "unsent"]
  /\ reply' = [reply EXCEPT ![r] = Silence]
  /\ span' = [span EXCEPT ![r] = "none"] /\ recorded' = [recorded EXCEPT ![r] = 0]
  /\ charged' = [charged EXCEPT ![r] = FALSE]
  /\ UNCHANGED <<conf, spent, verdict>>

\* A replenishment interval passes.
Refill == /\ \E ip \in Ips : spent[ip] > 0
          /\ Bucket!Refill
          /\ UNCHANGED <<conf, flow, asked, reply, span, recorded, charged, hops>>

Step(r) == \/ Turn(r) \/ Dispatch(r) \/ AppReplies(r) \/ AppPanics(r) \/ TimesOut(r)
           \/ Leaves(r) \/ BodyEnds(r) \/ Follow(r)

Next == Refill \/ \E r \in Reqs : Step(r)

Spec == Init /\ [][Next]_vars

\* The runtime's timer fires: nothing is assumed of the application or of clients.
Fairness == \A r \in Reqs : WF_vars(TimesOut(r))

FairSpec == Spec /\ Fairness

-----------------------------------------------------------------------------
(* Properties *)

TypeOK ==
  /\ conf \in Confs
  /\ flow \in [Reqs -> {"unsent", "handling", "answered", "finished", "gone"}]
  /\ asked \in [Reqs -> Question]
  /\ reply \in [Reqs -> [status : {0, 200, 301, 404, 408, 413, 429, 500},
                         secured : BOOLEAN, hsts : BOOLEAN]]
  /\ span \in [Reqs -> {"none", "open", "ended"}]
  /\ recorded \in [Reqs -> {0, 200, 404, 408, 413, 500}]
  /\ charged \in [Reqs -> BOOLEAN]
  /\ hops \in [Reqs -> 0..MaxHops]
  /\ spent \in [Ips -> 0..Burst]
  /\ verdict \in [Ips -> {"none", "allow", "deny"}]

Replied(r) == flow[r] \in {"answered", "finished"}

\* lib.rs:152-157, security.rs:33-36: whatever layer answers, on whatever listener,
\* the reply carries the constant headers, and HSTS exactly if it went over TLS.
EveryReplySecured ==
  \A r \in Reqs : Replied(r) =>
    /\ reply[r].secured
    /\ reply[r].hsts <=> asked[r].listener = "site" /\ conf.tls

\* lib.rs:129-133: a reply inside a span, synthesized ones included, is the one the
\* span reports: 413, 408 and the 500 of a panic no less than the page's own.
SpanTellsTheReply ==
  \A r \in Reqs : Replied(r) /\ span[r] # "none" => recorded[r] = reply[r].status

\* lib.rs:145-147 and 156-157: a span is paid for out of the peer's budget and the
\* budget buys nothing else, so neither a rejected flood, nor redirects, nor probes
\* cost spans or use up a peer's budget; and a probe is answered 200, or led to the
\* base's own host, however much its peer has spent.
SpansArePaidFor ==
  \A r \in Reqs :
    /\ charged[r] <=> span[r] # "none"
    /\ Replied(r) /\ asked[r].path = "readyz" => reply[r].status \in {200, 301}

\* www_redirect.rs:3-6: the target never disagrees with the site's identity - a
\* followed redirect is served and not redirected again, provided the base URL names
\* the transport the site is served over.
OneRedirect ==
  conf.tls = (conf.base = "https") =>
    \A r \in Reqs : hops[r] > 0 /\ Replied(r) => reply[r].status # 301

\* limits.rs:24-25, lib.rs:69-71: a request that reached the application gets a reply,
\* or its client left, even if the application panics or never answers.
Answered ==
  \A r \in Reqs : flow[r] = "handling" ~> flow[r] \in {"answered", "finished", "gone"}
=============================================================================
