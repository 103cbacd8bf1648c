---------------------------- MODULE Requests_proofs ----------------------------
(***************************************************************************)
(* Proofs about Requests: what its run checks of the layers' order, for    *)
(* any requests, peers, burst, configurations and number of redirects.     *)
(***************************************************************************)
EXTENDS Requests, TLAPS

-----------------------------------------------------------------------------
(* Layers *)

SiteLayers == {"headers", "www", "readyz", "governor", "trace", "timeout", "limit", "panic", "app"}

LEMMA SiteDepths ==
  /\ DOMAIN Site = SiteLayers
  /\ Site["headers"] = 1 /\ Site["www"] = 2 /\ Site["readyz"] = 3 /\ Site["governor"] = 4
  /\ Site["trace"] = 5 /\ Site["timeout"] = 6 /\ Site["limit"] = 7 /\ Site["panic"] = 8
  /\ Site["app"] = 9
BY DEF Site, SiteLayers

LEMMA HealthDepths ==
  /\ DOMAIN Health = {"headers", "readyz", "missing"}
  /\ Health["headers"] = 1 /\ Health["readyz"] = 2 /\ Health["missing"] = 3
BY DEF Health

LEMMA RedirectDepths ==
  /\ DOMAIN Redirect = {"headers", "redirect"}
  /\ Redirect["headers"] = 1 /\ Redirect["redirect"] = 2
BY DEF Redirect

LEMMA LayerAnswers ==
  ASSUME NEW q \in Question
  PROVE  /\ Answers("www", q) <=> IsWww(q)
         /\ Answers("readyz", q) <=> q.path = "readyz"
         /\ Answers("governor", q) <=> ~Bucket!Room(q.ip)
         /\ Answers("limit", q) <=> q.body = "oversized"
         /\ Answers("redirect", q) /\ Answers("missing", q) /\ Answers("app", q)
         /\ ~Answers("headers", q) /\ ~Answers("trace", q) /\ ~Answers("timeout", q)
         /\ ~Answers("panic", q)
BY DEF Answers

LEMMA Depths ==
  ASSUME NEW q \in Question
  PROVE  /\ q.listener \in {"site", "health", "redirect"}
         /\ q.listener = "site" => Depth(q) = Site
         /\ q.listener = "health" => Depth(q) = Health
         /\ q.listener = "redirect" => Depth(q) = Redirect
BY DEF Question, Depth

\* A layer that answers and is outside all others that would is the one that does.
LEMMA OutermostAnswers ==
  ASSUME NEW q \in Question, NEW layer \in DOMAIN Depth(q), Answers(layer, q),
         \A other \in DOMAIN Depth(q) :
           Answers(other, q) => other = layer \/ ~(Depth(q)[other] <= Depth(q)[layer]),
         \A other \in DOMAIN Depth(q) : Answers(other, q) => Depth(q)[layer] <= Depth(q)[other]
  PROVE  Answerer(q) = layer
<1> DEFINE P(l) == /\ l \in DOMAIN Depth(q) /\ Answers(l, q)
                   /\ \A other \in DOMAIN Depth(q) : Answers(other, q) => Depth(q)[l] <= Depth(q)[other]
<1>1. P(layer)
  OBVIOUS
<1>2. \A l : P(l) => l = layer
  <2> SUFFICES ASSUME NEW l, P(l) PROVE l = layer
    OBVIOUS
  <2>1. Depth(q)[l] <= Depth(q)[layer]
    OBVIOUS
  <2>2. QED
    BY <2>1
<1>3. Answerer(q) = CHOOSE l \in DOMAIN Depth(q) : P(l)
  BY DEF Answerer
<1> HIDE DEF P
<1>4. QED
  BY <1>1, <1>2, <1>3

\* Who answers on the site listener, from the outside in.
LEMMA SiteAnswerer ==
  ASSUME NEW q \in Question, q.listener = "site"
  PROVE  /\ IsWww(q) => Answerer(q) = "www"
         /\ ~IsWww(q) /\ q.path = "readyz" => Answerer(q) = "readyz"
         /\ ~IsWww(q) /\ q.path # "readyz" /\ ~Bucket!Room(q.ip) => Answerer(q) = "governor"
         /\ ~IsWww(q) /\ q.path # "readyz" /\ Bucket!Room(q.ip) /\ q.body = "oversized"
              => Answerer(q) = "limit"
         /\ ~IsWww(q) /\ q.path # "readyz" /\ Bucket!Room(q.ip) /\ q.body # "oversized"
              => Answerer(q) = "app"
<1> USE Depths, SiteDepths, LayerAnswers DEF SiteLayers
<1>1. CASE IsWww(q)
  BY <1>1, OutermostAnswers
<1>2. CASE ~IsWww(q) /\ q.path = "readyz"
  BY <1>2, OutermostAnswers
<1>3. CASE ~IsWww(q) /\ q.path # "readyz" /\ ~Bucket!Room(q.ip)
  BY <1>3, OutermostAnswers
<1>4. CASE ~IsWww(q) /\ q.path # "readyz" /\ Bucket!Room(q.ip) /\ q.body = "oversized"
  BY <1>4, OutermostAnswers
<1>5. CASE ~IsWww(q) /\ q.path # "readyz" /\ Bucket!Room(q.ip) /\ q.body # "oversized"
  BY <1>5, OutermostAnswers
<1>6. QED
  BY <1>1, <1>2, <1>3, <1>4, <1>5

LEMMA HealthAnswerer ==
  ASSUME NEW q \in Question, q.listener = "health"
  PROVE  Answerer(q) = IF q.path = "readyz" THEN "readyz" ELSE "missing"
<1> USE Depths, HealthDepths, LayerAnswers
<1>1. CASE q.path = "readyz"
  BY <1>1, OutermostAnswers
<1>2. CASE q.path # "readyz"
  BY <1>2, OutermostAnswers
<1>3. QED
  BY <1>1, <1>2

LEMMA RedirectAnswerer ==
  ASSUME NEW q \in Question, q.listener = "redirect"
  PROVE  Answerer(q) = "redirect"
BY Depths, RedirectDepths, LayerAnswers, OutermostAnswers

\* What a request meets on its way to whoever answers it: always the headers, the
\* governor and the trace layer both or neither, and never a probe.
LEMMA WayIn ==
  ASSUME NEW q \in Question
  PROVE  /\ Wraps(q, "headers", Answerer(q))
         /\ Answerer(q) \in {"www", "readyz", "governor", "limit", "missing", "redirect", "app"}
         /\ Wraps(q, "governor", Answerer(q)) <=> Wraps(q, "trace", Answerer(q))
         /\ Wraps(q, "governor", Answerer(q)) => Bucket!Room(q.ip)
         /\ Answerer(q) = "governor" => ~Bucket!Room(q.ip) /\ ~Wraps(q, "trace", "governor")
         /\ Answerer(q) = "app" =>
              q.listener = "site" /\ q.path # "readyz" /\ Wraps(q, "trace", "app")
         /\ q.path = "readyz" => Answerer(q) \in {"www", "readyz", "redirect"}
         /\ q.listener = "site" /\ ~IsWww(q) => Answerer(q) \notin {"www", "redirect"}
<1> USE Depths DEF Wraps
<1>1. CASE q.listener = "site"
  BY <1>1, SiteAnswerer, SiteDepths DEF SiteLayers
<1>2. CASE q.listener = "health"
  BY <1>2, HealthAnswerer, HealthDepths
<1>3. CASE q.listener = "redirect"
  BY <1>3, RedirectAnswerer, RedirectDepths
<1>4. QED
  BY <1>1, <1>2, <1>3

\* No redirect and no rejection has a span.
LEMMA TracedLayers ==
  ASSUME NEW q \in Question, Wraps(q, "trace", Answerer(q))
  PROVE  Answerer(q) \notin {"www", "redirect", "governor", "readyz", "missing"}
<1> USE Depths DEF Wraps
<1>1. CASE q.listener = "site"
  BY <1>1, SiteAnswerer, SiteDepths DEF SiteLayers
<1>2. CASE q.listener = "health"
  BY <1>2, HealthDepths
<1>3. CASE q.listener = "redirect"
  BY <1>3, RedirectDepths
<1>4. QED
  BY <1>1, <1>2, <1>3

\* A reply made at the application, or around it, passes the trace layer and the headers.
LEMMA WayOut ==
  ASSUME NEW q \in Question, q.listener = "site", NEW layer \in {"app", "panic", "timeout"}
  PROVE  Wraps(q, "headers", layer) /\ Wraps(q, "trace", layer)
BY Depths, SiteDepths DEF Wraps, SiteLayers

LEMMA Statuses ==
  /\ Status("www") = 301 /\ Status("redirect") = 301 /\ Status("readyz") = 200
  /\ Status("governor") = 429 /\ Status("limit") = 413 /\ Status("missing") = 404
BY DEF Status

-----------------------------------------------------------------------------
(* The inductive invariant *)

\* What is known of a request: before it is sent, while the application has it, once it
\* is replied to, and after a redirect was followed.
RequestOK(r) ==
  /\ flow[r] = "unsent" => span[r] = "none" /\ recorded[r] = 0 /\ charged[r] = FALSE
  /\ flow[r] = "handling" =>
       asked[r].listener = "site" /\ asked[r].path # "readyz" /\ span[r] = "open"
  /\ Replied(r) =>
       /\ reply[r].secured
       /\ reply[r].hsts <=> asked[r].listener = "site" /\ conf.tls
       /\ span[r] # "none" => recorded[r] = reply[r].status
       /\ asked[r].path = "readyz" => reply[r].status \in {200, 301}
  /\ charged[r] <=> span[r] # "none"
  /\ hops[r] > 0 =>
       /\ asked[r].listener = Target /\ asked[r].host = "apex"
       /\ Replied(r) /\ conf.tls = (conf.base = "https") => reply[r].status # 301

IInv == TypeOK /\ \A r \in Reqs : RequestOK(r)

\* A request none of whose state changes is as it was.
LEMMA Untouched ==
  ASSUME NEW r \in Reqs, RequestOK(r), conf' = conf, flow'[r] = flow[r], asked'[r] = asked[r],
         reply'[r] = reply[r], span'[r] = span[r], recorded'[r] = recorded[r],
         charged'[r] = charged[r], hops'[r] = hops[r]
  PROVE  RequestOK(r)'
BY DEF RequestOK, Replied, Target

LEMMA InitIInv == Init => IInv
<1> SUFFICES ASSUME Init PROVE IInv
  OBVIOUS
<1>1. spent \in [Ips -> 0..Burst] /\ verdict \in [Ips -> {"none", "allow", "deny"}]
  BY RequestsAssumption DEF Init, Bucket!Init
<1>2. hops \in [Reqs -> 0..MaxHops]
  BY RequestsAssumption DEF Init
<1>3. reply \in [Reqs -> [status : {0, 200, 301, 404, 408, 413, 429, 500},
                         secured : BOOLEAN, hsts : BOOLEAN]]
  BY DEF Init, Silence
<1>4. TypeOK
  BY <1>1, <1>2, <1>3 DEF Init, TypeOK
<1>5. ASSUME NEW r \in Reqs PROVE RequestOK(r)
  <2>1. flow[r] = "unsent" /\ span[r] = "none" /\ recorded[r] = 0 /\ hops[r] = 0
    BY DEF Init
  <2>2. charged[r] = FALSE
    BY DEF Init
  <2>3. QED
    BY <2>1, <2>2 DEF RequestOK, Replied
<1>6. QED
  BY <1>4, <1>5 DEF IInv

\* The budget stays within the burst.
LEMMA Governed ==
  ASSUME TypeOK, NEW r \in Reqs, Govern(r, Answerer(asked[r]))
  PROVE  /\ spent' \in [Ips -> 0..Burst] /\ verdict' \in [Ips -> {"none", "allow", "deny"}]
         /\ charged' \in [Reqs -> BOOLEAN]
         /\ \A q \in Reqs : q # r => charged'[q] = charged[q]
         /\ Wraps(asked[r], "trace", Answerer(asked[r])) => charged'[r] = TRUE
         /\ ~Wraps(asked[r], "trace", Answerer(asked[r])) => charged'[r] = charged[r]
<1> DEFINE layer == Answerer(asked[r])
<1>1. asked[r] \in Question /\ asked[r].ip \in Ips
  BY DEF TypeOK, Question
<1>2. /\ Wraps(asked[r], "governor", layer) <=> Wraps(asked[r], "trace", layer)
      /\ layer = "governor" => ~Wraps(asked[r], "trace", layer)
  BY <1>1, WayIn
<1> HIDE DEF layer
<1>3. CASE layer = "governor"
  <2>1. Bucket!Deny(asked[r].ip) /\ UNCHANGED charged
    BY <1>3 DEF Govern, layer
  <2>2. QED
    BY <1>1, <1>2, <1>3, <2>1 DEF Bucket!Deny, TypeOK, layer
<1>4. CASE layer # "governor" /\ Wraps(asked[r], "governor", layer)
  <2>1. Bucket!Allow(asked[r].ip) /\ charged' = [charged EXCEPT ![r] = TRUE]
    BY <1>4 DEF Govern, layer
  <2>2. spent' \in [Ips -> 0..Burst] /\ verdict' \in [Ips -> {"none", "allow", "deny"}]
    BY <1>1, <2>1, RequestsAssumption DEF Bucket!Allow, Bucket!Room, TypeOK
  <2>3. /\ charged' \in [Reqs -> BOOLEAN] /\ charged'[r] = TRUE
        /\ \A q \in Reqs : q # r => charged'[q] = charged[q]
    BY <2>1 DEF TypeOK
  <2>4. Wraps(asked[r], "trace", layer)
    BY <1>2, <1>4
  <2>5. QED
    BY <2>2, <2>3, <2>4 DEF layer
<1>5. CASE layer # "governor" /\ ~Wraps(asked[r], "governor", layer)
  <2>1. UNCHANGED <<spent, verdict, charged>>
    BY <1>5 DEF Govern, layer
  <2>2. QED
    BY <1>2, <1>5, <2>1 DEF TypeOK, layer
<1>6. QED
  BY <1>3, <1>4, <1>5

\* What a reply changes, for the request it answers and for no other.
LEMMA RepliedFrom ==
  ASSUME TypeOK, NEW r \in Reqs, NEW layer, NEW status \in {200, 301, 404, 408, 413, 429, 500},
         ReplyFrom(r, layer, status), Wraps(asked[r], "headers", layer),
         Wraps(asked[r], "trace", layer) => status \in {200, 404, 408, 413, 500}
  PROVE  /\ flow' \in [Reqs -> {"unsent", "handling", "answered", "finished", "gone"}]
         /\ flow'[r] = "answered" /\ \A q \in Reqs : q # r => flow'[q] = flow[q]
         /\ reply' \in [Reqs -> [status : {0, 200, 301, 404, 408, 413, 429, 500},
                                 secured : BOOLEAN, hsts : BOOLEAN]]
         /\ reply'[r].status = status /\ reply'[r].secured
         /\ reply'[r].hsts <=> asked[r].listener = "site" /\ conf.tls
         /\ \A q \in Reqs : q # r => reply'[q] = reply[q]
         /\ recorded' \in [Reqs -> {0, 200, 404, 408, 413, 500}]
         /\ Wraps(asked[r], "trace", layer) => recorded'[r] = status
         /\ \A q \in Reqs : q # r => recorded'[q] = recorded[q]
<1> DEFINE answer == [status |-> status, secured |-> Wraps(asked[r], "headers", layer),
                      hsts |-> Wraps(asked[r], "headers", layer)
                               /\ asked[r].listener = "site" /\ conf.tls]
<1>1. /\ flow' = [flow EXCEPT ![r] = "answered"] /\ reply' = [reply EXCEPT ![r] = answer]
      /\ recorded' = [recorded EXCEPT ![r] =
                        IF Wraps(asked[r], "trace", layer) THEN status ELSE @]
  BY DEF ReplyFrom
<1>2. answer.status = status
  OBVIOUS
<1>3. answer.secured
  OBVIOUS
<1>4. answer.hsts <=> asked[r].listener = "site" /\ conf.tls
  OBVIOUS
<1>5. answer \in [status : {0, 200, 301, 404, 408, 413, 429, 500},
                  secured : BOOLEAN, hsts : BOOLEAN]
  BY DEF Wraps
<1> HIDE DEF answer
<1>6. /\ reply'[r] = answer
      /\ \A q \in Reqs : q # r => reply'[q] = reply[q]
      /\ reply' \in [Reqs -> [status : {0, 200, 301, 404, 408, 413, 429, 500},
                              secured : BOOLEAN, hsts : BOOLEAN]]
  BY <1>1, <1>5 DEF TypeOK
<1>7. QED
  BY <1>1, <1>2, <1>3, <1>4, <1>6 DEF TypeOK

-----------------------------------------------------------------------------
(* Steps *)

LEMMA TurnIInv ==
  ASSUME IInv, NEW r \in Reqs, Turn(r)
  PROVE  IInv'
<1> DEFINE layer == Answerer(asked[r])
           traced == Wraps(asked[r], "trace", layer)
<1>1. /\ flow[r] = "unsent" /\ layer # "app" /\ Govern(r, layer)
      /\ span' = [span EXCEPT ![r] = IF traced THEN "open" ELSE @]
      /\ ReplyFrom(r, layer, Status(layer)) /\ UNCHANGED <<conf, asked, hops>>
  BY DEF Turn
<1>2. asked[r] \in Question /\ TypeOK
  BY DEF IInv, TypeOK
<1>3. /\ Wraps(asked[r], "headers", layer)
      /\ layer \in {"www", "readyz", "governor", "limit", "missing", "redirect"}
      /\ traced => layer \notin {"www", "redirect", "governor"}
      /\ asked[r].path = "readyz" => layer \in {"www", "readyz", "redirect"}
      /\ asked[r].listener = "site" /\ ~IsWww(asked[r]) => layer \notin {"www", "redirect"}
  BY <1>1, <1>2, WayIn, TracedLayers
<1>4. /\ spent' \in [Ips -> 0..Burst] /\ verdict' \in [Ips -> {"none", "allow", "deny"}]
      /\ charged' \in [Reqs -> BOOLEAN]
      /\ \A q \in Reqs : q # r => charged'[q] = charged[q]
      /\ traced => charged'[r] = TRUE
      /\ ~traced => charged'[r] = charged[r]
  BY <1>1, <1>2, Governed
<1> HIDE DEF layer, traced
<1>5. /\ Status(layer) \in {200, 301, 404, 413, 429}
      /\ traced => Status(layer) \in {200, 404, 413}
      /\ Status(layer) = 301 => layer \in {"www", "redirect"}
      /\ asked[r].path = "readyz" => Status(layer) \in {200, 301}
  BY <1>3, Statuses
<1>6. /\ flow' \in [Reqs -> {"unsent", "handling", "answered", "finished", "gone"}]
      /\ flow'[r] = "answered" /\ \A q \in Reqs : q # r => flow'[q] = flow[q]
      /\ reply' \in [Reqs -> [status : {0, 200, 301, 404, 408, 413, 429, 500},
                              secured : BOOLEAN, hsts : BOOLEAN]]
      /\ reply'[r].status = Status(layer) /\ reply'[r].secured
      /\ reply'[r].hsts <=> asked[r].listener = "site" /\ conf.tls
      /\ \A q \in Reqs : q # r => reply'[q] = reply[q]
      /\ recorded' \in [Reqs -> {0, 200, 404, 408, 413, 500}]
      /\ traced => recorded'[r] = Status(layer)
      /\ \A q \in Reqs : q # r => recorded'[q] = recorded[q]
  BY <1>1, <1>2, <1>3, <1>5, RepliedFrom DEF traced
<1>7. /\ span' \in [Reqs -> {"none", "open", "ended"}]
      /\ span'[r] = (IF traced THEN "open" ELSE span[r])
      /\ \A q \in Reqs : q # r => span'[q] = span[q]
  BY <1>1, <1>2 DEF TypeOK
<1>8. TypeOK'
  BY <1>1, <1>2, <1>4, <1>6, <1>7 DEF TypeOK
<1>9. ASSUME NEW q \in Reqs PROVE RequestOK(q)'
  <2>1. CASE q # r
    BY <1>1, <1>4, <1>6, <1>7, <2>1, Untouched DEF IInv
  <2>2. CASE q = r
    <3>1. RequestOK(r) /\ span[r] = "none" /\ charged[r] = FALSE
      BY <1>1 DEF IInv, RequestOK
    <3>2. charged'[r] <=> span'[r] # "none"
      BY <1>4, <1>7, <3>1
    <3>3. span'[r] # "none" => recorded'[r] = reply'[r].status
      BY <1>6, <1>7, <3>1
    <3>4. hops[r] > 0 =>
            /\ asked[r].listener = Target /\ asked[r].host = "apex"
            /\ conf.tls = (conf.base = "https") => Status(layer) # 301
      <4>1. SUFFICES ASSUME hops[r] > 0, conf.tls = (conf.base = "https")
                     PROVE  Status(layer) # 301
        BY <3>1 DEF RequestOK
      <4>2. asked[r].listener = Target /\ asked[r].host = "apex"
        BY <3>1, <4>1 DEF RequestOK
      <4>3. Target \in {"site", "nowhere"}
        BY <4>1 DEF Target
      <4>4. asked[r].listener = "site" /\ ~IsWww(asked[r])
        BY <1>2, <4>2, <4>3 DEF Question, IsWww
      <4>5. QED
        BY <1>3, <1>5, <4>4
    <3>5. QED
      BY <1>1, <1>5, <1>6, <2>2, <3>2, <3>3, <3>4 DEF RequestOK, Replied, Target
  <2>3. QED
    BY <2>1, <2>2
<1>10. QED
  BY <1>8, <1>9 DEF IInv

LEMMA DispatchIInv ==
  ASSUME IInv, NEW r \in Reqs, Dispatch(r)
  PROVE  IInv'
<1>1. /\ flow[r] = "unsent" /\ Answerer(asked[r]) = "app"
      /\ Govern(r, Answerer(asked[r]))
      /\ span' = [span EXCEPT ![r] = IF Wraps(asked[r], "trace", "app") THEN "open" ELSE @]
      /\ flow' = [flow EXCEPT ![r] = "handling"]
      /\ UNCHANGED <<conf, asked, reply, recorded, hops>>
  BY DEF Dispatch
<1>2. asked[r] \in Question /\ TypeOK
  BY DEF IInv, TypeOK
<1>3. /\ asked[r].listener = "site" /\ asked[r].path # "readyz"
      /\ Wraps(asked[r], "trace", Answerer(asked[r]))
  BY <1>1, <1>2, WayIn
<1>4. /\ spent' \in [Ips -> 0..Burst] /\ verdict' \in [Ips -> {"none", "allow", "deny"}]
      /\ charged' \in [Reqs -> BOOLEAN] /\ charged'[r] = TRUE
      /\ \A q \in Reqs : q # r => charged'[q] = charged[q]
  BY <1>1, <1>2, <1>3, Governed
<1>5. /\ span' \in [Reqs -> {"none", "open", "ended"}] /\ span'[r] = "open"
      /\ \A q \in Reqs : q # r => span'[q] = span[q]
      /\ flow' \in [Reqs -> {"unsent", "handling", "answered", "finished", "gone"}]
      /\ flow'[r] = "handling" /\ \A q \in Reqs : q # r => flow'[q] = flow[q]
  BY <1>1, <1>2, <1>3 DEF TypeOK
<1>6. TypeOK'
  BY <1>1, <1>2, <1>4, <1>5 DEF TypeOK
<1>7. ASSUME NEW q \in Reqs PROVE RequestOK(q)'
  <2>1. CASE q # r
    BY <1>1, <1>4, <1>5, <2>1, Untouched DEF IInv
  <2>2. CASE q = r
    <3>1. RequestOK(r)
      BY DEF IInv
    <3>2. charged'[r] <=> span'[r] # "none"
      BY <1>4, <1>5
    <3>3. QED
      BY <1>1, <1>3, <1>5, <2>2, <3>1, <3>2 DEF RequestOK, Replied, Target
  <2>3. QED
    BY <2>1, <2>2
<1>8. QED
  BY <1>6, <1>7 DEF IInv

\* The application's replies, its panic's and its deadline's.
LEMMA ReplyIInv ==
  ASSUME IInv, NEW r \in Reqs, flow[r] = "handling", NEW layer \in {"app", "panic", "timeout"},
         NEW status \in {200, 404, 408, 500}, ReplyFrom(r, layer, status),
         UNCHANGED <<conf, asked, span, charged, hops, spent, verdict>>
  PROVE  IInv'
<1>1. asked[r] \in Question /\ TypeOK /\ RequestOK(r)
  BY DEF IInv, TypeOK
<1>2. asked[r].listener = "site" /\ asked[r].path # "readyz" /\ span[r] = "open"
  BY <1>1 DEF RequestOK
<1>3. Wraps(asked[r], "headers", layer) /\ Wraps(asked[r], "trace", layer)
  BY <1>1, <1>2, WayOut
<1>4. /\ flow' \in [Reqs -> {"unsent", "handling", "answered", "finished", "gone"}]
      /\ flow'[r] = "answered" /\ \A q \in Reqs : q # r => flow'[q] = flow[q]
      /\ reply' \in [Reqs -> [status : {0, 200, 301, 404, 408, 413, 429, 500},
                              secured : BOOLEAN, hsts : BOOLEAN]]
      /\ reply'[r].status = status /\ reply'[r].secured
      /\ reply'[r].hsts <=> asked[r].listener = "site" /\ conf.tls
      /\ \A q \in Reqs : q # r => reply'[q] = reply[q]
      /\ recorded' \in [Reqs -> {0, 200, 404, 408, 413, 500}]
      /\ recorded'[r] = status
      /\ \A q \in Reqs : q # r => recorded'[q] = recorded[q]
  BY <1>1, <1>3, RepliedFrom
<1>5. TypeOK'
  BY <1>1, <1>4 DEF TypeOK
<1>6. ASSUME NEW q \in Reqs PROVE RequestOK(q)'
  <2>1. CASE q # r
    BY <1>4, <2>1, Untouched DEF IInv
  <2>2. CASE q = r
    <3>1. charged'[r] <=> span'[r] # "none"
      BY <1>1 DEF RequestOK
    <3>2. hops[r] > 0 => asked[r].listener = Target /\ asked[r].host = "apex"
      BY <1>1 DEF RequestOK
    <3>3. status # 301
      OBVIOUS
    <3>4. QED
      BY <1>2, <1>4, <2>2, <3>1, <3>2, <3>3 DEF RequestOK, Replied, Target
  <2>3. QED
    BY <2>1, <2>2
<1>7. QED
  BY <1>5, <1>6 DEF IInv

\* A request that ends, with a reply or without, ends its span.
LEMMA EndIInv ==
  ASSUME IInv, NEW r \in Reqs, NEW to,
         (flow[r] = "handling" /\ to = "gone") \/ (flow[r] = "answered" /\ to = "finished"),
         flow' = [flow EXCEPT ![r] = to],
         span' = [span EXCEPT ![r] = IF @ = "open" THEN "ended" ELSE @],
         UNCHANGED <<conf, asked, reply, recorded, charged, hops, spent, verdict>>
  PROVE  IInv'
<1>1. TypeOK /\ RequestOK(r)
  BY DEF IInv
<1>2. /\ flow' \in [Reqs -> {"unsent", "handling", "answered", "finished", "gone"}]
      /\ flow'[r] = to /\ \A q \in Reqs : q # r => flow'[q] = flow[q]
      /\ span' \in [Reqs -> {"none", "open", "ended"}]
      /\ span'[r] = "none" <=> span[r] = "none"
      /\ \A q \in Reqs : q # r => span'[q] = span[q]
  BY <1>1 DEF TypeOK
<1>3. TypeOK'
  BY <1>1, <1>2 DEF TypeOK
<1>4. ASSUME NEW q \in Reqs PROVE RequestOK(q)'
  <2>1. CASE q # r
    BY <1>2, <2>1, Untouched DEF IInv
  <2>2. CASE q = r
    <3>1. charged'[r] <=> span'[r] # "none"
      BY <1>1, <1>2 DEF RequestOK
    <3>2. QED
      BY <1>1, <1>2, <2>2, <3>1 DEF RequestOK, Replied, Target
  <2>3. QED
    BY <2>1, <2>2
<1>5. QED
  BY <1>3, <1>4 DEF IInv

LEMMA FollowIInv ==
  ASSUME IInv, NEW r \in Reqs, Follow(r)
  PROVE  IInv'
<1>1. TypeOK /\ asked[r] \in Question /\ hops[r] \in 0..MaxHops /\ MaxHops \in Nat
  BY RequestsAssumption DEF IInv, TypeOK
<1>2. /\ hops[r] < MaxHops /\ hops' = [hops EXCEPT ![r] = @ + 1]
      /\ asked' = [asked EXCEPT ![r].listener = Target, ![r].host = "apex"]
      /\ flow' = [flow EXCEPT ![r] = "unsent"] /\ reply' = [reply EXCEPT ![r] = Silence]
      /\ span' = [span EXCEPT ![r] = "none"] /\ recorded' = [recorded EXCEPT ![r] = 0]
      /\ charged' = [charged EXCEPT ![r] = FALSE] /\ UNCHANGED <<conf, spent, verdict>>
      /\ Target \in {"site", "redirect"}
  BY DEF Follow, Target
<1>3. /\ asked' \in [Reqs -> Question] /\ asked'[r].listener = Target
      /\ asked'[r].host = "apex" /\ \A q \in Reqs : q # r => asked'[q] = asked[q]
  <2> DEFINE led  == [asked[r] EXCEPT !.listener = Target]
             next == [led EXCEPT !.host = "apex"]
  <2>1. led \in Question /\ led.listener = Target
    BY <1>1, <1>2 DEF Question
  <2> HIDE DEF led
  <2>2. next \in Question /\ next.listener = Target /\ next.host = "apex"
    BY <2>1 DEF Question
  <2> HIDE DEF next
  <2>3. asked' = [[asked EXCEPT ![r] = led] EXCEPT ![r] = next]
    <3> DEFINE once == [asked EXCEPT ![r].listener = Target]
    <3>1. asked' = [once EXCEPT ![r] = [once[r] EXCEPT !.host = "apex"]]
      BY <1>2
    <3>2. once = [asked EXCEPT ![r] = led]
      BY DEF led
    <3>3. once[r] = led
      BY <1>1, <3>2 DEF TypeOK
    <3>4. QED
      BY <3>1, <3>2, <3>3 DEF next
  <2>4. QED
    BY <1>1, <2>1, <2>2, <2>3 DEF TypeOK
<1>4. reply' \in [Reqs -> [status : {0, 200, 301, 404, 408, 413, 429, 500},
                          secured : BOOLEAN, hsts : BOOLEAN]]
      /\ \A q \in Reqs : q # r => reply'[q] = reply[q]
  <2>1. Silence \in [status : {0, 200, 301, 404, 408, 413, 429, 500},
                     secured : BOOLEAN, hsts : BOOLEAN]
    BY DEF Silence
  <2>2. QED
    BY <1>1, <1>2, <2>1 DEF TypeOK
<1>5. /\ charged' \in [Reqs -> BOOLEAN] /\ charged'[r] = FALSE
      /\ \A q \in Reqs : q # r => charged'[q] = charged[q]
  BY <1>1, <1>2 DEF TypeOK
<1>6. /\ flow' \in [Reqs -> {"unsent", "handling", "answered", "finished", "gone"}]
      /\ span' \in [Reqs -> {"none", "open", "ended"}]
      /\ recorded' \in [Reqs -> {0, 200, 404, 408, 413, 500}]
      /\ flow'[r] = "unsent" /\ span'[r] = "none" /\ recorded'[r] = 0
      /\ \A q \in Reqs :
           q # r => flow'[q] = flow[q] /\ span'[q] = span[q] /\ recorded'[q] = recorded[q]
  BY <1>1, <1>2 DEF TypeOK
<1>7. hops' \in [Reqs -> 0..MaxHops] /\ \A q \in Reqs : q # r => hops'[q] = hops[q]
  BY <1>1, <1>2 DEF TypeOK
<1>8. TypeOK'
  BY <1>1, <1>2, <1>3, <1>4, <1>5, <1>6, <1>7 DEF TypeOK
<1>9. ASSUME NEW q \in Reqs PROVE RequestOK(q)'
  <2>1. CASE q # r
    BY <1>2, <1>3, <1>4, <1>5, <1>6, <1>7, <2>1, Untouched DEF IInv
  <2>2. CASE q = r
    <3>1. charged'[r] <=> span'[r] # "none"
      BY <1>5, <1>6
    <3>2. Target' = Target
      BY <1>2 DEF Target
    <3>3. QED
      BY <1>3, <1>6, <2>2, <3>1, <3>2 DEF RequestOK, Replied
  <2>3. QED
    BY <2>1, <2>2
<1>10. QED
  BY <1>8, <1>9 DEF IInv

LEMMA NextIInv == IInv /\ [Next]_vars => IInv'
<1> SUFFICES ASSUME IInv, [Next]_vars PROVE IInv'
  OBVIOUS
<1>1. CASE UNCHANGED vars
  BY <1>1, Untouched DEF vars, IInv, TypeOK
<1>2. CASE Refill
  <2>1. spent' = [ip \in Ips |-> IF spent[ip] > 0 THEN spent[ip] - 1 ELSE 0]
    BY <1>2 DEF Refill, Bucket!Refill
  <2>2. spent' \in [Ips -> 0..Burst]
    BY <2>1, RequestsAssumption DEF IInv, TypeOK
  <2>3. UNCHANGED <<conf, flow, asked, reply, span, recorded, charged, hops, verdict>>
    BY <1>2 DEF Refill, Bucket!Refill
  <2>4. QED
    BY <2>2, <2>3, Untouched DEF IInv, TypeOK
<1>3. ASSUME NEW r \in Reqs, Step(r) PROVE IInv'
  <2>1. CASE Turn(r) \/ Dispatch(r) \/ Follow(r)
    BY <2>1, TurnIInv, DispatchIInv, FollowIInv
  <2>2. CASE AppReplies(r)
    <3>1. PICK status \in {200, 404, 500} : ReplyFrom(r, "app", status)
      BY <2>2 DEF AppReplies
    <3>2. QED
      BY <2>2, <3>1, ReplyIInv DEF AppReplies
  <2>3. CASE AppPanics(r)
    BY <2>3, ReplyIInv DEF AppPanics
  <2>4. CASE TimesOut(r)
    BY <2>4, ReplyIInv DEF TimesOut
  <2>5. CASE Leaves(r)
    BY <2>5, EndIInv DEF Leaves
  <2>6. CASE BodyEnds(r)
    BY <2>6, EndIInv DEF BodyEnds
  <2>7. QED
    BY <1>3, <2>1, <2>2, <2>3, <2>4, <2>5, <2>6 DEF Step
<1>4. QED
  BY <1>1, <1>2, <1>3 DEF Next

-----------------------------------------------------------------------------
(* The theorems *)

\* Every variable stays in its type; in particular no peer is ever beyond the burst.
THEOREM RequestTypes == Spec => []TypeOK
<1>1. IInv => TypeOK
  BY DEF IInv
<1>2. QED
  BY InitIInv, NextIInv, <1>1, PTL DEF Spec

\* Whatever layer answers, on whatever listener, the reply carries the headers
\* (lib.rs:152-157, security.rs:33-36).
THEOREM RepliesSecured == Spec => []EveryReplySecured
<1>1. IInv => EveryReplySecured
  BY DEF IInv, RequestOK, EveryReplySecured
<1>2. QED
  BY InitIInv, NextIInv, <1>1, PTL DEF Spec

\* A span reports the status the client got (lib.rs:129-133).
THEOREM SpansTell == Spec => []SpanTellsTheReply
<1>1. IInv => SpanTellsTheReply
  BY DEF IInv, RequestOK, SpanTellsTheReply
<1>2. QED
  BY InitIInv, NextIInv, <1>1, PTL DEF Spec

\* Spans and budget go together, and probes need neither (lib.rs:145-147, 156-157).
THEOREM SpansPaid == Spec => []SpansArePaidFor
<1>1. IInv => SpansArePaidFor
  BY DEF IInv, RequestOK, SpansArePaidFor
<1>2. QED
  BY InitIInv, NextIInv, <1>1, PTL DEF Spec

\* A followed redirect is never redirected again (www_redirect.rs:3-6).
THEOREM RedirectsOnce == Spec => []OneRedirect
<1>1. IInv => OneRedirect
  BY DEF IInv, RequestOK, OneRedirect
<1>2. QED
  BY InitIInv, NextIInv, <1>1, PTL DEF Spec
=============================================================================
