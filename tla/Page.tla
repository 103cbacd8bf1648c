---------------------------------- MODULE Page ----------------------------------
(***************************************************************************)
(* The pages as a visitor's browser tab meets them: documents the server   *)
(* renders, the app that hydrates over a document, the router that changes *)
(* pages inside it, and the error page that may replace any of them.       *)
(*                                                                         *)
(* No page of the site fails to render today.  The error boundary is there *)
(* for one that will, so here any page may fail, on the server and in the  *)
(* browser, as the fixtures of error_template.rs do.                       *)
(***************************************************************************)
EXTENDS Naturals

CONSTANTS Raws,      \* values of PUBLIC_BASE_URL the server may be started with
          MaxLoads   \* bound: documents the tab asks for

Scheme == {"http", "https", "ftp", "none"}   \* "none": not an absolute URL
Raw == [scheme : Scheme, host : {"site", "SITE"}, path : {"", "/", "/sub"},
        tail : {"none", "query", "fragment"}]

ASSUME PageAssumption == Raws \subseteq Raw /\ MaxLoads \in Nat

VARIABLES
  server,    \* fixed: its base URL, whether a debug build, whether LEPTOS_WATCH is set
  loads,     \* documents asked for so far; the latest one's nonce
  doc,       \* the document the tab loaded last
  tab,       \* "blank", "served" (nothing runs yet) or "live" (hydrated)
  path,      \* the location's path
  main,      \* what <main> shows
  errored    \* the app's PageErrored flag

vars == <<server, loads, doc, tab, path, main, errored>>

-----------------------------------------------------------------------------
(* Paths, routes and pages *)

\* A path by the name before its trailing slash.
Path == {p \in [name : {"", "resume", "how-its-built", "elsewhere"}, slash : BOOLEAN] :
           p.name = "" => p.slash}
Home        == [name |-> "", slash |-> TRUE]
Resume      == [name |-> "resume", slash |-> FALSE]
HowItsBuilt == [name |-> "how-its-built", slash |-> FALSE]

Pages  == {"home", "resume", "article"}
Errors == {"NotFound", "Internal"}

\* is_current.
IsCurrent(pathname, href) == pathname.name = href.name

\* The routes of App, as leptos_router matches them: a trailing slash is no segment.
Route(p) == CASE p.name = ""              -> "home"
              [] p.name = "resume"        -> "resume"
              [] p.name = "how-its-built" -> "article"
              [] p.name = "elsewhere"     -> "NotFound"

\* The paths axum hands to the Leptos routes; any other meets the fallback.
Routed(p) == p \in {Home, Resume, HowItsBuilt}

Link(href, place) == [href |-> href, place |-> place]

\* The pages: what each declares of itself, in characters, and the links to other
\* pages in its body.
HomePage        == [title |-> 59, description |-> 153, links |-> {Link(Resume, "plain")}]
ResumePage      == [title |-> 33, description |-> 58,  links |-> {}]
HowItsBuiltPage == [title |-> 30, description |-> 122, links |-> {}]

PageOf == [home |-> HomePage, resume |-> ResumePage, article |-> HowItsBuiltPage]

NewMetaTitle(len)       == 1 <= len /\ len <= 70
NewMetaDescription(len) == 50 <= len /\ len <= 160

\* A page expects its metadata to construct and panics otherwise.
Constructs(page) == /\ NewMetaTitle(PageOf[page].title)
                    /\ NewMetaDescription(PageOf[page].description)

\* What <main> holds once the routes rendered for a path.
Rendered(p, fails) ==
  LET page == Route(p) IN
  CASE page = "NotFound"                                -> "NotFound"
    [] page \in Pages /\ ~Constructs(page)              -> "panic"
    [] page \in Pages /\ Constructs(page) /\ fails      -> "Internal"
    [] page \in Pages /\ Constructs(page) /\ ~fails     -> page

-----------------------------------------------------------------------------
(* The public base URL *)

NoBase == [scheme |-> "none", host |-> "none", slash |-> FALSE]
Bases  == [scheme : {"http", "https"}, host : {"site"}, slash : BOOLEAN]

\* The url crate's part of parsing.
Lowercase(host) == IF host = "SITE" THEN "site" ELSE host

\* parse_http_url, and the bareness PublicBaseUrl::new asks for.
ParseHttpUrl(raw) == raw.scheme \in {"http", "https"}
Bare(raw)         == raw.path \in {"", "/"} /\ raw.tail = "none"

\* PublicBaseUrl::new on a raw value it accepts: the slash is trimmed again.
NewPublicBaseUrl(raw) ==
  [scheme |-> raw.scheme, host |-> Lowercase(raw.host), slash |-> FALSE]

\* PublicBaseUrl::join: concatenation, so a base that kept its slash doubles it.
NoUrl == [scheme |-> "none", host |-> "none", doubled |-> FALSE, path |-> Home]
Join(base, p) == [scheme |-> base.scheme, host |-> base.host, doubled |-> base.slash, path |-> p]

-----------------------------------------------------------------------------
(* The document the server renders *)

NoPolicy == [nonce |-> 0, script |-> {}, style |-> {}, connect |-> {}]

ContentSecurityPolicy(nonce, dev) ==
  [nonce   |-> nonce,
   script  |-> {"self", "wasm-unsafe-eval"},
   style   |-> {"self", "unsafe-inline"},
   connect |-> IF dev THEN {"self", "ws"} ELSE {"self"}]

\* Slip: the nonce is that of an earlier render.
SetCspHeaderOnce(nonce) == ContentSecurityPolicy(doc.nonce, server.debug)

\* set_csp_header: the nonce Leptos provides to this render.
SetCspHeader(nonce) == ContentSecurityPolicy(nonce, server.debug)

\* The hot-reload script, which opens a WebSocket.
AutoReload == server.watch /\ server.debug

\* What the browser must be allowed for the document of shell to work: the hydration
\* script and the bundle, wasm, the theme's inline style, and the fetch of the wasm.
Loads(view, nonce) ==
  IF view = "panic" THEN NoPolicy
  ELSE [nonce   |-> nonce,
        script  |-> {"self", "wasm-unsafe-eval"},
        style   |-> {"self", "unsafe-inline"},
        connect |-> {"self"} \union IF AutoReload THEN {"ws"} ELSE {}]

\* AppError::status_code.
StatusCode == [NotFound |-> 404, Internal |-> 500]

\* Slip: the template renders without setting the response's status.
StatusSoft(view, otherwise) == IF view = "panic" THEN 500 ELSE otherwise

\* The template sets the status of the first error; a panic is answered by the
\* layer that catches it; otherwise the handler's own status stays.
Status(view, otherwise) ==
  CASE view \in Errors -> StatusCode[view]
    [] view = "panic"  -> 500
    [] view \in Pages  -> otherwise

\* og:url and the canonical link: of routed paths, when there is a base URL.
Canonical(p) == IF Routed(p) /\ server.base # NoBase THEN Join(server.base, p) ELSE NoUrl

NoDocument == [path |-> Home, view |-> "none", status |-> 0, canonical |-> NoUrl,
               nonce |-> 0, csp |-> NoPolicy, loads |-> NoPolicy]

Document(p, view, nonce, otherwise) ==
  [path      |-> p,
   view      |-> view,
   status    |-> Status(view, otherwise),
   canonical |-> IF view = "panic" THEN NoUrl ELSE Canonical(p),
   nonce     |-> nonce,
   csp       |-> IF view = "panic" THEN NoPolicy ELSE SetCspHeader(nonce),
   loads     |-> Loads(view, nonce)]

\* Whether a policy lets a document load what it needs.
Admits(policy, needs) ==
  /\ policy.nonce = needs.nonce
  /\ needs.script \subseteq policy.script
  /\ needs.style \subseteq policy.style
  /\ needs.connect \subseteq policy.connect

-----------------------------------------------------------------------------
(* Links *)

\* The header's and the footer's links are on every page the app renders.
SiteHeader == {Link(Home, "shell"), Link(Resume, "shell"), Link(HowItsBuilt, "shell")}
SiteFooter == {Link(HowItsBuilt, "shell")}
ShellLinks == SiteHeader \union SiteFooter

LinksOn(view) ==
  CASE view = "panic"    -> {Link(Home, "plain")}
    [] view \in Errors   -> ShellLinks \union {Link(Home, "template")}
    [] view \in Pages    -> ShellLinks \union PageOf[view].links

\* full_load_target: target="_self" on links to the page that shows the error.
FullLoadTarget(href) == errored /\ IsCurrent(path, href)

\* Whether a link is kept from the router by its target.
Escapes(link) ==
  CASE link.place = "shell"    -> FullLoadTarget(link.href)
    [] link.place = "template" -> IsCurrent(path, link.href)
    [] link.place = "plain"    -> FALSE

-----------------------------------------------------------------------------
(* The tab *)

Init ==
  /\ server \in [base  : {NoBase} \union
                         {NewPublicBaseUrl(raw) : raw \in {r \in Raws : ParseHttpUrl(r) /\ Bare(r)}},
                 debug : BOOLEAN, watch : BOOLEAN]
  /\ loads = 0 /\ doc = NoDocument
  /\ tab = "blank" /\ path = Home /\ main = "none" /\ errored = FALSE

\* The browser asks for a document and shows it; whatever ran before is gone.  What
\* the fallback answers on a path the router knows but axum does not is Leptos' own.
Load(p) ==
  /\ loads < MaxLoads
  /\ loads' = loads + 1
  /\ \E fails \in BOOLEAN, otherwise \in IF Routed(p) THEN {200} ELSE {200, 404} :
       /\ doc' = Document(p, Rendered(p, fails), loads + 1, otherwise)
       /\ main' = Rendered(p, fails)
  /\ tab' = "served" /\ path' = p /\ errored' = FALSE
  /\ UNCHANGED server

\* The address bar, a reload, a link from elsewhere.
Visit(p) == Load(p)

\* Slip: the fallback does not raise the flag.
RaiseNever(view) == errored' = errored

\* error_boundary_fallback raises the flag; nothing lowers it.
Raise(view) == errored' = (errored \/ view = "Internal")

\* hydrate: App runs over the document, if the browser may run its scripts.  Errors
\* the boundary caught on the server come along, so its fallback runs again.
Hydrate ==
  /\ tab = "served" /\ main # "panic"
  /\ doc.csp.nonce = doc.nonce /\ doc.loads.script \subseteq doc.csp.script
  /\ tab' = "live"
  /\ Raise(main)
  /\ UNCHANGED <<server, loads, doc, path, main>>

\* The router goes to a path.  Only another route renders anew: a navigation to the
\* page already shown does nothing.
Navigate(p) ==
  /\ path' = p
  /\ \/ /\ Route(p) = Route(path)
        /\ UNCHANGED <<main, errored>>
     \/ /\ Route(p) # Route(path)
        /\ \E fails \in BOOLEAN : main' = Rendered(p, fails) /\ Raise(Rendered(p, fails))
  /\ UNCHANGED <<server, loads, doc, tab>>

\* A link is followed: natively before hydration, and wherever it escapes the router.
FollowNatively(link) == /\ tab = "served" \/ (tab = "live" /\ Escapes(link))
                        /\ Load(link.href)
FollowInApp(link)    == /\ tab = "live" /\ ~Escapes(link)
                        /\ Navigate(link.href)

\* A page already shown renders an error.
RenderFails ==
  /\ tab = "live" /\ main \in Pages
  /\ main' = "Internal" /\ Raise("Internal")
  /\ UNCHANGED <<server, loads, doc, tab, path>>

Next == \/ \E p \in Path : Visit(p)
        \/ Hydrate \/ RenderFails
        \/ /\ tab # "blank"
           /\ \E link \in LinksOn(main) : FollowNatively(link) \/ FollowInApp(link)

Spec == Init /\ [][Next]_vars

-----------------------------------------------------------------------------
(* Properties *)

View == Pages \union Errors \union {"panic"}

Policy == [nonce   : 0..MaxLoads,
           script  : SUBSET {"self", "wasm-unsafe-eval"},
           style   : SUBSET {"self", "unsafe-inline"},
           connect : SUBSET {"self", "ws"}]

TypeOK ==
  /\ server \in [base : {NoBase} \union Bases, debug : BOOLEAN, watch : BOOLEAN]
  /\ loads \in 0..MaxLoads
  /\ doc \in [path : Path, view : View \union {"none"}, status : {0, 200, 404, 500},
              canonical : [scheme : {"none", "http", "https"}, host : {"none", "site"},
                           doubled : BOOLEAN, path : Path],
              nonce : 0..MaxLoads, csp : Policy, loads : Policy]
  /\ tab \in {"blank", "served", "live"}
  /\ path \in Path
  /\ main \in View \union {"none"}
  /\ errored \in BOOLEAN

\* shell.rs:31-32, error_template.rs:89-90: an error page is no dead end.  Whichever way
\* the tab came to it - served and hydrated, by the router, by a later render - and
\* however its path is spelled, no link on it is a navigation that does nothing.
NoDeadEnd ==
  tab = "live" /\ main \in Errors =>
    \A link \in LinksOn(main) : Escapes(link) \/ Route(link.href) # Route(path)

\* error_template.rs:41-42 and lib.rs:41-45: the status is that of what the page shows,
\* with no soft 404, and the canonical URL is never that of a missing page but leads
\* back, with the configured host and scheme, to the page it is on.
ServedAsItIs ==
  tab # "blank" =>
    /\ doc.view = "NotFound" => doc.status = 404
    /\ doc.view = "Internal" => doc.status = 500
    /\ doc.view \in Pages => doc.status \in {200, 404}
    /\ Routed(doc.path) => doc.view \in Pages \union {"Internal"}
    /\ doc.canonical # NoUrl =>
         /\ Route(doc.path) \in Pages
         /\ doc.canonical = [scheme |-> server.base.scheme, host |-> server.base.host,
                             doubled |-> FALSE, path |-> doc.path]

\* csp.rs:13-14 and lib.rs:28-33: the header admits all that the document it came with
\* loads: its own nonce, the bundle, the theme's style, and the hot-reload socket
\* whenever the script that opens it is served.
PolicyAdmits == tab # "blank" => Admits(doc.csp, doc.loads)
=============================================================================
