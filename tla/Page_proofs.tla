------------------------------- MODULE Page_proofs -------------------------------
(***************************************************************************)
(* Proofs about Page: the properties its run checks, for every set of raw  *)
(* base URLs and any number of documents.                                  *)
(***************************************************************************)
EXTENDS Page, TLAPS

-----------------------------------------------------------------------------
(* Routes and views *)

\* A path's route is decided by its name, and different names have different routes.
LEMMA RouteByName ==
  ASSUME NEW p \in Path, NEW q \in Path
  PROVE  /\ Route(p) \in Pages \union {"NotFound"}
         /\ Route(p) = Route(q) <=> p.name = q.name
<1>1. p.name \in {"", "resume", "how-its-built", "elsewhere"}
  BY DEF Path
<1>2. q.name \in {"", "resume", "how-its-built", "elsewhere"}
  BY DEF Path
<1>3. QED
  BY <1>1, <1>2 DEF Route, Pages

\* The shell's links are paths, told apart by their names.
LEMMA LinkedPaths ==
  /\ {Home, Resume, HowItsBuilt} \subseteq Path
  /\ Home.name = "" /\ Resume.name = "resume" /\ HowItsBuilt.name = "how-its-built"
<1>1. /\ Home.name = "" /\ Resume.name = "resume" /\ HowItsBuilt.name = "how-its-built"
  BY DEF Home, Resume, HowItsBuilt
<1>2. Home.slash
  BY DEF Home
<1>3. {Home, Resume, HowItsBuilt} \subseteq
        [name : {"", "resume", "how-its-built", "elsewhere"}, slash : BOOLEAN]
  BY DEF Home, Resume, HowItsBuilt
<1>4. QED
  BY <1>1, <1>2, <1>3 DEF Path

\* Only the three routed paths have pages at all.
LEMMA RoutedPages ==
  ASSUME NEW p \in Path, Routed(p)
  PROVE  Route(p) \in Pages
<1>1. p.name \in {"", "resume", "how-its-built"}
  BY LinkedPaths DEF Routed
<1>2. QED
  BY <1>1 DEF Route, Pages

\* Every page's metadata constructs, so no page panics.
LEMMA PagesConstruct ==
  ASSUME NEW page \in Pages
  PROVE  Constructs(page)
BY DEF Pages, Constructs, PageOf, HomePage, ResumePage, HowItsBuiltPage, NewMetaTitle,
       NewMetaDescription

\* What <main> holds after a rendering.
LEMMA RenderedViews ==
  ASSUME NEW p \in Path, NEW fails \in BOOLEAN
  PROVE  /\ Rendered(p, fails) \in Pages \union Errors
         /\ Rendered(p, fails) = "NotFound" <=> Route(p) = "NotFound"
<1>1. CASE Route(p) = "NotFound"
  BY <1>1 DEF Rendered, Pages, Errors
<1>2. CASE Route(p) \in Pages
  <2>1. Constructs(Route(p))
    BY <1>2, PagesConstruct
  <2>2. Route(p) # "NotFound"
    BY <1>2 DEF Pages
  <2>3. Rendered(p, fails) = IF fails THEN "Internal" ELSE Route(p)
    BY <1>2, <2>1, <2>2 DEF Rendered
  <2>4. QED
    BY <1>2, <2>2, <2>3 DEF Errors, Pages
<1>3. QED
  BY <1>1, <1>2, RouteByName

\* Every link leads to one of the site's pages, and which ones escape the router.
LEMMA LinkTargets ==
  ASSUME NEW view \in Pages \union Errors, NEW link \in LinksOn(view)
  PROVE  /\ link.href \in {Home, Resume, HowItsBuilt} /\ link.href \in Path
         /\ view \in Errors =>
              link.place = "shell" \/ (link.place = "template" /\ link.href = Home)
<1> DEFINE Hrefs(links) == \A l \in links : l.href \in {Home, Resume, HowItsBuilt}
<1>1. /\ Hrefs(ShellLinks) /\ Hrefs({Link(Home, "template")}) /\ Hrefs({Link(Resume, "plain")})
      /\ \A l \in ShellLinks : l.place = "shell"
      /\ Link(Home, "template").place = "template" /\ Link(Home, "template").href = Home
  BY DEF ShellLinks, SiteHeader, SiteFooter, Link
<1>2. CASE view \in Errors
  <2>1. LinksOn(view) = ShellLinks \union {Link(Home, "template")}
    BY <1>2 DEF LinksOn, Errors, Pages
  <2>2. CASE link \in ShellLinks
    BY <1>1, <2>2, LinkedPaths
  <2>3. CASE link = Link(Home, "template")
    BY <1>1, <2>3, LinkedPaths
  <2>4. QED
    BY <2>1, <2>2, <2>3
<1>3. CASE view \in Pages
  <2>1. view \notin Errors
    BY <1>3 DEF Pages, Errors
  <2>2. LinksOn(view) \subseteq ShellLinks \union {Link(Resume, "plain")}
    BY <1>3 DEF LinksOn, Pages, Errors, PageOf, HomePage, ResumePage, HowItsBuiltPage
  <2>3. QED
    BY <1>1, <2>1, <2>2, LinkedPaths
<1>4. QED
  BY <1>2, <1>3

-----------------------------------------------------------------------------
(* Documents *)

\* Accepted base URLs are bare origins with a lowercase host.
Origins == {base \in Bases : base.slash = FALSE}

LEMMA AcceptedBases ==
  ASSUME NEW raw \in Raws, ParseHttpUrl(raw)
  PROVE  NewPublicBaseUrl(raw) \in Origins
<1>1. raw.scheme \in {"http", "https"}
  BY DEF ParseHttpUrl
<1>2. raw.host \in {"site", "SITE"}
  BY PageAssumption DEF Raw
<1>3. Lowercase(raw.host) = "site"
  BY <1>2 DEF Lowercase
<1>4. NewPublicBaseUrl(raw).slash = FALSE
  BY DEF NewPublicBaseUrl
<1>5. NewPublicBaseUrl(raw) \in Bases
  BY <1>1, <1>3 DEF NewPublicBaseUrl, Bases
<1>6. QED
  BY <1>4, <1>5 DEF Origins

ServerOK == server \in [base : {NoBase} \union Origins, debug : BOOLEAN, watch : BOOLEAN]

Urls == [scheme : {"none", "http", "https"}, host : {"none", "site"},
         doubled : BOOLEAN, path : Path]

\* A canonical URL is absent, or leads to the page of a routed path and is spelled with
\* the configured origin.
LEMMA CanonicalUrl ==
  ASSUME ServerOK, NEW p \in Path
  PROVE  /\ Canonical(p) \in Urls
         /\ Canonical(p) # NoUrl =>
              /\ Route(p) \in Pages
              /\ Canonical(p) = [scheme |-> server.base.scheme, host |-> server.base.host,
                                 doubled |-> FALSE, path |-> p]
<1>1. NoUrl \in Urls
  BY LinkedPaths DEF NoUrl, Urls
<1>2. CASE Routed(p) /\ server.base # NoBase
  <2>1. server.base \in Bases /\ server.base.slash = FALSE
    BY <1>2 DEF ServerOK, Origins
  <2>2. server.base.scheme \in {"http", "https"} /\ server.base.host \in {"site"}
    BY <2>1 DEF Bases
  <2>3. Canonical(p) = [scheme |-> server.base.scheme, host |-> server.base.host,
                        doubled |-> FALSE, path |-> p]
    BY <1>2, <2>1 DEF Canonical, Join
  <2>4. Canonical(p) \in Urls
    BY <2>2, <2>3 DEF Urls
  <2>5. QED
    BY <1>2, <2>3, <2>4, RoutedPages
<1>3. CASE ~(Routed(p) /\ server.base # NoBase)
  BY <1>1, <1>3 DEF Canonical
<1>4. QED
  BY <1>2, <1>3

Documents == [path : Path, view : View \union {"none"}, status : {0, 200, 404, 500},
              canonical : Urls, nonce : 0..MaxLoads, csp : Policy, loads : Policy]

\* What the run's properties say of one document.
Faithful(d) ==
  /\ d.view = "NotFound" => d.status = 404
  /\ d.view = "Internal" => d.status = 500
  /\ d.view \in Pages => d.status \in {200, 404}
  /\ Routed(d.path) => d.view \in Pages \union {"Internal"}
  /\ d.canonical # NoUrl =>
       /\ Route(d.path) \in Pages
       /\ d.canonical = [scheme |-> server.base.scheme, host |-> server.base.host,
                         doubled |-> FALSE, path |-> d.path]
  /\ Admits(d.csp, d.loads)

\* The policy of a render, and what its document loads.
LEMMA PolicyOfRender ==
  ASSUME NEW nonce \in 0..MaxLoads, NEW view \in Pages \union Errors
  PROVE  /\ SetCspHeader(nonce) \in Policy /\ Loads(view, nonce) \in Policy
         /\ Admits(SetCspHeader(nonce), Loads(view, nonce))
<1>1. view # "panic"
  BY DEF Pages, Errors
<1>2. Loads(view, nonce) =
        [nonce |-> nonce, script |-> {"self", "wasm-unsafe-eval"},
         style |-> {"self", "unsafe-inline"},
         connect |-> {"self"} \union IF AutoReload THEN {"ws"} ELSE {}]
  BY <1>1 DEF Loads
<1>3. SetCspHeader(nonce) =
        [nonce |-> nonce, script |-> {"self", "wasm-unsafe-eval"},
         style |-> {"self", "unsafe-inline"},
         connect |-> IF server.debug THEN {"self", "ws"} ELSE {"self"}]
  BY DEF SetCspHeader, ContentSecurityPolicy
<1>4. SetCspHeader(nonce) \in Policy /\ Loads(view, nonce) \in Policy
  BY <1>2, <1>3 DEF Policy
<1>5. Loads(view, nonce).connect \subseteq SetCspHeader(nonce).connect
  BY <1>2, <1>3 DEF AutoReload
<1>6. QED
  BY <1>2, <1>3, <1>4, <1>5 DEF Admits

\* A document the server renders is as the properties say.
LEMMA DocumentRendered ==
  ASSUME ServerOK, NEW p \in Path, NEW fails \in BOOLEAN, NEW nonce \in 0..MaxLoads,
         NEW otherwise \in IF Routed(p) THEN {200} ELSE {200, 404}
  PROVE  /\ Document(p, Rendered(p, fails), nonce, otherwise) \in Documents
         /\ Faithful(Document(p, Rendered(p, fails), nonce, otherwise))
<1> DEFINE view == Rendered(p, fails)
           d == Document(p, view, nonce, otherwise)
<1>1. /\ view \in Pages \union Errors /\ view # "panic"
      /\ view = "NotFound" <=> Route(p) = "NotFound"
  BY RenderedViews DEF Pages, Errors
<1>2. d = [path |-> p, view |-> view, status |-> Status(view, otherwise),
           canonical |-> Canonical(p), nonce |-> nonce, csp |-> SetCspHeader(nonce),
           loads |-> Loads(view, nonce)]
  BY <1>1 DEF Document
<1>3. /\ view = "NotFound" => Status(view, otherwise) = 404
      /\ view = "Internal" => Status(view, otherwise) = 500
      /\ view \in Pages => Status(view, otherwise) \in {200, 404}
  BY <1>1 DEF Status, StatusCode, Errors, Pages
<1>4. Status(view, otherwise) \in {0, 200, 404, 500}
  BY <1>1, <1>3 DEF Errors
<1>5. Routed(p) => view \in Pages \union {"Internal"}
  BY <1>1, RoutedPages DEF Errors, Pages
<1> HIDE DEF view
<1>6. d \in Documents
  BY <1>1, <1>2, <1>4, CanonicalUrl, PolicyOfRender DEF Documents, View
<1>7. Faithful(d)
  <2>1. /\ d.path = p /\ d.view = view /\ d.status = Status(view, otherwise)
        /\ d.canonical = Canonical(p) /\ d.csp = SetCspHeader(nonce)
        /\ d.loads = Loads(view, nonce)
    BY <1>2
  <2> HIDE DEF d
  <2>2. QED
    BY <1>1, <1>3, <1>5, <2>1, CanonicalUrl, PolicyOfRender DEF Faithful
<1>8. QED
  BY <1>6, <1>7 DEF view

-----------------------------------------------------------------------------
(* The inductive invariant *)

\* What <main> shows agrees with the location, and an app that shows an error of its
\* own has its flag up.
Showing ==
  /\ tab # "blank" => main \in Pages \union Errors
  /\ tab # "blank" /\ main = "NotFound" => Route(path) = "NotFound"
  /\ tab = "live" /\ main = "Internal" => errored

IInv ==
  /\ ServerOK /\ TypeOK
  /\ doc \in Documents
  /\ tab # "blank" => Faithful(doc)
  /\ Showing

\* Documents and faithfulness depend on the variables that only a load changes.
LEMMA DocumentKept ==
  ASSUME server' = server, doc' = doc
  PROVE  /\ Faithful(doc)' <=> Faithful(doc)
         /\ ServerOK' <=> ServerOK
BY DEF Faithful, ServerOK

LEMMA InitIInv == Init => IInv
<1> SUFFICES ASSUME Init PROVE IInv
  OBVIOUS
<1>1. ServerOK
  BY AcceptedBases DEF Init, ServerOK
<1>2. MaxLoads \in Nat /\ 0 \in 0..MaxLoads
  BY PageAssumption
<1>3. NoUrl \in Urls /\ NoPolicy \in Policy
  BY <1>2, LinkedPaths DEF NoUrl, Urls, NoPolicy, Policy
<1>4. doc \in Documents
  BY <1>2, <1>3, LinkedPaths DEF Init, NoDocument, Documents
<1>5. server \in [base : {NoBase} \union Bases, debug : BOOLEAN, watch : BOOLEAN]
  BY <1>1 DEF ServerOK, Origins
<1>6. TypeOK
  BY <1>2, <1>4, <1>5, LinkedPaths DEF Init, TypeOK, Documents, Urls
<1>7. QED
  BY <1>1, <1>4, <1>6 DEF IInv, Showing, Init

\* A load puts a faithful document into the tab.
LEMMA LoadIInv ==
  ASSUME IInv, NEW p \in Path, Load(p)
  PROVE  IInv'
<1>1. PICK fails \in BOOLEAN, otherwise \in IF Routed(p) THEN {200} ELSE {200, 404} :
        /\ doc' = Document(p, Rendered(p, fails), loads + 1, otherwise)
        /\ main' = Rendered(p, fails)
  BY DEF Load
<1>2. loads + 1 \in 0..MaxLoads
  BY PageAssumption DEF Load, IInv, TypeOK
<1>3. ServerOK' /\ server' = server
  BY DEF Load, IInv, ServerOK
<1>4. doc' \in Documents
  BY <1>1, <1>2, DocumentRendered DEF IInv
<1>5. Faithful(doc)'
  <2>1. Faithful(doc')
    BY <1>1, <1>2, DocumentRendered DEF IInv
  <2>2. QED
    BY <1>3, <2>1 DEF Faithful
<1>6. main' \in Pages \union Errors /\ (main' = "NotFound" <=> Route(p) = "NotFound")
  BY <1>1, RenderedViews
<1>7. /\ loads' = loads + 1 /\ tab' = "served" /\ path' = p /\ errored' = FALSE
  BY DEF Load
<1>8. Showing'
  BY <1>6, <1>7 DEF Showing
<1>9. TypeOK'
  <2>1. server' \in [base : {NoBase} \union Bases, debug : BOOLEAN, watch : BOOLEAN]
    BY <1>3 DEF IInv, TypeOK
  <2>2. main' \in View \union {"none"}
    BY <1>6 DEF View
  <2>3. QED
    BY <1>2, <1>4, <1>7, <2>1, <2>2 DEF TypeOK, Documents, Urls
<1>10. QED
  BY <1>3, <1>4, <1>5, <1>8, <1>9 DEF IInv

\* What happens inside a tab leaves the document alone: there is <main> to look at.
LEMMA InTab ==
  ASSUME IInv, UNCHANGED <<server, loads, doc>>, tab # "blank", tab' \in {"served", "live"},
         path' \in Path, main' \in Pages \union Errors, errored' \in BOOLEAN,
         main' = "NotFound" => Route(path') = "NotFound",
         tab' = "live" /\ main' = "Internal" => errored'
  PROVE  IInv'
<1>1. ServerOK' /\ (doc \in Documents)' /\ Faithful(doc)'
  BY DocumentKept DEF IInv
<1>2. TypeOK'
  BY DEF IInv, TypeOK, View
<1>3. Showing'
  BY DEF Showing
<1>4. QED
  BY <1>1, <1>2, <1>3 DEF IInv

LEMMA NavigateIInv ==
  ASSUME IInv, tab = "live", NEW p \in Path, Navigate(p)
  PROVE  IInv'
<1>1. /\ UNCHANGED <<server, loads, doc, tab>> /\ path' = p
  BY DEF Navigate
<1>2. CASE Route(p) = Route(path) /\ UNCHANGED <<main, errored>>
  BY <1>1, <1>2, InTab DEF IInv, Showing, TypeOK
<1>3. CASE /\ Route(p) # Route(path)
           /\ \E fails \in BOOLEAN : main' = Rendered(p, fails) /\ Raise(Rendered(p, fails))
  <2>1. PICK fails \in BOOLEAN : main' = Rendered(p, fails) /\ Raise(Rendered(p, fails))
    BY <1>3
  <2>2. main' \in Pages \union Errors /\ (main' = "NotFound" <=> Route(p) = "NotFound")
    BY <2>1, RenderedViews
  <2>3. errored' \in BOOLEAN /\ (main' = "Internal" => errored')
    BY <2>1 DEF Raise, IInv, TypeOK
  <2>4. QED
    BY <1>1, <2>2, <2>3, InTab
<1>4. QED
  BY <1>2, <1>3 DEF Navigate

LEMMA NextIInv == IInv /\ [Next]_vars => IInv'
<1> SUFFICES ASSUME IInv, [Next]_vars PROVE IInv'
  OBVIOUS
<1>1. CASE UNCHANGED vars
  BY <1>1 DEF vars, IInv, ServerOK, TypeOK, Faithful, Showing
<1>2. CASE \E p \in Path : Visit(p)
  BY <1>2, LoadIInv DEF Visit
<1>3. CASE Hydrate
  <2>1. main # "panic" /\ tab = "served" /\ UNCHANGED <<server, loads, doc, path, main>>
    BY <1>3 DEF Hydrate
  <2>2. tab' = "live" /\ (main = "Internal" => errored') /\ errored' \in BOOLEAN
    BY <1>3 DEF Hydrate, Raise, IInv, TypeOK
  <2>3. QED
    BY <2>1, <2>2, InTab DEF IInv, TypeOK, Showing
<1>4. CASE RenderFails
  <2>1. /\ tab = "live" /\ main \in Pages /\ main' = "Internal"
        /\ UNCHANGED <<server, loads, doc, tab, path>>
    BY <1>4 DEF RenderFails
  <2>2. errored' = TRUE
    BY <1>4 DEF RenderFails, Raise
  <2>3. main' \in Pages \union Errors
    BY <2>1 DEF Errors
  <2>4. QED
    BY <2>1, <2>2, <2>3, InTab DEF IInv, TypeOK
<1>5. CASE tab # "blank" /\ \E link \in LinksOn(main) : FollowNatively(link) \/ FollowInApp(link)
  <2>1. PICK link \in LinksOn(main) : FollowNatively(link) \/ FollowInApp(link)
    BY <1>5
  <2>2. main \in Pages \union Errors
    BY <1>5 DEF IInv, Showing
  <2>3. link.href \in Path
    BY <2>1, <2>2, LinkTargets
  <2>4. CASE FollowNatively(link)
    BY <2>3, <2>4, LoadIInv DEF FollowNatively
  <2>5. CASE FollowInApp(link)
    BY <2>3, <2>5, NavigateIInv DEF FollowInApp
  <2>6. QED
    BY <2>1, <2>4, <2>5
<1>6. QED
  BY <1>1, <1>2, <1>3, <1>4, <1>5 DEF Next

-----------------------------------------------------------------------------
(* The theorems *)

\* Every variable stays in its type, whatever raw base URLs the server may be given.
THEOREM PageTypes == Spec => []TypeOK
<1>1. IInv => TypeOK
  BY DEF IInv
<1>2. QED
  BY InitIInv, NextIInv, <1>1, PTL DEF Spec

\* No link of a live error page is a navigation that does nothing (shell.rs:31-32).
THEOREM ErrorsHaveExits == Spec => []NoDeadEnd
<1>1. IInv => NoDeadEnd
  <2> SUFFICES ASSUME IInv, tab = "live", main \in Errors, NEW link \in LinksOn(main)
               PROVE  Escapes(link) \/ Route(link.href) # Route(path)
    BY DEF NoDeadEnd
  <2>1. /\ path \in Path /\ link.href \in Path
        /\ link.href \in {Home, Resume, HowItsBuilt}
        /\ link.place = "shell" \/ (link.place = "template" /\ link.href = Home)
    BY LinkTargets DEF IInv, TypeOK
  <2>2. CASE main = "NotFound"
    <3>1. Route(path) = "NotFound"
      BY <2>2 DEF IInv, Showing
    <3>2. Route(link.href) \in Pages
      BY <2>1, RoutedPages DEF Routed
    <3>3. QED
      BY <3>1, <3>2 DEF Pages
  <2>3. CASE main = "Internal"
    <3>1. errored
      BY <2>3 DEF IInv, Showing
    <3>2. CASE IsCurrent(path, link.href)
      BY <2>1, <3>1, <3>2 DEF Escapes, FullLoadTarget
    <3>3. CASE ~IsCurrent(path, link.href)
      BY <2>1, <3>3, RouteByName DEF IsCurrent
    <3>4. QED
      BY <3>2, <3>3
  <2>4. QED
    BY <2>2, <2>3 DEF Errors
<1>2. QED
  BY InitIInv, NextIInv, <1>1, PTL DEF Spec

\* Statuses tell what is shown, and canonical URLs only name the page they are on
\* (error_template.rs:41-42, lib.rs:41-45).
THEOREM ServesTruthfully == Spec => []ServedAsItIs
<1>1. IInv => ServedAsItIs
  BY DEF IInv, Faithful, ServedAsItIs
<1>2. QED
  BY InitIInv, NextIInv, <1>1, PTL DEF Spec

\* A document's policy admits what the document loads (csp.rs:13-14, lib.rs:28-33).
THEOREM PoliciesAdmit == Spec => []PolicyAdmits
<1>1. IInv => PolicyAdmits
  BY DEF IInv, Faithful, PolicyAdmits
<1>2. QED
  BY InitIInv, NextIInv, <1>1, PTL DEF Spec
=============================================================================
