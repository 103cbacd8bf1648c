# Verification of the personal site

TLA+ models of the server in `site/server`, of the pages it serves and of what
surrounds it, checked with TLC on small instances and proved with TLAPS for all of them.  Paths below are
relative to the repository; `main.rs` and the other server files are in
`site/server/src/`, `shell.rs`, `error_template.rs`, `errors.rs`, `csp.rs` and `meta.rs` in
`site/app/src/`.

## 1. The system

| component | state it keeps | operations | talks to |
|---|---|---|---|
| process lifecycle (`main.rs`) | where `main` is, the axum-server handle, the exit status | install telemetry, resolve configuration, bind, spawn listeners, wait, drain, drop the guard | signal task, TLS task, listeners, telemetry |
| startup configuration (`tls.rs`, `config.rs`, `http_redirect.rs`, `telemetry/config.rs`) | none: pure functions of the environment | one resolver per variable family | `main`, which runs them in order |
| TLS listener (`tls.rs:189-204`) | its task's result, the published address | load the pair, bind, publish, serve, return | `main` through `Handle::listening` and the join |
| health and redirect listeners (`main.rs:169-214`, `lib.rs:57`, `http_redirect.rs:66`) | whether they are up | bind, answer | nobody joins them or tells them of a shutdown |
| site router (`lib.rs:72-162` and the layers it wires) | per request: span, charge, reply | one per layer | rate limiter, telemetry, application |
| rate limiter (`limits.rs`, `lib.rs:145-150`) | a table of arrival times per peer | check, reject, evict | router, eviction task, the clock |
| telemetry (`telemetry/`) | providers, queues of spans and log records | install, record, export, flush, shut down, panic hook | everything that makes spans |
| pages (`site/app`), hydration (`site/frontend`) | in the browser: the page shown, the `PageErrored` flag; on the server: none | render, set status and policy, hydrate, navigate, fail | router, the browser |
| release pipeline (`.forgejo/workflows`), droplet units (`deploy/`) | two image tags, a running container, a certificate pair | deploy, roll back, renew, restart | the server, through its environment and signals |
| Aspire AppHost (`Portfolio.Orchestrator`) | the parsed workspace metadata | compose the server's environment, probe it | the server's resolvers and health listener |
| infrastructure (`Portfolio.Infra`) | none | declare one droplet | Pulumi |

What is hard to get right, and hard to test, is where these meet:

* `main`, the TLS task, the signal task, the accept loop and the connections run
  concurrently; `main` may wait for an address before or after it is published,
  and a signal may arrive at any of its awaits.
* Startup can fail at eight places, in some of them with the site already serving.
* Shutdown is an order: stop accepting, drain, end the serve future, drop the
  guard, drop the runtime; each step's output is the next one's assumption.
* Layers are added in an order that no single layer's test sees.
* The limiter's table is swept while requests charge it.
* The panic hook flushes queues that other requests fill, that a thread of the SDK
  empties, and that the guard may be shutting down.
* An error page is reached in four ways, on either side of hydration, and a link to the
  page already shown is one the router ignores.

`PROJECT.json` lists these hazards one by one, at the lines where they bite, with
the properties that would catch each.

## 2. The modules

| module | models | extends / instantiates |
|---|---|---|
| `SiteConfig` | the resolvers, as operators over classes of raw values | |
| `SiteLifecycle` | what a client may expect of one run: abstract | |
| `SiteUnit` | what the host sees of one run, and of runs that systemd restarts: abstract | |
| `RecordFate` | what one telemetry provider does with the records it is offered: abstract | |
| `Server` | one run of the process, from exec to exit | `SiteConfig`; refines `SiteLifecycle`, `SiteUnit`, `RecordFate` |
| `TokenBucket` | what the limiter promises a peer: abstract | |
| `RateLimiter` | GCRA on arrival times, the table, the clock, the sweep | refines `TokenBucket` |
| `Requests` | requests through the layers of the three listeners | uses `TokenBucket` as its limiter |
| `Release` | deploys, rollbacks, certificates and systemd on the droplet | refines `SiteUnit` |
| `AppHost` | the Aspire AppHost, and the server in the environment it composes | `SiteConfig` |
| `Telemetry` | spans and log records through the two providers, the panic hook, the shutdown | refines `RecordFate`, twice |
| `Page` | documents, and the browser tab that shows them | |
| `MCServer`, `MCRequests`, `MCTelemetry`, `MCPage` | instances for TLC | |
| `Server_proofs`, `RateLimiter_proofs`, `Requests_proofs`, `Telemetry_proofs`, `Page_proofs`, `Release_proofs`, `AppHost_proofs` | theorems | `TLAPS` |

Definitions named *slip* in comments (`DrainUnbounded`, `SiteTraceInside`, ...) are no
part of a model: each is a plausible mistake in the definition it stands before,
and the property it is paired with in `PROJECT.json` ("mutants") fails under it.

### SiteConfig

A raw value is one of the classes the resolvers tell apart: absent, empty, not
Unicode, and the well and ill formed ones of its variable.  `Read` is
`std::env::var(..).ok()`, which makes a value that is not Unicode absent; `Filled` is
the resolvers' `.filter(|s| !s.is_empty())`, which `resolve_public_base_url` alone does
not apply.  `Try` is `?`.  `InstallTelemetry` is everything `from_env` and `install` can
fail on; `ResolveConfig` is every other resolver, in `main`'s order.

### Server

`pc` is where `main` stands between two awaits; an action of `main` is everything
it does from one await to the next, so the spawn of the TLS task and of its signal
task belong to `ResolveConfigStep` and those of the plain arm to
`SpawnRedirectListener`.  `Worlds` are what a run may meet: the environment, whether
the pair on disk loads, which addresses can be bound, whether the process is pid 1
(for which an unhandled SIGTERM is ignored, not fatal).

* `Handle::listening` is two actions. `StartListening` returns an address already
  published, or starts to wait; `FinishListening` needs `woken`, which
  `NotifyListening` sets only for somebody already waiting, since the notification
  is not stored.  A load error of the pair never reaches `NotifyListening`.
* `Panic` is an `.expect` that failed in `main`: the hook flushes, the stack unwinds and
  drops the guard, the runtime is dropped, and the process exits.  `Vanish` is the end
  of the process for those it served.
* `StopAccepting` and `DrainEnds` are axum-server's: after `graceful_shutdown(10s)` it takes
  no connection, and its serve future ends when the last counted connection ended or
  the bound ran out (`expired`).  An abandoned connection may still run after that,
  until `CutConn` or the end of the process.
* `span` follows one request's span into the batch buffer and out. "exported" means
  handed to the exporter; what a collector does with it is outside.

Three abstract modules say what others see of a run.  Clients see `SiteLifecycle`.  The host sees
`SiteUnit`: loading, listening, open, stopping, down, or *stuck*, which is `main` waiting for a
notification that nobody is left to send (`Stuck`).  Its spans see `RecordFate`: one provider that is up
until the guard is dropped, however `main` came to drop it.

A connection carries one request.  The sequence of requests on one connection is
not needed by the properties here, which are about the connection's end.

### RateLimiter and TokenBucket

Time is counted in a constant number of units per replenishment interval, `tat` is
GCRA's theoretical arrival time per peer, present only in the table.  A check and its
update are one action: governor updates with compare-and-swap, and an interleaving
of two checks is one of the two orders.  `Evict` drops entries whose time has passed,
as `retain_recent` does.  `Tick` waits for a due sweep, which bounds how late the
eviction task runs; without that the table's size would be bounded by nothing.

### Requests

The layers are data: a record from layer to depth per listener.  `Answers` says
which layers would answer a request, `Answerer` is the outermost of those, and a
request is charged, given a span, and secured by the layers *outside* the one that
answers.  A request is taken inward in one step: between the edge and the application
the code awaits nothing that another request could change but the limiter's cell, whose
check is atomic: `Govern` takes `TokenBucket`'s own actions for it, so that the layers use a bucket is
how the module is built and not a result of it.  Only the application is a place to wait, so timeouts, panics and
departures happen there.  The span ends with the body, as tower-http's trace layer
has it.  A client may follow a 301 to the public base URL's own listener.

### Telemetry

`Server` has one buffer for spans and flushes it in one step; here that step is taken apart.
A request makes up to four records: its span, the hook's `server panicked`, the catching
layer's `request handler panicked`, and the trace layer's failure event on a 5xx (everything else it
logs is DEBUG, which `otel_filter` leaves out).  `rec` follows each one: open (a span that runs),
queued, sending, and then exported or refused by the collector; or dropped at a full
queue, late for a provider that was shut down, lost with the process.

* `Panic`, `FlushSpans`, `FlushLogs`, `Catch` are the hook's event, its two `force_flush` calls and
  `respond_to_panic`, which runs once the hook let the stack unwind.  A flush waits for the batch
  under way and then exports the queue; or it fails or takes too long, which `let _ =` ignores and
  `gaveUp` remembers.
* `DropFirst` and `DropSecond` are `TelemetryGuard::shutdown`: the tracer, then the logger whatever became
  of the tracer.  Requests the drain abandoned may still run in between.
* `Exit` may come at any time: after the guard, or as a kill.
* `Truncate` works on a string as its length and the places where it may be cut: UTF-8's character
  boundaries, one to four bytes apart.  `truncate_on_boundary` reads nothing else of it.

`RecordFate` is what both this and `Server`'s one buffer come to: a record is offered once, then held and sent once,
or lost once; a provider that was shut down takes nothing and, if its shutdown succeeded, holds nothing.
`ImplementsPipelines` maps the tracer to one instance of it (whose records are spans) and the logger to another (whose records
are the events); `Server!ImplementsTracer` maps a run's spans to a third.

This is the exporting mode; an inert guard holds nothing.  How a batch processor queues, drops and
exports is the SDK's and external; the code relies on it.

### Page

One tab.  `doc` is the document it loaded last, as the server rendered it: status, canonical URL,
policy, and what it needs of the policy.  `main` is what `<main>` shows now, `errored` is the `PageErrored` flag,
and `tab` says whether the app runs yet.

* `Load` is a request and its render: `Rendered` is what the routes come to (a page, the `NotFound` fallback,
  `Internal` when the boundary catches, `panic` when metadata do not construct), `Document` what goes into
  the response.  A new document forgets the flag.
* `Hydrate` runs `App` over the document, if its policy lets it: errors caught on the server come along,
  so the boundary's fallback raises the flag again.
* `FollowInApp` is a link the router takes.  It renders anew only if the route changes; `FollowNatively` is a link
  before hydration or with `target="_self"`, which `FullLoadTarget` and the template's own link compute.
* `RenderFails` is a page already shown that renders an error.

No page fails to render today: the boundary is there for one that will, and the repository's own
tests feed it fixtures.  So any page may fail here.  Paths are names with or without a trailing slash;
what a fallback answers on `/resume/`, which `leptos_router` knows and axum does not, is
Leptos' own (200 or 404).  The literals of `HomePage`, `ResumePage` and `HowItsBuiltPage` are the lengths
of the pages' titles and descriptions.

### Release

Each command a workflow sends to the droplet over ssh is one action, and the commands of
different runs interleave.  There is one deploy slot: a push cancels the superseded run
(`image.yml:20-22`), and a job builds for minutes before its first command reaches the
droplet, so two deploy jobs are never there at once.  The job of any push may be run again
(`Rerun`): it is one of the same group, ships its old image, and puts its old unit file back.
Rollbacks have no such group and there may be any number, one after the other or at once.
An image is the number of its push, which makes "newer" an order; the unit file is the push it
came with.  A failing command ends its run, and `CutDeploy` and `CutRollback` end one between two
commands.

The site is what systemd sees of `Server`: down, loading, listening, open (the redirect
answers too) and *stuck*, which is the process of `bad_pair` below: up, with no
listener, restarted by nobody.  Certificate and key are two files with a number each, installed
by two commands; a pair loads when the numbers agree.  The site reads them one after the other
(`ReadCertificate`, `ReadKey`; `from_pem_file` awaits between the two) and binds later (`Listen`), so a command
of the installation may come between any two of these.  What a run has read it keeps: `site.crt` and `site.key`.
Each `install` is taken to replace its file at once; that it writes for a moment is one more way to
meet a pair that does not load while an installation is under way, and the properties allow for that already.

`SiteUnit` makes this precise: `Server` implements one run of it (`ImplementsRun`), over files that stay as
they are, and `Release`'s site one run after another, over files that change under it until it has read
them (`ImplementsUnit`).

Histories say what the properties are about, and guard no action.  `last` and `prior` are the two images
verified last.  Nothing in the workflows makes a run wait for another, so none does here; `met` collects
the runs that met another while they ran, `clean` is whether every run so far was verified and met no
other, and `sure` whether the run that verified `last` met no other.  What a deploy or a rollback
says of the droplet when it reports itself verified is not so of one that was overlapped, and is stated of the others:
those that happened to be alone, in any history, after any failure or overlap before them.  `newest` is the newest unit
file there was, and `site.behind` whether a container was started under an older one.

### AppHost

A `Cargo.toml` is a record of classes: missing, well formed, ill formed, or a number that
is no port.  `ReadWorkspace` is `LeptosSiteConfig.ReadFrom` with all that `Parse` refuses;
`ResolveAndWire` is the rest of `AddLeptosServerApp` up to the callbacks it registers, which
Aspire runs when it starts the resource, here in any order.  Of the server's variables
the AppHost's own environment is assumed to hold `SITE_TLS` and `PUBLIC_BASE_URL` alone, and
the server is the debug build of `cargo leptos watch`.  `StartServer` gives the composed
environment to the very operators that `Server` resolves with, and the addresses to the
operating system; `Probe` is the health check.

## 3. What is checked

| run | instance | shows |
|---|---|---|
| `lifecycle` | 64 worlds and every misconfigured environment, 2 connections, 2 signals, 575 946 states | `AuxAfterSite`, `DrainedMeansExported`, `PanicWhileServing`, `ServesAsDeclared`, `MisconfigurationIsFatal`, the refinements `ImplementsLifecycle`, `ImplementsRun` and `ImplementsTracer`; under fairness `StartupSettles` and `ShutdownEnds` |
| `limiter` | 2 peers, burst 2, time up to 11 | `RateBound`, `FloodRecovers`, `TableHoldsRecent`, refinement of the bucket |
| `requests` | 2 requests of 1 peer, burst 1, every configuration, 148 736 states | the order of the layers: `EveryReplySecured`, `SpanTellsTheReply`, `SpansArePaidFor`, `OneRedirect`; under fairness `Answered` |
| `telemetry` | 2 requests, queues of 1, strings of up to 9 bytes, 1 784 219 states | `PanicReported`, `ShutdownIsOrderly`, `AgentsAreCut`, the refinements `ImplementsPipelines` |
| `page` | 3 documents, every base URL and build, 4 944 states | `NoDeadEnd`, `ServedAsItIs`, `PolicyAdmits` |
| `release` | 2 pushes, a rerun, rollbacks one after the other and a crash, overlapping in every order, 5 513 541 states | `TagsStored`, `UnitKeepsUp`, `VerifiedIsLive`, `TagsTellHistory`, `LastVerifiedStays`, `RollbackServesPrevious` |
| `release_certs` | a first certificate and 2 renewals, 2 pushes, a crash, 114 712 states | `StuckOnlyByInstall`, `RenewalServed`, the refinement `ImplementsUnit`; under fairness `InstallCures` |
| `apphost` | every `Cargo.toml` over four ports, every switch and base URL, 15 410 states | `RunsWhatItAccepts`, `ProbeReaches`, `OwnOrigin` |
| `bad_pair`, `release_saw_200`, `release_valve`, `apphost_off` | small | claims that do not hold, below |

Of the type invariants only `Telemetry`'s is among the properties of a run, because it also ties open spans to
running requests; those of the other modules are theorems (section 4).

Why the bounds are enough.  Two connections are the fewest for which one ends in
the drain while the other does not; two signals, for a repeated SIGTERM and for a
SIGKILL after a SIGTERM.  The worlds of `lifecycle` vary everything an action of
`Server` reads, and next to them stands every environment that a resolver calls wrong, which ends
before there is anything to connect to.  Two requests of one peer with a
burst of one are the fewest of which one exhausts the other's budget; redirects are
followed at most twice (`MaxHops`), one more than `OneRedirect` allows to matter.
`telemetry` has two requests because a panic's flush must meet somebody else's records, and queues of one
because a full queue is then one record away; its requests are interchangeable (SYMMETRY, over
safety properties only), and strings of up to nine bytes meet a limit of five bytes at and inside
every kind of character, with and without more to come.  Three documents in `page` are an error, the full load out of it, and what the
tab remembers, or does not, after that.
`limiter`'s time passes two sweeps and refills a bucket of two more than twice, so a window can
begin and end on either side of a sweep; the second peer is what a sweep must not touch.
In `release`, two pushes and a rerun of either are what it takes for both tags to name one image, which is when a prune
drops the other one; the rollback slot is used again and again, so that two rollbacks in a row must cancel out,
and each of them may begin, read or write in the middle of any deploy; the crash falls between any two commands.
Two rollbacks at once, and more of everything, are the theorems'.  A first certificate is issued there and none
after it: those are `release_certs`' (`MaxCerts` is 2 beside the first), where the site may start before the first
pair, read a renewal file by file, be caught by it while it listens, and meet a second renewal after a first that failed.
It has no rollbacks, because it has fairness: a droplet rolled back over and over is restarted over and over, and
nothing comes up under that, whatever the certificates do.  Four ports are one more than the AppHost compares, and the default is one of them.
Every bound is a CONSTANT of its module and a guard of one action (`MaxPushes`,
`MaxReruns`, `MaxCerts`, `MaxCrashes`, `MaxSignals`, `MaxTime`, `MaxHops`, `MaxLoads`) or of the
strings looked at (`MaxBytes`); TLC's instances
are finite because of them, and the theorems hold for every value of them.

Fairness.  `Server!Fairness` is weak fairness of `main`, of the TLS task, of the signal task
and of the accept loop: tokio polls a task that was woken, and the drain's end is a
timer.  `StopAccepting` deserves a word, because axum-server's `select!` is biased
towards accepting: the cooperative budget makes a listener that is always ready
yield, so the shutdown notification is seen.  Nothing is assumed of clients,
signals, exporters or applications.  In `Requests` only the timeout layer's timer
is fair: the application may hang.  In `Release` the site's startup and the three
commands of the installation unit are fair, since systemd runs a oneshot unit's commands to
the end and `Restart=always` brings the site back; a crash loop of an image that never serves is not
restarted for ever (systemd's start limit), so `AutoRestart` is fair for a healthy image only.
Workflows promise nothing.  `Telemetry` and `Page` assume no fairness: their properties are
safety, and a visitor owes nobody a click.

### Where the code and its comments disagree

Four runs state what a comment or a document says, and TLC refutes it:

* `bad_pair` — `main.rs:154-156` says that on a startup failure `listening` resolves `None`
  and the join surfaces the error.  An error of `from_pem_file` (`tls.rs:197`) ends the
  task before the handle reaches axum-server: nothing is notified and `main` waits for
  ever.  A bind that fails before `main` waits is announced to nobody, with the same end.
* `release_saw_200` — `rollback.yml:52` reports that `/readyz` returned 200.  The check asks port
  80, whose redirect listener answers every path with a 301, which `curl -f` accepts.
* `release_valve` — `rollback.yml:3-4` calls the workflow a safety valve that points back at the
  previously deployed image.  `image.yml:288` makes `current` previous whether or not it was ever
  verified: after two deploys that did not get through (failed, superseded or cancelled), or one that is run again,
  neither tag need name the image verified last.
* `apphost_off` — `README.md:40` says that `SITE_TLS=off` restores plain-http serving.  Under the
  default launch profile the collector is https, the certificate that the exporter needs is
  injected only with TLS, and the server refuses to start.

More that need no run:

* `rollback.yml:52` names the image that serves.  A deploy or another rollback that overlaps may restart the site between
  the rollback's restart and its check, and then it need not be that one: `RollbackServesPrevious` is of a rollback
  that met no other run.  So is the image part of `VerifiedIsLive`, `TagsTellHistory` and `LastVerifiedStays`: a rollback may
  tag back an image over a deploy's, whose prune then drops the image it has just reported as verified.
* A `SITE_TLS` that is not Unicode is read as absent, although `tls.rs:160-161` calls every other value a
  misconfiguration.
* `main.rs:153-154` says that a health 200 always means that the site is serving.  The health listener
  (`main.rs:182`) is told of no shutdown and answers while the site drains; on the way up, `AuxAfterSite`
  is what holds.
* `errors.rs:4-5` says that every exit from an errored page is a full load.  `shell.rs:36-38` leaves links to other pages
  to the router, so the flag stays raised on the page they lead to.  It does no harm: there, a link to that
  very page is a full load instead of nothing.
* `site/app/src/lib.rs:41` says that error pages omit `og:url` and the canonical link.  Those of the 404 fallback do; a 500
  of a routed path carries them.
* `guard.rs:75-79` promises that the panic's record is exported.  A log queue that is full drops it before the flush,
  and a collector may refuse it; `PanicReported` is what holds.

## 4. What is proved

`ServerAssumption` (worlds are worlds, `MaxSignals` is a natural number), `LimiterAssumption`
(positive burst, interval and period), `ReleaseAssumption` (the bounds are natural numbers, the deploy job is no rollback),
`AppHostAssumption` (ports are positive numbers, the default among them), `RequestsAssumption` (bounds and
configurations), `TelemetryAssumption` (finitely many requests) and `PageAssumption` (raw base URLs are raw
base URLs) are all that the theorems assume.

**Server.** `IInv` in `Server_proofs` is the conjunction of named parts: `TypeOK`; which
tasks exist for each `pc`; how the published address, the TLS task and the site
listener agree; how guard, drain and spans agree; what the resolved configuration
says of the world.  The properties are not inductive alone: that no accepted
connection is cut early, for instance, needs that a join that succeeds has seen a
closed listener, which needs that the TLS task returns only from one, which needs
that `serve` ends only after a drain.  The proof that `Next` keeps `IInv` is split by
who acts (`MainIInv`, `TaskIInv`, `ConnIInv`) and under each by part.  From it follow the invariants of
`lifecycle`; two more that no run lists, `OrderlyEnd` (a run ends well only after a relayed signal) and
`NoEarlyCut` (an orderly shutdown cuts nobody who had time), on which the refinement rests; and `KeepsLifecycle`: every step of the process is a step of
`SiteLifecycle` or a stutter.

`RunsAsUnit` is the same for `SiteUnit`, and needs one invariant more.  `Notices` says that a `main` which waits
while an address is published has been woken, and that a TLS task which failed did so over a pair that does not load or
an address that cannot be bound.  With it `StuckMeans` shows what `Stuck` comes to: a failed TLS task, and a `main` that
has missed the news or was never sent any.  So a startup that can succeed never misses its notification,
whichever of `main` and the TLS task is first.  `StuckStays`: from there nothing but a kill ends the process, not even a
SIGTERM that was relayed.

`TracerKeepsSpans` is the refinement of `RecordFate`; beside `IInv` it needs that no connection has a span before its
request (`Unread`).  A panic's flush and a batch are one export, the guard's drop is the shutdown, an abandoned
request's span is offered to a provider that no longer takes it.  `SpansSettle` draws the consequences.

**RateLimiter.** The strengthening relates each peer's arrival time to the clock and
to what it was admitted.  From it follow the bound over any window, the recovery from
a flood, the bound on the table and the refinement: a table that is swept behaves
as a bucket that has none, so `Requests` may use the bucket.

**Release.** Two invariants, both of every interleaving of any number of runs.  `IInv`: `TypeOK`; no image on the
droplet is newer than the newest unit file there ever was, and a job past its first step has its own loaded
(`Numbered`), which the container of one past its restart runs under (`OwnUnit`); a job about to tag has its image
(`Landed`); there is a previous image only beside a current one, and a rollback past its first question has found both
(`Swappable`).  With these `TagsStored` and `UnitKeepsUp` are inductive.  The subtle case of the first is a prune that
drops an image whose id a rollback has read and not yet tagged: the rollback's tag then fails, and
between its two writes a current image is stored all the same.  That of the second is the rerun of an old push, which is the
only step that puts a file back, and which `behind` records in whatever is started under it.

`SInv` is about runs that met no other.  `Alone` says what `met` and `clean` are worth: of two runs in progress
both have met another, and as long as the history is clean there is at most one.  Each stage of a deploy or a
rollback then says what the tags are if it has met nobody (`DeployTagged`, `RollbackTagged`), and, in a clean history, where they stand
between `last` and `prior` (`DeployHistory`, `RollbackHistory`).  The argument turns on `OthersMet`: when a run begins or
goes on, every other run in progress is or becomes one that was met, so a step has only its own run's promises to
keep.  From it follow `VerifiedRuns`, `RollbacksServe`, `TagsAreHistory` and `LastVerifiedKept`, with no assumption
on who waits for whom.

The certificate has its own: `Installed` says, for each state of the installation unit, how far the two files are apart
and what a site that is stuck, or listens, may have read; `PairRead`, what a run past a read has found.
`InstallsLeaveNothing` and `RenewalsServed` follow, for any number of renewals and failures.  `SiteIsUnit` needs
`PairRead` alone: what a run has read does not change under it, what it has not read may, and it listens or sticks by
what it read.  With `RunsAsUnit` the site of `Release` and the process of `Server` are two sides of one specification.

**AppHost.** `IInv` follows the resource through its phases: what is known of the workspace once
it is accepted (three different ports), of the endpoints once declared, of each
variable until its callback has run and after, and of the listeners.  Two lemmas compute
what `SiteConfig`'s resolvers make of any environment so composed; with them
`RunsWhatItAccepts`, `ProbeReaches` and `OwnOrigin` hold for every set of ports.

**Requests.** Lemmas first compute which layer is the outermost that answers, for each listener and
kind of request, and so which layers see the reply.  `RequestOK` then says what is known of a request
before it is sent, while the application has it, once it is replied to and after a redirect was
followed; the last part is what `OneRedirect` needs: a followed redirect is addressed to the base's own host
and, if transport and base agree, to the site itself.

**Telemetry.** `IInv` adds four parts to `TypeOK` and `PanicReported`: the logger is never down before the tracer
(`Shutdowns`); a provider shut down without complaint holds nothing (`Drained`); which records a request can
have made by now (`Records`); and a log that came too late belongs to a span that comes too late as
well (`Complete`).  `PanicReported` is inductive only with these: the hook's record cannot return to the queue
after a flush, and an exit finds it neither queued nor on its way.

`PipelinesKeepRecords` maps every step to one of the tracer's, one of the logger's or none, and never to both but at the
exit.  It needs two invariants that `IInv` lacks, both about what has *not* happened yet: which records a request cannot have
offered by its step (`Unoffered`), and that only a shutdown complains (`Complaints`).  The delicate steps are the flush from a
panicking thread, which sends everybody's records and not its own alone, and the shutdown that succeeds, whose batch must be
all that is held.  `OutcomesFinal` and `DownHoldsNothing` are what the refinement buys.

`AgentsCut` is about what `Truncate` returns for every string and limit.  The loop that walks down from the limit to a boundary is
a recursive function, of which induction would be the natural proof and is out of the prover's reach.  The proof
goes by smallest elements instead (`Smallest`): below every limit there is a last boundary, since 0 is one; the function that
returns it satisfies the recursion (`SteppingExists`), and of any function that does, there is no first byte at which it
returns anything else (`SteppingComputes`).  Then `TruncateKeeps` and `TruncateLoses`
are arithmetic: boundaries are at most four bytes apart.

**Page.** Lemmas show that every accepted base URL is a bare origin, that every page's metadata construct, and
that each rendered document is `Faithful`: its status, canonical URL and policy agree with its view.  `IInv` is
that of the document, and `Showing` of the tab: what `<main>` shows agrees with the location, and a live tab
that shows an error of its own has the flag up.  From `Showing` and what the links are, `NoDeadEnd` follows for
every path and any number of loads.

Only model-checked: liveness, that is everything under fairness, which the prover does not handle (`StartupSettles`,
`ShutdownEnds`, `Answered`, `InstallCures`); and the four refuted claims, which are counterexamples and not theorems.

## 5. Not modelled, and the plan

Left for later:

1. *Requests as a refinement*: an abstract service that answers, refuses or redirects, which `Requests`
   implements whatever the order of its layers.
2. *Many requests on one connection*, so that `Server`'s drain meets an idle connection with a past.

Left out for good: the infrastructure program, which keeps no state and runs in no order; building and
scanning the image, which leaves nothing a later step reads but the image; wording, styles and layout of
the pages, and `og:image`, which no page sets; the telemetry resource's attributes and a span's attributes
other than status and user agent; the SDK's, hyper's, governor's and Leptos' insides
beyond what the code relies on, which appear as external definitions in `PROJECT.json`.
