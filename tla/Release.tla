-------------------------------- MODULE Release --------------------------------
(***************************************************************************)
(* The production droplet and who changes it: the deploy job of the Image  *)
(* workflow, the Rollback workflow, the certificate units, and systemd,    *)
(* which restarts the site.                                                *)
(*                                                                         *)
(* The droplet keeps two image tags, current and previous, the images      *)
(* themselves, the site's unit file and the installed certificate pair.    *)
(* The site starts whatever is tagged current at that moment.  A workflow  *)
(* runs one command over ssh after the other; each is one step here, and   *)
(* the steps of different workflows interleave.  Images are numbered in    *)
(* the order of their pushes.                                              *)
(***************************************************************************)
EXTENDS Integers

CONSTANTS Rollbacks,    \* runs of the Rollback workflow that may be under way at once
          Job,          \* the deploy job, as a run beside them
          MaxPushes,    \* bound: pushes to main
          MaxReruns,    \* bound: reruns of a deploy job, of any push
          MaxCerts,     \* bound: certificates issued after the first
          MaxCrashes    \* bound: crashes of a healthy site

ASSUME ReleaseAssumption ==
  /\ Job \notin Rollbacks
  /\ MaxPushes \in Nat /\ MaxReruns \in Nat /\ MaxCerts \in Nat /\ MaxCrashes \in Nat

VARIABLES
  healthy,    \* the images that serve when started, fixed for the run
  current, previous,   \* the two tags: an image, or 0
  store,      \* the images on the droplet
  unit,       \* the push whose unit file systemd has loaded, or 0
  site,       \* the site's container, and the pair its run has read
  deploy,     \* the deploy job: one live run, which a newer one supersedes
  pushed, reruns, crashes,
  rollback,   \* the runs of the Rollback workflow
  issued,     \* the newest pair lego holds: its number, or 0
  crt, key,   \* the pair installed for the site
  install,    \* the certificate installation
  newest,     \* history: the newest unit file that was ever loaded
  met,        \* history: the runs that, while they ran, met another in progress
  last,       \* history: the image verified last,
  prior,      \*          and the one verified before it,
  sure,       \*          and whether the run that verified it met no other
  clean       \* history: every run so far was verified and met no other

tagVars      == <<current, previous, store>>
unitVars     == <<unit, newest>>
deployVars   == <<deploy, pushed, reruns>>
certVars     == <<issued, crt, key, install>>
verifiedVars == <<last, prior, sure>>
historyVars  == <<met, verifiedVars, clean>>
vars == <<healthy, tagVars, unitVars, site, deployVars, crashes, rollback, certVars, historyVars>>

Images == 1..MaxPushes
None   == 0

\* The runs that still have something to do.
DeploySteps   == {"prepare", "keep", "load", "tag", "check", "restart", "probe", "redirect", "prune"}
RollbackSteps == {"exists", "readCurrent", "readPrevious", "tagCurrent", "tagPrevious",
                  "restart", "probe"}
Ends          == {"none", "cancelled", "failed", "verified"}
Deploying     == deploy.step \in DeploySteps
Active        == {r \in Rollbacks : rollback[r].step \in RollbackSteps}
                   \union (IF Deploying THEN {Job} ELSE {})

\* A rollback knows nothing of the ones before it.
NewRun(step) == [step |-> step, cur |-> None, prev |-> None, seen |-> 0]

Init ==
  /\ healthy \in SUBSET Images
  /\ current = None /\ previous = None /\ store = {} /\ unit = 0 /\ newest = 0
  /\ site = [image |-> None, unit |-> 0, behind |-> FALSE, phase |-> "down", crt |-> 0, key |-> 0]
  /\ deploy = [step |-> "none", image |-> None] /\ pushed = 0 /\ reruns = 0 /\ crashes = 0
  /\ rollback = [r \in Rollbacks |-> NewRun("none")]
  /\ issued \in {0, 1} /\ crt = issued /\ key = issued /\ install = "idle"
  /\ last = None /\ prior = None /\ sure = TRUE
  /\ clean = TRUE /\ met = {}

-----------------------------------------------------------------------------
(* The site, as systemd and clients see it; Server.tla is its inside. *)

\* systemctl restart, which waits for the old container's end.
StartSite ==
  site' = [image |-> current, unit |-> unit, behind |-> unit < newest,
           phase |-> IF current = None THEN "down" ELSE "loading", crt |-> 0, key |-> 0]

SiteAt(from, now) ==
  /\ site.phase = from
  /\ site' = now
  /\ UNCHANGED <<healthy, tagVars, unitVars, deployVars, crashes, rollback, certVars, historyVars>>

\* An unhealthy image exits.
Exit == /\ site.image \notin healthy
        /\ SiteAt("loading", [site EXCEPT !.phase = "down"])

\* The certificate is read first.  A pair that is not there, or does not load, leaves the
\* process up with no listener.
ReadCertificate ==
  /\ site.image \in healthy
  /\ SiteAt("loading", [site EXCEPT !.crt = crt, !.phase = IF crt = 0 THEN "stuck" ELSE "reading"])

\* Slip: a certificate was there, and whose key is beside it is not asked.
ReadAnyKey == SiteAt("reading", [site EXCEPT !.key = key, !.phase = "loaded"])

\* The key is another read, and an installation may have come between.
ReadKey == SiteAt("reading", [site EXCEPT !.key = key,
                                          !.phase = IF key = site.crt THEN "loaded" ELSE "stuck"])

Listen == SiteAt("loaded", [site EXCEPT !.phase = "listening"])

\* main binds the redirect listener after the site's.
OpenRedirect == SiteAt("listening", [site EXCEPT !.phase = "open"])

Crash == /\ site.phase # "down" /\ crashes < MaxCrashes
         /\ crashes' = crashes + 1
         /\ site' = [site EXCEPT !.phase = "down"]
         /\ UNCHANGED <<healthy, tagVars, unitVars, deployVars, rollback, certVars, historyVars>>

\* Restart=always; it resolves the tag anew.
AutoRestart == /\ site.phase = "down" /\ site.image # None
               /\ StartSite
               /\ UNCHANGED <<healthy, tagVars, unitVars, deployVars, crashes, rollback,
                              certVars, historyVars>>

-----------------------------------------------------------------------------
(* The deploy job *)

\* A run begins.  Nothing keeps it from meeting others that are under way.
Begins(run) ==
  LET others == Active \ {run} IN
  /\ met' = IF others = {} THEN {} ELSE others \union {run}
  /\ clean' = (clean /\ Active = {})

\* A push to main: its run takes the place of the one in progress.
Push ==
  /\ pushed < MaxPushes
  /\ pushed' = pushed + 1
  /\ deploy' = [step |-> "prepare", image |-> pushed + 1]
  /\ Begins(Job)
  /\ UNCHANGED <<healthy, tagVars, unitVars, site, reruns, crashes, rollback, certVars, verifiedVars>>

\* The job of any push is run again, and is one of the same group.
Rerun(image) ==
  /\ image <= pushed /\ reruns < MaxReruns
  /\ reruns' = reruns + 1
  /\ deploy' = [step |-> "prepare", image |-> image]
  /\ Begins(Job)
  /\ UNCHANGED <<healthy, tagVars, unitVars, site, pushed, crashes, rollback, certVars, verifiedVars>>

\* Cancelled by hand, or out of its 15 minutes.
CutDeploy ==
  /\ Deploying
  /\ deploy' = [deploy EXCEPT !.step = "cancelled"]
  /\ clean' = FALSE
  /\ UNCHANGED <<healthy, tagVars, unitVars, site, pushed, reruns, crashes, rollback, certVars,
                 met, verifiedVars>>

\* The run moves on; a command that fails ends it.
DeployAt(step, next) ==
  /\ deploy.step = step
  /\ deploy' = [deploy EXCEPT !.step = next]
  /\ clean' = (clean /\ next # "failed")
  /\ UNCHANGED <<healthy, pushed, reruns, crashes, rollback, certVars, met>>

\* Slip: the unit file is written, but systemd is not told.
PrepareUnloaded == DeployAt("prepare", "keep") /\ UNCHANGED <<tagVars, unitVars, site, verifiedVars>>

\* Prepare droplet: the unit file and daemon-reload.
Prepare == /\ DeployAt("prepare", "keep")
           /\ unit' = deploy.image
           /\ newest' = IF deploy.image > newest THEN deploy.image ELSE newest
           /\ UNCHANGED <<tagVars, site, verifiedVars>>

\* Ship image: what is current becomes previous,
Keep == /\ DeployAt("keep", "load")
        /\ previous' = IF current # None THEN current ELSE previous
        /\ UNCHANGED <<current, store, unitVars, site, verifiedVars>>

\* the image is loaded,
LoadImage == /\ DeployAt("load", "tag")
             /\ store' = store \union {deploy.image}
             /\ UNCHANGED <<current, previous, unitVars, site, verifiedVars>>

\* and tagged; nothing but a deploy drops images, so it is there.
TagImage == /\ DeployAt("tag", "check")
            /\ current' = deploy.image
            /\ UNCHANGED <<previous, store, unitVars, site, verifiedVars>>

\* Slip: the image that lost its last tag is dropped before the new one is verified.
CheckLandedPruning ==
  /\ DeployAt("check", IF current = deploy.image THEN "restart" ELSE "failed")
  /\ store' = store \intersect {current, previous}
  /\ UNCHANGED <<current, previous, unitVars, site, verifiedVars>>

CheckLanded == /\ DeployAt("check", IF current = deploy.image THEN "restart" ELSE "failed")
               /\ UNCHANGED <<tagVars, unitVars, site, verifiedVars>>

\* Slip: the unit is started, which does nothing while it runs.
RestartStarting == /\ DeployAt("restart", "probe")
                   /\ IF site.phase = "down" THEN StartSite ELSE UNCHANGED site
                   /\ UNCHANGED <<tagVars, unitVars, verifiedVars>>

\* Restart and verify.
Restart == /\ DeployAt("restart", "probe")
           /\ StartSite
           /\ UNCHANGED <<tagVars, unitVars, verifiedVars>>

\* curl https .../readyz, retried for a minute: fails only if it is never answered.
Probe == /\ \/ site.phase \in {"listening", "open"} /\ DeployAt("probe", "redirect")
            \/ site.phase \notin {"listening", "open"} /\ DeployAt("probe", "failed")
         /\ UNCHANGED <<tagVars, unitVars, site, verifiedVars>>

\* curl http://.../, not retried.
ProbeRedirect == /\ DeployAt("redirect", IF site.phase = "open" THEN "prune" ELSE "failed")
                 /\ UNCHANGED <<tagVars, unitVars, site, verifiedVars>>

\* The images of the tags and of a running container stay.
InUse == {current, previous} \union (IF site.phase = "down" THEN {} ELSE {site.image})

\* Slip: every image no container uses goes, tagged or not.
PruneAll == /\ DeployAt("prune", "verified")
            /\ store' = store \intersect (IF site.phase = "down" THEN {} ELSE {site.image})
            /\ last' = deploy.image /\ prior' = last /\ sure' = (Job \notin met)
            /\ UNCHANGED <<current, previous, unitVars, site>>

\* Verified; podman image prune ends the run.
Prune == /\ DeployAt("prune", "verified")
         /\ store' = store \intersect InUse
         /\ last' = deploy.image /\ prior' = last /\ sure' = (Job \notin met)
         /\ UNCHANGED <<current, previous, unitVars, site>>

-----------------------------------------------------------------------------
(* The Rollback workflow *)

StartRollback(r) ==
  /\ rollback[r].step \in Ends
  /\ rollback' = [rollback EXCEPT ![r] = NewRun("exists")]
  /\ Begins(r)
  /\ UNCHANGED <<healthy, tagVars, unitVars, site, deployVars, crashes, certVars, verifiedVars>>

\* Cancelled by hand, or out of its 10 minutes.
CutRollback(r) ==
  /\ rollback[r].step \in RollbackSteps
  /\ rollback' = [rollback EXCEPT ![r] = NewRun("cancelled")]
  /\ clean' = FALSE
  /\ UNCHANGED <<healthy, tagVars, unitVars, site, deployVars, crashes, certVars, met, verifiedVars>>

\* The run moves on, to `now`; a command that fails ends it.
RollbackAt(r, step, now) ==
  /\ rollback[r].step = step
  /\ rollback' = [rollback EXCEPT ![r] = now]
  /\ clean' = (clean /\ now.step # "failed")
  /\ UNCHANGED <<healthy, unitVars, deployVars, crashes, certVars, met>>

\* The shell's variables end with it.
To(r, step) == IF step \in Ends THEN NewRun(step) ELSE [rollback[r] EXCEPT !.step = step]

RollbackExists(r) ==
  /\ RollbackAt(r, "exists", To(r, IF previous # None THEN "readCurrent" ELSE "failed"))
  /\ UNCHANGED <<tagVars, site, verifiedVars>>

RollbackReadCurrent(r) ==
  /\ RollbackAt(r, "readCurrent", [To(r, "readPrevious") EXCEPT !.cur = current])
  /\ UNCHANGED <<tagVars, site, verifiedVars>>

RollbackReadPrevious(r) ==
  /\ RollbackAt(r, "readPrevious", [To(r, "tagCurrent") EXCEPT !.prev = previous])
  /\ UNCHANGED <<tagVars, site, verifiedVars>>

\* The image may be gone since its id was read.
RollbackTagCurrent(r) ==
  LET stored == rollback[r].prev \in store IN
  /\ RollbackAt(r, "tagCurrent", To(r, IF stored THEN "tagPrevious" ELSE "failed"))
  /\ current' = IF stored THEN rollback[r].prev ELSE current
  /\ UNCHANGED <<previous, store, site, verifiedVars>>

\* Slip: the image left is not kept as previous.
RollbackForgets(r) == /\ RollbackAt(r, "tagPrevious", To(r, "restart"))
                      /\ UNCHANGED <<tagVars, site, verifiedVars>>

RollbackTagPrevious(r) ==
  LET stored == rollback[r].cur \in store IN
  /\ RollbackAt(r, "tagPrevious", To(r, IF stored THEN "restart" ELSE "failed"))
  /\ previous' = IF stored THEN rollback[r].cur ELSE previous
  /\ UNCHANGED <<current, store, site, verifiedVars>>

\* Slip: as for the deploy job.
RollbackStarting(r) == /\ RollbackAt(r, "restart", To(r, "probe"))
                       /\ IF site.phase = "down" THEN StartSite ELSE UNCHANGED site
                       /\ UNCHANGED <<tagVars, verifiedVars>>

RollbackRestart(r) == /\ RollbackAt(r, "restart", To(r, "probe"))
                      /\ StartSite
                      /\ UNCHANGED <<tagVars, verifiedVars>>

\* curl http://.../readyz, retried: port 80 is the redirect listener's, which answers
\* every path with a 301, and curl takes that for a success.
RollbackProbe(r) ==
  /\ \/ /\ site.phase = "open"
        /\ RollbackAt(r, "probe", [To(r, "verified") EXCEPT !.seen = 301])
        /\ last' = rollback[r].prev /\ prior' = last /\ sure' = (r \notin met)
     \/ /\ site.phase # "open"
        /\ RollbackAt(r, "probe", To(r, "failed"))
        /\ UNCHANGED verifiedVars
  /\ UNCHANGED <<tagVars, site>>

-----------------------------------------------------------------------------
(* The certificate units *)

CertAt(step, next) ==
  /\ install = step
  /\ install' = next
  /\ UNCHANGED <<healthy, tagVars, unitVars, deployVars, crashes, rollback, historyVars>>

\* lego holds a new pair, and its hook starts the installation and waits for it.
Issue == /\ issued <= MaxCerts
         /\ install \in {"idle", "failed"} /\ CertAt(install, "crt")
         /\ issued' = issued + 1
         /\ UNCHANGED <<site, crt, key>>

InstallCrt == /\ CertAt("crt", "key")
              /\ crt' = issued
              /\ UNCHANGED <<site, issued, key>>

InstallKey == /\ CertAt("key", "restart")
              /\ key' = issued
              /\ UNCHANGED <<site, issued, crt>>

\* Slip: the pair is installed and the site left alone.
InstallQuietly == CertAt("restart", "idle") /\ UNCHANGED <<site, issued, crt, key>>

\* Slip: as for the deploy job.
InstallStarting == /\ CertAt("restart", IF current = None THEN "failed" ELSE "idle")
                   /\ IF current # None /\ site.phase = "down" THEN StartSite ELSE UNCHANGED site
                   /\ UNCHANGED <<issued, crt, key>>

\* There may be no site to restart yet.
InstallRestart == /\ CertAt("restart", IF current = None THEN "failed" ELSE "idle")
                  /\ IF current = None THEN UNCHANGED site ELSE StartSite
                  /\ UNCHANGED <<issued, crt, key>>

\* Slip: a command that fails is passed over, and the unit ends as if it had not.
InstallFailsUnseen == /\ install \in {"crt", "key", "restart"} /\ CertAt(install, "idle")
                      /\ UNCHANGED <<site, issued, crt, key>>

\* A command fails, and systemd runs none after it.
InstallFails == /\ install \in {"crt", "key", "restart"} /\ CertAt(install, "failed")
                /\ UNCHANGED <<site, issued, crt, key>>

-----------------------------------------------------------------------------
Site     == Exit \/ ReadCertificate \/ ReadKey \/ Listen \/ OpenRedirect
Deploy   == \/ Prepare \/ Keep \/ LoadImage \/ TagImage \/ CheckLanded
            \/ Restart \/ Probe \/ ProbeRedirect \/ Prune
Rollback(r) == \/ RollbackExists(r) \/ RollbackReadCurrent(r) \/ RollbackReadPrevious(r)
               \/ RollbackTagCurrent(r) \/ RollbackTagPrevious(r)
               \/ RollbackRestart(r) \/ RollbackProbe(r)
Install  == InstallCrt \/ InstallKey \/ InstallRestart

Next == \/ Site \/ Crash \/ AutoRestart
        \/ Push \/ CutDeploy \/ Deploy
        \/ \E image \in Images : Rerun(image)
        \/ \E r \in Rollbacks : StartRollback(r) \/ CutRollback(r) \/ Rollback(r)
        \/ Issue \/ Install \/ InstallFails

Spec == Init /\ [][Next]_vars

\* systemd runs a unit's commands to its end and starts the site again; the site's
\* own startup is Server's.  A crash loop is not restarted for ever.
Fairness == WF_vars(Site) /\ WF_vars(Install) /\ WF_vars(current \in healthy /\ AutoRestart)

FairSpec == Spec /\ Fairness

-----------------------------------------------------------------------------
(* Properties *)

\* A rollback, and what it carries along.
Run == [step : RollbackSteps \union Ends, cur : Images \union {None},
        prev : Images \union {None}, seen : {0, 301}]

\* What systemd knows of the site's container, and how far its run has come.
Container == [image : Images \union {None}, unit : Images \union {0}, behind : BOOLEAN,
              phase : {"down", "loading", "reading", "loaded", "listening", "open", "stuck"},
              crt : 0..(MaxCerts + 1), key : 0..(MaxCerts + 1)]

TypeOK ==
  /\ healthy \subseteq Images
  /\ current \in Images \union {None} /\ previous \in Images \union {None}
  /\ store \subseteq Images /\ unit \in 0..newest /\ newest \in 0..pushed
  /\ site \in Container
  /\ deploy \in [step : DeploySteps \union Ends, image : 0..pushed]
  /\ pushed \in 0..MaxPushes /\ reruns \in 0..MaxReruns /\ crashes \in 0..MaxCrashes
  /\ rollback \in [Rollbacks -> Run]
  /\ \A r \in Rollbacks : rollback[r].step \in {"tagCurrent", "tagPrevious", "restart", "probe"} =>
       rollback[r].cur # None /\ rollback[r].prev # None
  /\ issued \in 0..(MaxCerts + 1) /\ crt \in 0..issued /\ key \in 0..issued
  /\ install \in {"idle", "crt", "key", "restart", "failed"}
  /\ last \in Images \union {None} /\ prior \in Images \union {None} /\ sure \in BOOLEAN
  /\ clean \in BOOLEAN /\ met \subseteq Rollbacks \union {Job}

\* image.yml:288-290 and 307-309, rollback.yml:44-49: however a deploy's rotation and prune and any
\* number of rollbacks interleave or are cut, the tags name images the droplet has.
TagsStored == /\ current # None => current \in store
              /\ previous # None => previous \in store

\* image.yml:259-261 before 288-290: the unit file goes first, so that a restart, of whatever
\* cause and at whatever moment of whatever runs, brings up an image newer than its unit file
\* only if the unit file in place is an older one that a rerun of an older push put back.
UnitKeepsUp == site.image > site.unit => site.behind

\* image.yml:259-261 and 306: a deploy that reports itself verified has the site running
\* under its own unit file, whatever restarted it in between; and with its own image, if no
\* rollback was under way meanwhile.
VerifiedIsLive ==
  deploy.step = "prune" =>
    /\ site.unit = deploy.image
    /\ Job \notin met => site.image = deploy.image /\ current = deploy.image

\* rollback.yml:52: a rollback that reports itself verified has the image it names
\* running, if no deploy and no other rollback was under way meanwhile.
RollbackServesPrevious ==
  [][\A r \in Rollbacks :
       rollback[r].step = "probe" /\ rollback'[r].step = "verified" /\ r \notin met
         => site.image = rollback[r].prev]_vars

\* rollback.yml:3-5 and 39-40: as long as every run was verified, and began when no other was
\* under way, current is the image verified last and previous the one before it, after
\* deploys, reruns of any push and rollbacks alike.
TagsTellHistory == clean /\ Active = {} => current = last /\ previous = prior

\* image.yml:307-309: a prune drops the last verified image only for a newer one: what a run
\* verified that met no other stays on the droplet until another is verified, whatever runs
\* fail, are cut or overlap after it.
LastVerifiedStays == sure /\ last # None => last \in store

\* portfolio-certs-install.service:6-8: whoever restarts the site and whenever, it is left
\* with no listener only by an installation that is under way or failed, or for want of a
\* first pair; an installation that ended well leaves none behind.
StuckOnlyByInstall ==
  install = "idle" => /\ crt = key
                      /\ site.phase = "stuck" => crt = 0

\* portfolio-certs-install.service:8: when an installation has ended well, a site that can be
\* reached serves the newest certificate there is, and none that it read before or in the
\* middle of the installation, whoever else restarted it.
RenewalServed == install = "idle" /\ site.phase \in {"listening", "open"} => site.crt = issued

\* portfolio-certs-install.service:6-8: a site that a restart between the two install
\* commands left with no listener comes up again when the installation gets through.
InstallCures ==
  site.phase = "stuck" /\ install \in {"crt", "key", "restart"}
    ~> site.phase = "open" \/ install = "failed" \/ current \notin healthy

\* The pair of a run: what it has read and, as far as it has not, what it would read now.
RunCrt == IF site.phase \in {"down", "loading"} THEN crt ELSE site.crt
RunKey == IF site.phase \in {"down", "loading", "reading"} THEN key ELSE site.key

\* tls.rs:197-203 under portfolio-site.container:19: to whoever restarts it, over a pair
\* installed file by file while it reads them, the site is one run of SiteUnit after another,
\* as Server is one: it listens only over a pair that loads and waits for ever only over one
\* that does not.
Unit == INSTANCE SiteUnit WITH
          phase    <- IF site.phase \in {"reading", "loaded"} THEN "loading" ELSE site.phase,
          loadable <- RunCrt = RunKey /\ RunCrt # 0

ImplementsUnit == Unit!UnitSpec

-----------------------------------------------------------------------------
(* Claims of the workflows that they do not keep *)

\* rollback.yml:52: "rollback verified: /readyz returned 200".
RollbackSaw200 == \A r \in Rollbacks : rollback[r].step = "verified" => rollback[r].seen = 200

\* rollback.yml:3-4: "Manual safety valve: points the droplet back at the previously
\* deployed image": from an image that was not verified, back to the one that was, if it is alone.
BackToVerified ==
  [][\A r \in Rollbacks :
       /\ rollback[r].step = "tagPrevious" /\ rollback'[r].step = "restart"
       /\ last \notin {None, rollback[r].cur} /\ r \notin met
       => rollback[r].prev = last]_vars
=============================================================================
