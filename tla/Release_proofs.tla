---------------------------- MODULE Release_proofs ----------------------------
(***************************************************************************)
(* Proofs about Release, for any number of pushes, reruns, rollbacks,      *)
(* certificates and crashes.                                               *)
(***************************************************************************)
EXTENDS Release, TLAPS

\* The inductive invariant.  The unit file of a push comes before its image, so no image is newer
\* than the newest unit file there was; a deploy past its restart has the site under its own;
\* what a deploy tags it has loaded; a rollback that saw a previous image has two to swap.
Numbered == /\ Deploying => deploy.image # None
            /\ Deploying /\ deploy.step # "prepare" => unit = deploy.image
            /\ \A i \in store : i <= newest
OwnUnit  == deploy.step \in {"probe", "redirect", "prune"} => site.unit = deploy.image
Landed   == deploy.step = "tag" => deploy.image \in store
Swapping == {"readCurrent", "readPrevious", "tagCurrent", "tagPrevious"}
Swappable ==
  /\ previous # None => current # None
  /\ \A r \in Rollbacks :
       /\ rollback[r].step \in Swapping => previous # None
       /\ rollback[r].step = "readPrevious" => rollback[r].cur # None
IInv == TypeOK /\ Numbered /\ OwnUnit /\ Landed /\ Swappable /\ TagsStored /\ UnitKeepsUp

\* A run that met no other is the only one in progress, and as long as the history is clean
\* there is no other kind.
Alone ==
  /\ \A x, y \in Active : x = y \/ x \in met
  /\ clean => /\ \A x, y \in Active : x = y
              /\ \A x \in Active : x \notin met

\* What a run that met no other has made of the droplet.
DeployTagged ==
  Job \notin met =>
    /\ deploy.step \in {"restart", "probe", "redirect", "prune"} => current = deploy.image
    /\ deploy.step \in {"probe", "redirect", "prune"} => site.image = deploy.image
RollbackTagged ==
  \A r \in Rollbacks : r \notin met =>
    /\ rollback[r].step \in {"tagPrevious", "restart", "probe"} =>
         current = rollback[r].prev /\ rollback[r].prev \in store
    /\ rollback[r].step = "probe" => site.image = rollback[r].prev

\* Where the tags stand between the last two verified images at every step of a run.
DeployHistory ==
  clean => /\ deploy.step \in {"prepare", "keep"} => current = last /\ previous = prior
           /\ deploy.step \in {"load", "tag"} => current = last
           /\ deploy.step \in DeploySteps \ {"prepare", "keep"} => previous = last
RollbackHistory ==
  clean => \A r \in Rollbacks :
    /\ rollback[r].step \in {"exists", "readCurrent", "readPrevious"} =>
         current = last /\ previous = prior
    /\ rollback[r].step = "readPrevious" => rollback[r].cur = last
    /\ rollback[r].step = "tagCurrent" => current = last /\ previous = prior
    /\ rollback[r].step \in {"tagCurrent", "tagPrevious", "restart", "probe"} =>
         rollback[r].cur = last /\ rollback[r].prev = prior
    /\ rollback[r].step \in {"restart", "probe"} => previous = last
SInv == /\ Alone /\ DeployTagged /\ RollbackTagged /\ DeployHistory /\ RollbackHistory
        /\ TagsTellHistory /\ LastVerifiedStays

-----------------------------------------------------------------------------
LEMMA InitIInv == Init => IInv
BY ReleaseAssumption DEF Init, IInv, TypeOK, Numbered, Landed, Swappable, Swapping, TagsStored,
                         UnitKeepsUp,
   OwnUnit, Container, NewRun, Deploying, DeploySteps, RollbackSteps, Ends, Run, Images, None

\* A restart takes the current image and the loaded unit file, which is no older.
LEMMA StartKeepsUp ==
  ASSUME IInv, StartSite
  PROVE  /\ site' \in Container
         /\ site'.image = current /\ site'.unit = unit
         /\ site'.image > site'.unit => site'.behind
<1> USE ReleaseAssumption DEF IInv, TypeOK, Images, None
<1>1. /\ unit \in Images \union {0} /\ unit \in Int /\ newest \in Int /\ unit <= newest
      /\ current \in Images \union {None} /\ current \in Int /\ current <= newest
  BY DEF Numbered, TagsStored
<1>2. site' \in Container
  BY <1>1 DEF StartSite, Container
<1>3. site'.image = current /\ site'.unit = unit /\ site'.behind = (unit < newest)
  BY DEF StartSite
<1>4. current > unit => unit < newest
  BY <1>1
<1>5. QED
  BY <1>2, <1>3, <1>4

\* The site's own steps, systemd's and the certificates' touch nothing of a run.
OfTheSite == Site \/ Crash \/ AutoRestart \/ Issue \/ Install \/ InstallFails

LEMMA SiteLeavesRuns ==
  ASSUME OfTheSite
  PROVE  UNCHANGED <<healthy, tagVars, unitVars, deployVars, rollback, historyVars>>
BY DEF OfTheSite, Site, Exit, ReadCertificate, ReadKey, Listen, OpenRedirect, SiteAt, Crash,
   AutoRestart, Issue, Install, InstallCrt, InstallKey, InstallRestart, InstallFails, CertAt

\* A run of the site keeps its image and its unit file to the end.
LEMMA RunningOn ==
  ASSUME IInv, Site \/ Crash
  PROVE  /\ site' \in Container /\ UNCHANGED certVars
         /\ site'.image = site.image /\ site'.unit = site.unit /\ site'.behind = site.behind
<1> USE DEF IInv, TypeOK, Container, certVars
<1>0. crt \in 0..(MaxCerts + 1) /\ key \in 0..(MaxCerts + 1)
  BY ReleaseAssumption
<1>1. CASE Exit
  BY <1>1 DEF Exit, SiteAt
<1>2. CASE ReadCertificate
  BY <1>0, <1>2 DEF ReadCertificate, SiteAt
<1>3. CASE ReadKey
  BY <1>0, <1>3 DEF ReadKey, SiteAt
<1>4. CASE Listen \/ OpenRedirect
  BY <1>4 DEF Listen, OpenRedirect, SiteAt
<1>5. CASE Crash
  BY <1>5 DEF Crash
<1>6. QED
  BY <1>1, <1>2, <1>3, <1>4, <1>5 DEF Site

LEMMA SiteOrStart ==
  ASSUME IInv, OfTheSite
  PROVE  /\ site' \in Container
         /\ site'.image > site'.unit => site'.behind
         /\ (site'.image = site.image /\ site'.unit = site.unit) \/ StartSite
<1>1. CASE Site \/ Crash
  BY <1>1, RunningOn DEF IInv, UnitKeepsUp
<1>2. CASE StartSite
  BY <1>2, StartKeepsUp
<1>3. CASE UNCHANGED site
  BY <1>3 DEF IInv, TypeOK, UnitKeepsUp
<1>4. QED
  BY <1>1, <1>2, <1>3 DEF OfTheSite, AutoRestart, Issue, Install, InstallCrt, InstallKey,
     InstallRestart, InstallFails

LEMMA SiteKeepsIInv == ASSUME IInv, OfTheSite PROVE IInv'
<1> USE ReleaseAssumption
<1>1. UNCHANGED <<healthy, tagVars, unitVars, deployVars, rollback, historyVars>>
  BY SiteLeavesRuns
<1>2. /\ crashes' \in 0..MaxCrashes
      /\ issued' \in 0..(MaxCerts + 1) /\ crt' \in 0..issued' /\ key' \in 0..issued'
      /\ install' \in {"idle", "crt", "key", "restart", "failed"}
  BY DEF OfTheSite, Site, Exit, ReadCertificate, ReadKey, Listen, OpenRedirect, SiteAt, Crash,
     AutoRestart, Issue, Install, InstallCrt, InstallKey, InstallRestart, InstallFails, CertAt,
     certVars, IInv, TypeOK
<1>3. TypeOK'
  BY <1>1, <1>2, SiteOrStart
     DEF IInv, TypeOK, tagVars, unitVars, deployVars, historyVars, verifiedVars
<1>4. OwnUnit'
  BY <1>1, SiteOrStart, StartKeepsUp
     DEF IInv, Numbered, OwnUnit, Deploying, DeploySteps, unitVars, deployVars
<1>5. QED
  BY <1>1, <1>3, <1>4, SiteOrStart DEF IInv, Numbered, Landed, Swappable, TagsStored, UnitKeepsUp,
     Deploying, tagVars, unitVars, deployVars

\* A deploy's steps.  What a step leaves alone it leaves alone by DeployAt.
OfTheJob == Push \/ CutDeploy \/ Deploy \/ \E image \in Images : Rerun(image)

LEMMA DeployKeepsIInv ==
  ASSUME IInv, OfTheJob
  PROVE  IInv'
<1> USE ReleaseAssumption DEF Deploying, DeploySteps, Ends, Images, None, tagVars, unitVars,
                              certVars,
        verifiedVars
<1>0. Begins(Job) => met' \subseteq Rollbacks \union {Job} /\ clean' \in BOOLEAN
  BY DEF Begins, Active, IInv, TypeOK
<1>1. CASE Push
  BY <1>0, <1>1
     DEF Push, IInv, TypeOK, Numbered, OwnUnit, Landed, Swappable, TagsStored, UnitKeepsUp
<1>2. ASSUME NEW image \in Images, Rerun(image) PROVE IInv'
  BY <1>0, <1>2
     DEF Rerun, IInv, TypeOK, Numbered, OwnUnit, Landed, Swappable, TagsStored, UnitKeepsUp
<1>3. CASE CutDeploy
  <2>1. TypeOK'
    BY <1>3 DEF CutDeploy, IInv, TypeOK
  <2>2. QED
    BY <1>3, <2>1 DEF CutDeploy, IInv, TypeOK, Numbered, OwnUnit, Landed, Swappable, TagsStored,
                      UnitKeepsUp
<1>4. CASE Prepare
  BY <1>4
     DEF Prepare, DeployAt, IInv, TypeOK, Numbered, OwnUnit, Landed, Swappable, TagsStored,
         UnitKeepsUp
<1>5. CASE Keep
  BY <1>5
     DEF Keep, DeployAt, IInv, TypeOK, Numbered, OwnUnit, Landed, Swappable, TagsStored, UnitKeepsUp
<1>6. CASE LoadImage
  BY <1>6
     DEF LoadImage, DeployAt, IInv, TypeOK, Numbered, OwnUnit, Landed, Swappable, TagsStored,
         UnitKeepsUp
<1>7. CASE TagImage
  BY <1>7
     DEF TagImage, DeployAt, IInv, TypeOK, Numbered, OwnUnit, Landed, Swappable, TagsStored,
         UnitKeepsUp
<1>8. CASE CheckLanded
  BY <1>8
     DEF CheckLanded, DeployAt, IInv, TypeOK, Numbered, OwnUnit, Landed, Swappable, TagsStored,
         UnitKeepsUp
<1>9. CASE Restart
  <2>1. StartSite
    BY <1>9 DEF Restart
  <2>2. QED
    BY <1>9, <2>1, StartKeepsUp
       DEF Restart, DeployAt, IInv, TypeOK, Numbered, OwnUnit, Landed, Swappable, TagsStored,
           UnitKeepsUp
<1>10. CASE Probe
  <2>1. PICK next \in {"redirect", "failed"} : DeployAt("probe", next)
    BY <1>10 DEF Probe
  <2>2. QED
    BY <1>10, <2>1
       DEF Probe, DeployAt, IInv, TypeOK, Numbered, OwnUnit, Landed, Swappable, TagsStored,
           UnitKeepsUp
<1>11. CASE ProbeRedirect
  BY <1>11
     DEF ProbeRedirect, DeployAt, IInv, TypeOK, Numbered, OwnUnit, Landed, Swappable, TagsStored,
         UnitKeepsUp
<1>12. CASE Prune
  BY <1>12
     DEF Prune, DeployAt, IInv, TypeOK, Numbered, OwnUnit, Landed, Swappable, TagsStored,
         UnitKeepsUp, InUse
<1>13. QED
  BY <1>1, <1>2, <1>3, <1>4, <1>5, <1>6, <1>7, <1>8, <1>9, <1>10, <1>11, <1>12 DEF OfTheJob, Deploy

\* What a step of a run makes of its record, and of the others'.
LEMMA RunStep ==
  ASSUME IInv, NEW r \in Rollbacks, NEW step \in RollbackSteps \union Ends
  PROVE  /\ To(r, step) \in Run /\ To(r, step).step = step
         /\ NewRun(step) \in Run /\ NewRun(step).step = step
         /\ step \notin Ends => /\ To(r, step).cur = rollback[r].cur
                             /\ To(r, step).prev = rollback[r].prev
BY DEF IInv, TypeOK, Run, NewRun, To, RollbackSteps, Ends, None

LEMMA RunMoves ==
  ASSUME IInv, NEW r \in Rollbacks, NEW now \in Run, rollback' = [rollback EXCEPT ![r] = now]
  PROVE  /\ rollback' \in [Rollbacks -> Run] /\ rollback'[r] = now
         /\ \A q \in Rollbacks : q # r => rollback'[q] = rollback[q]
BY DEF IInv, TypeOK

\* A step that leaves the droplet's tags and the runs' promises alone.
LEMMA RunKeepsIInv ==
  ASSUME IInv, NEW r \in Rollbacks, NEW now \in Run, rollback' = [rollback EXCEPT ![r] = now],
         UNCHANGED <<healthy, store, unitVars, deployVars, crashes, certVars>>,
         now.step \in {"tagCurrent", "tagPrevious", "restart", "probe"} =>
           now.cur # None /\ now.prev # None,
         now.step \in Swapping => previous # None,
         now.step = "readPrevious" => now.cur # None,
         current' \in store \union {None}, current # None => current' # None,
         previous' \in store \union {None}, previous # None => previous' # None,
         previous' # None => current' # None,
         site' \in Container,
         site'.image > site'.unit => site'.behind,
         site'.unit \in {site.unit, unit},
         last' \in Images \union {None}, prior' \in Images \union {None}, sure' \in BOOLEAN,
         clean' \in BOOLEAN, met' \subseteq Rollbacks \union {Job}
  PROVE  IInv'
<1>1. /\ rollback' \in [Rollbacks -> Run] /\ rollback'[r] = now
      /\ \A q \in Rollbacks : q # r => rollback'[q] = rollback[q]
  BY RunMoves
<1>2. \A q \in Rollbacks :
        /\ rollback'[q].step \in {"tagCurrent", "tagPrevious", "restart", "probe"} =>
             rollback'[q].cur # None /\ rollback'[q].prev # None
        /\ rollback'[q].step \in Swapping => previous' # None
        /\ rollback'[q].step = "readPrevious" => rollback'[q].cur # None
  BY <1>1 DEF IInv, TypeOK, Swappable
<1>3. TypeOK'
  BY <1>1, <1>2 DEF IInv, TypeOK, unitVars, deployVars, certVars
<1>4. OwnUnit'
  BY DEF IInv, Numbered, OwnUnit, Deploying, DeploySteps, deployVars
<1>5. QED
  BY <1>2, <1>3, <1>4 DEF IInv, Numbered, Landed, Swappable, TagsStored, UnitKeepsUp, Deploying,
     unitVars, deployVars

\* A rollback's steps.
LEMMA RollbackKeepsIInv ==
  ASSUME IInv, NEW r \in Rollbacks, StartRollback(r) \/ CutRollback(r) \/ Rollback(r)
  PROVE  IInv'
<1> DEFINE run == rollback[r]
<1>0. /\ run \in Run
      /\ run.step \in {"tagCurrent", "tagPrevious", "restart", "probe"} =>
           run.cur # None /\ run.prev # None
      /\ run.step \in Swapping => previous # None
      /\ run.step = "readPrevious" => run.cur # None
      /\ previous # None => current # None
      /\ current \in store \union {None} /\ previous \in store \union {None}
      /\ current \in Images \union {None} /\ previous \in Images \union {None}
      /\ run.cur \in Images \union {None} /\ run.prev \in Images \union {None}
      /\ site \in Container
      /\ site.image > site.unit => site.behind
      /\ last \in Images \union {None} /\ prior \in Images \union {None} /\ sure \in BOOLEAN
      /\ clean \in BOOLEAN /\ met \subseteq Rollbacks \union {Job}
  BY DEF IInv, TypeOK, Swappable, TagsStored, UnitKeepsUp, Run
<1> HIDE DEF run
<1>1. CASE StartRollback(r)
  <2> DEFINE now == NewRun("exists")
  <2>1. now \in Run /\ now.step = "exists"
    BY <1>0, <1>1, RunStep DEF RollbackSteps, Ends, Run, run, StartRollback
  <2>2. rollback' = [rollback EXCEPT ![r] = now]
    BY <1>1 DEF StartRollback
  <2> HIDE DEF now
  <2>3. /\ UNCHANGED <<healthy, tagVars, unitVars, site, deployVars, crashes, certVars, verifiedVars>>
        /\ clean' \in BOOLEAN /\ met' \subseteq Rollbacks \union {Job}
    BY <1>0, <1>1 DEF StartRollback, Begins, Active
  <2>4. QED
    BY <1>0, <2>1, <2>2, <2>3, RunKeepsIInv DEF tagVars, verifiedVars, Swapping
<1>2. CASE CutRollback(r)
  <2> DEFINE now == NewRun("cancelled")
  <2>1. now \in Run /\ now.step = "cancelled"
    BY <1>0, <1>2, RunStep DEF RollbackSteps, Ends, Run, run, CutRollback
  <2>2. rollback' = [rollback EXCEPT ![r] = now]
    BY <1>2 DEF CutRollback
  <2> HIDE DEF now
  <2>3. /\ UNCHANGED <<healthy, tagVars, unitVars, site, deployVars, crashes, certVars, met, verifiedVars>>
        /\ clean' \in BOOLEAN
    BY <1>0, <1>2 DEF CutRollback
  <2>4. QED
    BY <1>0, <2>1, <2>2, <2>3, RunKeepsIInv DEF tagVars, verifiedVars, Swapping
<1>3. CASE RollbackExists(r)
  <2> DEFINE now == To(r, IF previous # None THEN "readCurrent" ELSE "failed")
  <2>1. now \in Run /\ now.step = (IF previous # None THEN "readCurrent" ELSE "failed")
    BY <1>0, <1>3, RunStep DEF RollbackSteps, Ends, Run, run, RollbackExists, RollbackAt
  <2>2. rollback' = [rollback EXCEPT ![r] = now]
    BY <1>3 DEF RollbackExists, RollbackAt, To
  <2> HIDE DEF now
  <2>3. /\ UNCHANGED <<healthy, store, unitVars, site, deployVars, crashes, certVars, met, verifiedVars>>
        /\ clean' \in BOOLEAN
        /\ current' \in store \union {None} /\ (current # None => current' # None)
        /\ previous' \in store \union {None} /\ (previous # None => previous' # None)
        /\ (previous' # None => current' # None) /\ (now.step \in Swapping => previous # None)
    BY <1>0, <1>3, <2>1 DEF Swapping, RollbackExists, RollbackAt, tagVars, run
  <2>4. QED
    BY <1>0, <2>1, <2>2, <2>3, RunKeepsIInv DEF verifiedVars
<1>4. CASE RollbackReadCurrent(r)
  <2> DEFINE now == [To(r, "readPrevious") EXCEPT !.cur = current]
  <2>1. now \in Run /\ now.step = "readPrevious" /\ now.cur = current /\ now.prev = run.prev
    BY <1>0, <1>4, RunStep DEF RollbackSteps, Ends, Run, run, RollbackReadCurrent, RollbackAt
  <2>2. rollback' = [rollback EXCEPT ![r] = now]
    BY <1>4 DEF RollbackReadCurrent, RollbackAt, To
  <2> HIDE DEF now
  <2>3. QED
    BY <1>0, <1>4, <2>1, <2>2, RunKeepsIInv DEF RollbackReadCurrent, RollbackAt, tagVars,
                                                verifiedVars, run, Swapping
<1>5. CASE RollbackReadPrevious(r)
  <2> DEFINE now == [To(r, "tagCurrent") EXCEPT !.prev = previous]
  <2>1. now \in Run /\ now.step = "tagCurrent" /\ now.cur = run.cur /\ now.prev = previous
    BY <1>0, <1>5, RunStep DEF RollbackSteps, Ends, Run, run, RollbackReadPrevious, RollbackAt
  <2>2. rollback' = [rollback EXCEPT ![r] = now]
    BY <1>5 DEF RollbackReadPrevious, RollbackAt, To
  <2> HIDE DEF now
  <2>3. QED
    BY <1>0, <1>5, <2>1, <2>2, RunKeepsIInv DEF RollbackReadPrevious, RollbackAt, tagVars,
                                                verifiedVars, run, Swapping
<1>6. CASE RollbackTagCurrent(r)
  <2> DEFINE now == To(r, IF run.prev \in store THEN "tagPrevious" ELSE "failed")
  <2>1. /\ now \in Run /\ now.step \in {"tagPrevious", "failed"}
        /\ now.step # "failed" => now.cur = run.cur /\ now.prev = run.prev
    BY <1>0, <1>6, RunStep DEF RollbackSteps, Ends, Run, run, RollbackTagCurrent, RollbackAt
  <2>2. rollback' = [rollback EXCEPT ![r] = now]
    BY <1>6 DEF RollbackTagCurrent, RollbackAt, To, run
  <2> HIDE DEF now
  <2>3. /\ UNCHANGED <<healthy, store, unitVars, site, deployVars, crashes, certVars, met, verifiedVars>>
        /\ clean' \in BOOLEAN
        /\ current' \in store \union {None} /\ (current # None => current' # None)
        /\ previous' \in store \union {None} /\ (previous # None => previous' # None)
        /\ (previous' # None => current' # None) /\ (now.step \in Swapping => previous # None)
        /\ run.step = "tagCurrent" /\ run.cur # None /\ run.prev # None
    BY <1>0, <1>6, <2>1 DEF Swapping, RollbackTagCurrent, RollbackAt, tagVars, run
  <2>4. QED
    BY <1>0, <2>1, <2>2, <2>3, RunKeepsIInv DEF verifiedVars
<1>7. CASE RollbackTagPrevious(r)
  <2> DEFINE now == To(r, IF run.cur \in store THEN "restart" ELSE "failed")
  <2>1. /\ now \in Run /\ now.step \in {"restart", "failed"}
        /\ now.step # "failed" => now.cur = run.cur /\ now.prev = run.prev
    BY <1>0, <1>7, RunStep DEF RollbackSteps, Ends, Run, run, RollbackTagPrevious, RollbackAt
  <2>2. rollback' = [rollback EXCEPT ![r] = now]
    BY <1>7 DEF RollbackTagPrevious, RollbackAt, To, run
  <2> HIDE DEF now
  <2>3. /\ UNCHANGED <<healthy, store, unitVars, site, deployVars, crashes, certVars, met, verifiedVars>>
        /\ clean' \in BOOLEAN
        /\ current' \in store \union {None} /\ (current # None => current' # None)
        /\ previous' \in store \union {None} /\ (previous # None => previous' # None)
        /\ (previous' # None => current' # None) /\ (now.step \in Swapping => previous # None)
        /\ run.step = "tagPrevious" /\ run.cur # None /\ run.prev # None
    BY <1>0, <1>7, <2>1 DEF Swapping, RollbackTagPrevious, RollbackAt, tagVars, run
  <2>4. QED
    BY <1>0, <2>1, <2>2, <2>3, RunKeepsIInv DEF verifiedVars
<1>8. CASE RollbackRestart(r)
  <2> DEFINE now == To(r, "probe")
  <2>1. now \in Run /\ now.step = "probe" /\ now.cur = run.cur /\ now.prev = run.prev
    BY <1>0, <1>8, RunStep DEF RollbackSteps, Ends, Run, run, RollbackRestart, RollbackAt
  <2>2. rollback' = [rollback EXCEPT ![r] = now]
    BY <1>8 DEF RollbackRestart, RollbackAt, To
  <2>3. /\ site' \in Container
        /\ site'.image > site'.unit => site'.behind
        /\ site'.unit = unit
    BY <1>8, StartKeepsUp DEF RollbackRestart
  <2> HIDE DEF now
  <2>4. QED
    BY <1>0, <1>8, <2>1, <2>2, <2>3, RunKeepsIInv
       DEF Swapping, RollbackRestart, RollbackAt, tagVars, verifiedVars, run, Swapping
<1>9. CASE RollbackProbe(r)
  <2>1. PICK now \in {[To(r, "verified") EXCEPT !.seen = 301], To(r, "failed")} : RollbackAt(r, "probe", now)
    BY <1>9 DEF RollbackProbe
  <2>2. now \in Run /\ now.step \in {"verified", "failed"}
    BY <1>0, <2>1, RunStep DEF RollbackSteps, Ends, Run
  <2>3. rollback' = [rollback EXCEPT ![r] = now] /\ run.step = "probe"
    BY <2>1 DEF RollbackAt, run
  <2>4. UNCHANGED <<healthy, unitVars, deployVars, crashes, certVars, met>> /\ clean' \in BOOLEAN
    BY <1>0, <2>1 DEF RollbackAt
  <2>5. /\ last' \in Images \union {None} /\ prior' \in Images \union {None} /\ sure' \in BOOLEAN
        /\ UNCHANGED <<tagVars, site>>
    BY <1>0, <1>9 DEF RollbackProbe, verifiedVars, run
  <2>6. QED
    BY <1>0, <2>2, <2>3, <2>4, <2>5, RunKeepsIInv DEF tagVars, Swapping
<1>10. QED
  BY <1>1, <1>2, <1>3, <1>4, <1>5, <1>6, <1>7, <1>8, <1>9 DEF Rollback

LEMMA NextIInv == IInv /\ [Next]_vars => IInv'
<1> SUFFICES ASSUME IInv, [Next]_vars PROVE IInv'
  OBVIOUS
<1>1. CASE OfTheSite
  BY <1>1, SiteKeepsIInv
<1>2. CASE OfTheJob
  BY <1>2, DeployKeepsIInv
<1>3. ASSUME NEW r \in Rollbacks, StartRollback(r) \/ CutRollback(r) \/ Rollback(r) PROVE IInv'
  BY <1>3, RollbackKeepsIInv
<1>4. CASE UNCHANGED vars
  BY <1>4 DEF vars, tagVars, unitVars, deployVars, certVars, historyVars, verifiedVars, IInv,
              TypeOK, Numbered, OwnUnit, Landed,
     Swappable, TagsStored, UnitKeepsUp, Deploying
<1>5. QED
  BY <1>1, <1>2, <1>3, <1>4 DEF Next, OfTheSite, OfTheJob

LEMMA Invariance == Spec => []IInv
BY InitIInv, NextIInv, PTL DEF Spec

-----------------------------------------------------------------------------
(* Runs that met no other *)

LEMMA InitSInv == Init => SInv
BY DEF Init, SInv, Alone, DeployTagged, RollbackTagged, DeployHistory, RollbackHistory, NewRun,
   TagsTellHistory, LastVerifiedStays, Active, Deploying, DeploySteps, RollbackSteps, None

LEMMA InProgress ==
  /\ \A r \in Rollbacks : r \in Active <=> rollback[r].step \in RollbackSteps
  /\ Job \in Active <=> Deploying
  /\ Active \subseteq Rollbacks \union {Job}
BY ReleaseAssumption DEF Active

\* A run begins, and is met by those in progress, or goes on as it is.
GoesOn(run) == run \in Active /\ met' = met /\ (clean' => clean)

\* Either way the others are met, and the history is clean only without them.
LEMMA OthersMet ==
  ASSUME Alone, clean \in BOOLEAN, NEW run, Begins(run) \/ GoesOn(run), Active' \subseteq Active \union {run}
  PROVE  /\ Alone'
         /\ \A x \in Active : x # run => x \in met' /\ ~clean'
<1>1. CASE Begins(run)
  <2> DEFINE others == Active \ {run}
  <2>1. /\ met' = IF others = {} THEN {} ELSE others \union {run}
        /\ clean' => Active = {}
    BY <1>1 DEF Begins
  <2>2. CASE others = {}
    BY <2>1, <2>2 DEF Alone
  <2>3. CASE others # {}
    BY <2>1, <2>3 DEF Alone
  <2>4. QED
    BY <2>2, <2>3
<1>2. CASE GoesOn(run)
  BY <1>2 DEF GoesOn, Alone
<1>3. QED
  BY <1>1, <1>2

\* What the site does and the certificates do leaves a run its image, or starts the current one.
LEMMA SiteKeepsSInv ==
  ASSUME IInv, SInv, OfTheSite
  PROVE  SInv'
<1>1. UNCHANGED <<healthy, tagVars, unitVars, deployVars, rollback, historyVars>>
  BY SiteLeavesRuns
<1>2. site'.image \in {site.image, current}
  BY SiteOrStart, StartKeepsUp
<1>3. Alone' /\ DeployHistory' /\ RollbackHistory' /\ TagsTellHistory' /\ LastVerifiedStays'
  BY <1>1 DEF SInv, Alone, DeployHistory, RollbackHistory, TagsTellHistory, LastVerifiedStays,
     Active, Deploying, tagVars, deployVars, historyVars, verifiedVars
<1>4. DeployTagged' /\ RollbackTagged'
  BY <1>1, <1>2 DEF SInv, DeployTagged, RollbackTagged, tagVars, deployVars, historyVars
<1>5. QED
  BY <1>3, <1>4 DEF SInv

\* A rollback in progress is met by the deploy, so only the deploy's own promises are at stake.
LEMMA DeployKeepsSInv ==
  ASSUME IInv, SInv, OfTheJob
  PROVE  SInv'
<1>1. /\ rollback' = rollback /\ clean \in BOOLEAN /\ site \in Container
      /\ deploy \in [step : DeploySteps \union Ends, image : 0..pushed]
      /\ Swappable /\ TagsStored /\ Landed
  BY DEF OfTheJob, Push, Rerun, CutDeploy, Deploy, Prepare, Keep, LoadImage, TagImage, CheckLanded,
     Restart, Probe, ProbeRedirect, Prune, DeployAt, IInv, TypeOK
<1>2. Begins(Job) \/ GoesOn(Job)
  BY InProgress
     DEF OfTheJob, Push, Rerun, CutDeploy, Deploy, Prepare, Keep, LoadImage, TagImage, CheckLanded,
     Restart, Probe, ProbeRedirect, Prune, DeployAt, GoesOn, Deploying, DeploySteps
<1>3. Active' \subseteq Active \union {Job}
  BY <1>1 DEF Active
<1>4. Alone' /\ \A r \in Rollbacks : rollback[r].step \in RollbackSteps => r \in met' /\ ~clean'
  BY <1>1, <1>2, <1>3, OthersMet, InProgress, ReleaseAssumption DEF SInv
<1>5. RollbackTagged' /\ RollbackHistory'
  BY <1>1, <1>4 DEF RollbackTagged, RollbackHistory, RollbackSteps
\* The history, with the run in progress or none.
<1> DEFINE Told == clean /\ ~Deploying => current = last /\ previous = prior
           Kept == DeployTagged /\ DeployHistory /\ Told /\ LastVerifiedStays
<1>6. ASSUME Kept' PROVE SInv'
  BY <1>4, <1>5, <1>6 DEF SInv, TagsTellHistory, Active
<1>7. DeployTagged /\ DeployHistory /\ LastVerifiedStays
  BY DEF SInv
<1>8. clean /\ Deploying => Job \notin met
  BY InProgress DEF SInv, Alone
<1> USE DEF DeployTagged, DeployHistory, LastVerifiedStays, Deploying, DeploySteps, Ends, None,
        tagVars, verifiedVars
<1>9. ASSUME Begins(Job), deploy'.step = "prepare", UNCHANGED <<tagVars, verifiedVars>> PROVE Kept'
  <2>1. clean' => current = last /\ previous = prior
    BY <1>9 DEF Begins, SInv, TagsTellHistory
  <2>2. QED
    BY <1>7, <1>9, <2>1
<1>10. ASSUME Push \/ \E image \in Images : Rerun(image) PROVE Kept'
  BY <1>9, <1>10 DEF Push, Rerun
<1>11. ASSUME CutDeploy PROVE Kept'
  BY <1>1, <1>7, <1>11 DEF CutDeploy
<1>12. ASSUME Prepare PROVE Kept'
  BY <1>1, <1>7, <1>12 DEF Prepare, DeployAt
<1>13. ASSUME Keep PROVE Kept'
  BY <1>1, <1>7, <1>13 DEF Keep, DeployAt, Swappable
<1>14. ASSUME LoadImage PROVE Kept'
  BY <1>1, <1>7, <1>14 DEF LoadImage, DeployAt
<1>15. ASSUME TagImage PROVE Kept'
  BY <1>1, <1>7, <1>15 DEF TagImage, DeployAt
<1>16. ASSUME CheckLanded PROVE Kept'
  BY <1>1, <1>7, <1>16 DEF CheckLanded, DeployAt
<1>17. ASSUME Restart PROVE Kept'
  BY <1>1, <1>7, <1>17 DEF Restart, DeployAt, StartSite
<1>18. ASSUME Probe PROVE Kept'
  BY <1>1, <1>7, <1>18 DEF Probe, DeployAt
<1>19. ASSUME ProbeRedirect PROVE Kept'
  BY <1>1, <1>7, <1>19 DEF ProbeRedirect, DeployAt
<1>20. ASSUME Prune PROVE Kept'
  BY <1>1, <1>7, <1>8, <1>20 DEF Prune, DeployAt, InUse, TagsStored
<1>21. QED
  BY <1>6, <1>10, <1>11, <1>12, <1>13, <1>14, <1>15, <1>16, <1>17, <1>18, <1>19, <1>20
     DEF OfTheJob, Deploy

\* Whatever else is in progress is met by the rollback, so only its own promises are at stake.
LEMMA RollbackKeepsSInv ==
  ASSUME IInv, SInv, NEW r \in Rollbacks, StartRollback(r) \/ CutRollback(r) \/ Rollback(r)
  PROVE  SInv'
<1>1. /\ deploy' = deploy /\ site \in Container /\ rollback \in [Rollbacks -> Run]
      /\ clean \in BOOLEAN /\ TagsStored
  BY DEF StartRollback, CutRollback, Rollback, RollbackExists, RollbackReadCurrent,
     RollbackReadPrevious, RollbackTagCurrent, RollbackTagPrevious, RollbackRestart, RollbackProbe,
     RollbackAt, deployVars, IInv, TypeOK
<1>2. \A q \in Rollbacks : q # r => rollback'[q] = rollback[q]
  BY <1>1 DEF StartRollback, CutRollback, Rollback, RollbackExists, RollbackReadCurrent,
     RollbackReadPrevious, RollbackTagCurrent, RollbackTagPrevious, RollbackRestart, RollbackProbe,
     RollbackAt
<1>3. Begins(r) \/ GoesOn(r)
  BY InProgress
     DEF StartRollback, CutRollback, Rollback, RollbackExists, RollbackReadCurrent,
     RollbackReadPrevious, RollbackTagCurrent, RollbackTagPrevious, RollbackRestart, RollbackProbe,
     RollbackAt, GoesOn, RollbackSteps
<1>4. Active' \subseteq Active \union {r}
  BY <1>1, <1>2 DEF Active, Deploying
<1>5. /\ Alone'
      /\ Deploying => Job \in met' /\ ~clean'
      /\ \A q \in Rollbacks : q # r /\ rollback[q].step \in RollbackSteps => q \in met' /\ ~clean'
  BY <1>1, <1>3, <1>4, OthersMet, InProgress, ReleaseAssumption DEF SInv
<1>6. DeployTagged' /\ DeployHistory'
  BY <1>1, <1>5 DEF DeployTagged, DeployHistory, Deploying, DeploySteps
\* What is promised of one run, and of the tags when it is over.
<1> DEFINE run == rollback[r]
           Tagged == r \notin met =>
             /\ run.step \in {"tagPrevious", "restart", "probe"} =>
                  current = run.prev /\ run.prev \in store
             /\ run.step = "probe" => site.image = run.prev
           Story ==
             clean =>
               /\ run.step \in {"exists", "readCurrent", "readPrevious", "tagCurrent"} =>
                    current = last /\ previous = prior
               /\ run.step = "readPrevious" => run.cur = last
               /\ run.step \in {"tagCurrent", "tagPrevious", "restart", "probe"} =>
                    run.cur = last /\ run.prev = prior
               /\ run.step \in {"restart", "probe"} => previous = last
           Told == clean /\ run.step \notin RollbackSteps => current = last /\ previous = prior
           Kept == Tagged /\ Story /\ Told /\ LastVerifiedStays
<1>7. Tagged /\ Story /\ LastVerifiedStays
  BY DEF SInv, RollbackTagged, RollbackHistory
<1>8. ASSUME Kept' PROVE SInv'
  <2>1. RollbackTagged' /\ RollbackHistory' /\ LastVerifiedStays'
    BY <1>2, <1>5, <1>8 DEF RollbackTagged, RollbackHistory, RollbackSteps
  <2>2. TagsTellHistory'
    BY <1>8 DEF TagsTellHistory, Active
  <2>3. QED
    BY <1>5, <1>6, <2>1, <2>2 DEF SInv
<1>9. clean /\ run.step \in RollbackSteps => r \notin met
  BY InProgress DEF SInv, Alone
<1> USE DEF RollbackSteps, Ends, Run, To, NewRun, tagVars, verifiedVars, LastVerifiedStays,
            TagsStored, None
<1>10. ASSUME StartRollback(r) PROVE Kept'
  <2>1. clean' => current = last /\ previous = prior
    BY <1>10 DEF StartRollback, Begins, SInv, TagsTellHistory
  <2>2. run'.step = "exists" /\ UNCHANGED <<tagVars, verifiedVars>>
    BY <1>1, <1>10 DEF StartRollback
  <2>3. QED
    BY <1>7, <2>1, <2>2
<1>11. ASSUME CutRollback(r) PROVE Kept'
  BY <1>1, <1>7, <1>11 DEF CutRollback
<1>12. ASSUME RollbackExists(r) PROVE Kept'
  BY <1>1, <1>7, <1>12 DEF RollbackExists, RollbackAt
<1>13. ASSUME RollbackReadCurrent(r) PROVE Kept'
  BY <1>1, <1>7, <1>13 DEF RollbackReadCurrent, RollbackAt
<1>14. ASSUME RollbackReadPrevious(r) PROVE Kept'
  BY <1>1, <1>7, <1>14 DEF RollbackReadPrevious, RollbackAt
<1>15. ASSUME RollbackTagCurrent(r) PROVE Kept'
  BY <1>1, <1>7, <1>15 DEF RollbackTagCurrent, RollbackAt
<1>16. ASSUME RollbackTagPrevious(r) PROVE Kept'
  <2>1. /\ run'.step = IF run.cur \in store THEN "restart" ELSE "failed"
        /\ run.cur \in store => run'.cur = run.cur /\ run'.prev = run.prev
    BY <1>1, <1>16 DEF RollbackTagPrevious, RollbackAt
  <2>2. /\ run.step = "tagPrevious" /\ clean' = (clean /\ run'.step # "failed") /\ met' = met
        /\ previous' = IF run.cur \in store THEN run.cur ELSE previous
        /\ UNCHANGED <<current, store, site, verifiedVars>>
    BY <1>1, <1>16 DEF RollbackTagPrevious, RollbackAt
  <2>3. QED
    BY <1>7, <2>1, <2>2
<1>17. ASSUME RollbackRestart(r) PROVE Kept'
  BY <1>1, <1>7, <1>17 DEF RollbackRestart, RollbackAt, StartSite
<1>18. ASSUME RollbackProbe(r) PROVE Kept'
  <2>1. CASE site.phase = "open"
    <3>1. /\ run.step = "probe" /\ run'.step = "verified" /\ (clean' => clean)
          /\ last' = run.prev /\ prior' = last /\ sure' = (r \notin met)
          /\ UNCHANGED <<current, previous, store>>
      BY <1>1, <1>18, <2>1 DEF RollbackProbe, RollbackAt
    <3>2. QED
      BY <1>7, <1>9, <3>1
  <2>2. CASE site.phase # "open"
    <3>1. RollbackAt(r, "probe", NewRun("failed")) /\ UNCHANGED <<store, verifiedVars>>
      BY <1>18, <2>2 DEF RollbackProbe
    <3>2. run'.step = "failed" /\ clean' = (clean /\ FALSE)
      BY <1>1, <3>1 DEF RollbackAt
    <3>3. QED
      BY <1>7, <3>1, <3>2
  <2>3. QED
    BY <2>1, <2>2
<1>19. QED
  BY <1>8, <1>10, <1>11, <1>12, <1>13, <1>14, <1>15, <1>16, <1>17, <1>18 DEF Rollback

LEMMA NextSInv == IInv /\ SInv /\ [Next]_vars => SInv'
<1> SUFFICES ASSUME IInv, SInv, [Next]_vars PROVE SInv'
  OBVIOUS
<1>1. CASE OfTheSite
  BY <1>1, SiteKeepsSInv
<1>2. CASE OfTheJob
  BY <1>2, DeployKeepsSInv
<1>3. ASSUME NEW r \in Rollbacks, StartRollback(r) \/ CutRollback(r) \/ Rollback(r) PROVE SInv'
  BY <1>3, RollbackKeepsSInv
<1>4. CASE UNCHANGED vars
  BY <1>4 DEF vars, tagVars, deployVars, historyVars, verifiedVars, SInv, Alone, DeployTagged,
     RollbackTagged, DeployHistory, RollbackHistory, TagsTellHistory, LastVerifiedStays, Active,
     Deploying
<1>5. QED
  BY <1>1, <1>2, <1>3, <1>4 DEF Next, OfTheSite, OfTheJob

LEMMA History == Spec => [](IInv /\ SInv)
<1>1. Init => IInv /\ SInv
  BY InitIInv, InitSInv
<1>2. (IInv /\ SInv) /\ [Next]_vars => (IInv /\ SInv)'
  BY NextIInv, NextSInv
<1>3. QED
  BY <1>1, <1>2, PTL DEF Spec

-----------------------------------------------------------------------------
(* The installed pair, and the site that reads it *)

\* What each command of the installation has behind it.  Before the first one, and after a
\* failure, the pair may be any mixture.  A restart makes the site read anew, so an installation
\* that ended well has left no run that read before it.
Installed ==
  /\ install = "key" => crt = issued
  /\ install = "restart" => crt = issued /\ key = issued
  /\ install = "idle" =>
       /\ crt = issued /\ key = issued
       /\ site.phase = "stuck" => crt = 0
       /\ site.phase \in {"reading", "loaded", "listening", "open"} => site.crt = issued

\* A run that got past a read found what it read.
PairRead ==
  /\ site.phase \in {"reading", "loaded"} => site.crt # 0
  /\ site.phase = "loaded" => site.key = site.crt

LEMMA InstalledInit == Init => Installed /\ PairRead
BY DEF Init, Installed, PairRead

\* Outside the site and the installation, only a restart touches either.
LEMMA RunsOnlyStart ==
  /\ OfTheJob => UNCHANGED certVars /\ (StartSite \/ UNCHANGED site)
  /\ \A r \in Rollbacks : StartRollback(r) \/ CutRollback(r) \/ Rollback(r) =>
       UNCHANGED certVars /\ (StartSite \/ UNCHANGED site)
<1>1. OfTheJob => UNCHANGED certVars /\ (StartSite \/ UNCHANGED site)
  BY DEF OfTheJob, Push, Rerun, CutDeploy, Deploy, Prepare, Keep, LoadImage, TagImage, CheckLanded,
     Restart, Probe, ProbeRedirect, Prune, DeployAt
<1>2. ASSUME NEW r \in Rollbacks, StartRollback(r) \/ CutRollback(r) \/ Rollback(r)
      PROVE  UNCHANGED certVars /\ (StartSite \/ UNCHANGED site)
  BY <1>2 DEF StartRollback, CutRollback, Rollback, RollbackExists, RollbackReadCurrent,
     RollbackReadPrevious, RollbackTagCurrent, RollbackTagPrevious, RollbackRestart, RollbackProbe,
     RollbackAt
<1>3. QED
  BY <1>1, <1>2

LEMMA InstalledStep == IInv /\ Installed /\ PairRead /\ [Next]_vars => Installed' /\ PairRead'
<1> SUFFICES ASSUME IInv, Installed, PairRead, [Next]_vars PROVE Installed' /\ PairRead'
  OBVIOUS
<1>1. site \in Container
  BY DEF IInv, TypeOK
\* Whatever starts the site leaves it loading or down.
<1>2. StartSite => site'.phase \in {"down", "loading"}
  BY DEF StartSite
<1>3. CASE UNCHANGED certVars /\ (StartSite \/ UNCHANGED site)
  BY <1>2, <1>3 DEF certVars, Installed, PairRead
<1>4. CASE Crash
  BY <1>1, <1>4 DEF Crash, Container, certVars, Installed, PairRead
<1>5. CASE Site
  <2> USE DEF SiteAt, Container, certVars, Installed, PairRead
  <2>1. CASE Exit
    BY <1>1, <2>1 DEF Exit
  <2>2. CASE ReadCertificate
    BY <1>1, <2>2 DEF ReadCertificate
  <2>3. CASE ReadKey
    BY <1>1, <2>3 DEF ReadKey
  <2>4. CASE Listen \/ OpenRedirect
    BY <1>1, <2>4 DEF Listen, OpenRedirect
  <2>5. QED
    BY <1>5, <2>1, <2>2, <2>3, <2>4 DEF Site
<1>6. CASE Issue \/ InstallFails
  BY <1>6 DEF Issue, InstallFails, CertAt, Installed, PairRead
<1>7. CASE Install
  BY <1>2, <1>7 DEF Install, InstallCrt, InstallKey, InstallRestart, CertAt, Installed, PairRead
<1>8. QED
  BY <1>3, <1>4, <1>5, <1>6, <1>7, RunsOnlyStart DEF Next, OfTheJob, AutoRestart, vars

LEMMA Installation == Spec => [](IInv /\ Installed /\ PairRead)
<1>1. Init => IInv /\ Installed /\ PairRead
  BY InitIInv, InstalledInit
<1>2. (IInv /\ Installed /\ PairRead) /\ [Next]_vars => (IInv /\ Installed /\ PairRead)'
  BY NextIInv, InstalledStep
<1>3. QED
  BY <1>1, <1>2, PTL DEF Spec

-----------------------------------------------------------------------------
(* The site as the runs of SiteUnit *)

\* The pair stays as it is; the site is left alone, started anew, or left down for want of
\* an image.
LEMMA UnitStarts ==
  ASSUME IInv, StartSite
  PROVE  Unit!UnitNext
<1>1. site.phase \in {"down", "loading", "reading", "loaded", "listening", "open", "stuck"}
  BY DEF IInv, TypeOK, Container
<1>2. CASE current # None
  BY <1>1, <1>2 DEF StartSite, Unit!Start, Unit!Leave, Unit!UnitNext
<1>3. CASE current = None
  BY <1>1, <1>3 DEF StartSite, Unit!End, Unit!Change, Unit!Leave, Unit!RunNext, Unit!UnitNext
<1>4. QED
  BY <1>2, <1>3

\* The files change under the site: a run that has read both is as it was.
LEMMA UnitChanges ==
  ASSUME IInv, UNCHANGED site
  PROVE  Unit!UnitNext \/ UNCHANGED Unit!vars
<1>1. site.phase \in {"down", "loading", "reading", "loaded", "listening", "open", "stuck"}
  BY DEF IInv, TypeOK, Container
<1>2. CASE site.phase \in {"down", "loading", "reading", "loaded"}
  BY <1>2 DEF Unit!Change, Unit!Leave, Unit!UnitNext
<1>3. CASE site.phase \in {"listening", "open", "stuck"}
  BY <1>3 DEF Unit!vars, RunCrt, RunKey
<1>4. QED
  BY <1>1, <1>2, <1>3

\* The run's own steps: what it has read is what it would have read, so the pair it is over
\* stays the one it was over.
LEMMA UnitRuns ==
  ASSUME IInv, PairRead, Site \/ Crash
  PROVE  Unit!UnitNext \/ UNCHANGED Unit!vars
<1>1. /\ site \in Container
      /\ site.phase \in {"down", "loading", "reading", "loaded", "listening", "open", "stuck"}
  BY DEF IInv, TypeOK, Container
<1> USE DEF Unit!Goto, Unit!Leave, Unit!RunNext, Unit!UnitNext, SiteAt, RunCrt, RunKey, Container,
            certVars
<1>2. CASE Exit \/ Crash
  <2>1. /\ site.phase # "down" /\ site'.phase = "down"
    BY <1>1, <1>2 DEF Exit, Crash
  <2>2. QED
    BY <1>1, <2>1 DEF Unit!End
<1>3. CASE ReadCertificate
  <2>1. /\ site.phase = "loading" /\ site'.crt = crt /\ UNCHANGED <<crt, key>>
        /\ site'.phase = IF crt = 0 THEN "stuck" ELSE "reading"
    BY <1>1, <1>3 DEF ReadCertificate
  <2>2. CASE crt = 0
    BY <2>1, <2>2 DEF Unit!Stick
  <2>3. CASE crt # 0
    BY <2>1, <2>3 DEF Unit!vars
  <2>4. QED
    BY <2>2, <2>3
<1>4. CASE ReadKey
  <2>1. /\ site.phase = "reading" /\ site'.crt = site.crt /\ site'.key = key /\ UNCHANGED <<crt, key>>
        /\ site'.phase = IF key = site.crt THEN "loaded" ELSE "stuck"
    BY <1>1, <1>4 DEF ReadKey
  <2>2. CASE key = site.crt
    BY <2>1, <2>2 DEF Unit!vars
  <2>3. CASE key # site.crt
    BY <2>1, <2>3 DEF Unit!Stick
  <2>4. QED
    BY <2>2, <2>3
<1>5. CASE Listen
  <2>1. /\ site.phase = "loaded" /\ site'.phase = "listening" /\ UNCHANGED <<crt, key>>
        /\ site'.crt = site.crt /\ site'.key = site.key
    BY <1>1, <1>5 DEF Listen
  <2>2. site.key = site.crt /\ site.crt # 0
    BY <2>1 DEF PairRead
  <2>3. QED
    BY <2>1, <2>2 DEF Unit!Listen
<1>6. CASE OpenRedirect
  <2>1. /\ site.phase = "listening" /\ site'.phase = "open" /\ UNCHANGED <<crt, key>>
        /\ site'.crt = site.crt /\ site'.key = site.key
    BY <1>1, <1>6 DEF OpenRedirect
  <2>2. QED
    BY <2>1 DEF Unit!Open
<1>7. QED
  BY <1>2, <1>3, <1>4, <1>5, <1>6 DEF Site

LEMMA UnitStep == IInv /\ PairRead /\ [Next]_vars => [Unit!UnitNext]_(Unit!vars)
<1> SUFFICES ASSUME IInv, PairRead, [Next]_vars PROVE Unit!UnitNext \/ UNCHANGED Unit!vars
  OBVIOUS
<1>1. Site \/ Crash \/ StartSite \/ UNCHANGED site
  BY RunsOnlyStart
     DEF Next, OfTheJob, AutoRestart, Issue, Install, InstallCrt, InstallKey, InstallRestart,
     InstallFails, vars
<1>2. QED
  BY <1>1, UnitRuns, UnitStarts, UnitChanges

-----------------------------------------------------------------------------
(* The theorems *)

\* Every variable keeps its type, and a run that has read the tags has two images to swap
\* (image.yml:269-309, rollback.yml:44-50), for any number of runs.
THEOREM ReleaseTypes == Spec => []TypeOK
<1>1. IInv => TypeOK
  BY DEF IInv
<1>2. QED
  BY <1>1, Invariance, PTL

\* However deploys, their rotation and prune, and any number of rollbacks interleave or are
\* cut, the tags name images that the droplet has (image.yml:288-309, rollback.yml:44-49).
THEOREM TagsNameImages == Spec => []TagsStored
<1>1. IInv => TagsStored
  BY DEF IInv
<1>2. QED
  BY <1>1, Invariance, PTL

\* No restart, whoever causes it and whatever old run was run again before it, runs an image under
\* a unit file older than the image, unless an older one was put back over a newer one
\* (image.yml:259-261 before 288-290).
THEOREM UnitsKeepUp == Spec => []UnitKeepsUp
<1>1. IInv => UnitKeepsUp
  BY DEF IInv
<1>2. QED
  BY <1>1, Invariance, PTL

\* Whatever rollbacks it overlaps, a deploy that reports itself verified has the site under its
\* own unit file, and has its own image running if it met none of them (image.yml:259-306).
THEOREM VerifiedRuns == Spec => []VerifiedIsLive
<1>1. IInv /\ SInv => VerifiedIsLive
  BY DEF IInv, OwnUnit, SInv, DeployTagged, VerifiedIsLive
<1>2. QED
  BY <1>1, History, PTL

\* Among any runs before and after it, a rollback that met no other and reports itself verified
\* has the image it names running (rollback.yml:46-52).
THEOREM RollbacksServe == Spec => RollbackServesPrevious
<1>1. IInv /\ SInv /\ [Next]_vars =>
        [\A r \in Rollbacks :
           rollback[r].step = "probe" /\ rollback'[r].step = "verified" /\ r \notin met
             => site.image = rollback[r].prev]_vars
  BY DEF SInv, RollbackTagged
<1>2. QED
  BY <1>1, History, PTL DEF Spec, RollbackServesPrevious

\* As long as every run was verified and met no other, the tags tell the last two verified
\* images, after deploys, reruns and rollbacks alike (image.yml:288-290, rollback.yml:46-49).
THEOREM TagsAreHistory == Spec => []TagsTellHistory
<1>1. SInv => TagsTellHistory
  BY DEF SInv
<1>2. QED
  BY <1>1, History, PTL

\* The image that a run verified last, and met no other meanwhile, is never dropped, whatever
\* failed, was cut or overlapped since (image.yml:307-309).
THEOREM LastVerifiedKept == Spec => []LastVerifiedStays
<1>1. SInv => LastVerifiedStays
  BY DEF SInv
<1>2. QED
  BY <1>1, History, PTL

\* Whoever restarts the site, between whichever commands of an installation or while it reads the
\* pair, what is left with no listener is an installation's that is under way or failed, or no
\* pair's: one that ended well leaves nothing behind (portfolio-certs-install.service:6-8).
THEOREM InstallsLeaveNothing == Spec => []StuckOnlyByInstall
<1>1. Installed => StuckOnlyByInstall
  BY DEF Installed, StuckOnlyByInstall
<1>2. QED
  BY <1>1, Installation, PTL

\* After any number of renewals, failed ones among them, a site that can be reached serves the
\* newest certificate once an installation has ended well (portfolio-certs-install.service:8).
THEOREM RenewalsServed == Spec => []RenewalServed
<1>1. Installed => RenewalServed
  BY DEF Installed, RenewalServed
<1>2. QED
  BY <1>1, Installation, PTL

\* What the droplet does to the site are runs of SiteUnit, one after the other, though an
\* installation may come between its reads of the pair: a run comes up only over a pair that
\* loads, and is stuck only over one that does not (tls.rs:197-203, portfolio-site.container:19,
\* portfolio-certs-install.service:6-8; the runs are Server's).
THEOREM SiteIsUnit == Spec => ImplementsUnit
<1>1. Init => /\ (IF site.phase \in {"reading", "loaded"} THEN "loading" ELSE site.phase) = "down"
              /\ (RunCrt = RunKey /\ RunCrt # 0) \in BOOLEAN
  BY DEF Init
<1>2. QED
  BY <1>1, Installation, UnitStep, PTL DEF Spec, ImplementsUnit, Unit!UnitSpec
=============================================================================
