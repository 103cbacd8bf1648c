\* A first certificate and its renewals, under two deploys and a crash.
SPECIFICATION FairSpec
CONSTANTS
  Rollbacks = {}
  Job = Job
  MaxPushes = 2
  MaxReruns = 0
  MaxCerts = 2
  MaxCrashes = 1
INVARIANTS
  StuckOnlyByInstall
  RenewalServed
PROPERTIES
  ImplementsUnit
  InstallCures
CHECK_DEADLOCK FALSE
