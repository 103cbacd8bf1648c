\* A rollback after two deploys that did not get through, or one that was run again.
SPECIFICATION Spec
CONSTANTS
  Rollbacks = {r1}
  Job = Job
  MaxPushes = 2
  MaxReruns = 1
  MaxCerts = 0
  MaxCrashes = 0
PROPERTIES
  BackToVerified
CHECK_DEADLOCK FALSE
