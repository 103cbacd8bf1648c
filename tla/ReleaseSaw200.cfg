\* The rollback's check: which answer it saw.
SPECIFICATION Spec
CONSTANTS
  Rollbacks = {r1}
  Job = Job
  MaxPushes = 2
  MaxReruns = 0
  MaxCerts = 0
  MaxCrashes = 0
INVARIANTS
  RollbackSaw200
CHECK_DEADLOCK FALSE
