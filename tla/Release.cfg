\* Two pushes, a rerun of either, rollbacks one after the other, and a crash, in every order.
SPECIFICATION Spec
CONSTANTS
  Rollbacks = {r1}
  Job = Job
  MaxPushes = 2
  MaxReruns = 1
  MaxCerts = 0
  MaxCrashes = 1
INVARIANTS
  TagsStored
  UnitKeepsUp
  VerifiedIsLive
  TagsTellHistory
  LastVerifiedStays
PROPERTIES
  RollbackServesPrevious
CHECK_DEADLOCK FALSE
