\* Two clients, a burst of two requests of two units each, a sweep every five.
SPECIFICATION Spec
CONSTANTS
  Ips = {p, q}
  Burst = 2
  Cost = 2
  EvictEvery = 5
  MaxTime = 11
INVARIANTS
  RateBound
  FloodRecovers
  TableHoldsRecent
PROPERTY ImplementsBucket
CHECK_DEADLOCK FALSE
