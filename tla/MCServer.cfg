\* The lifecycle with two connections and two signals, and every misconfiguration.
SPECIFICATION FairSpec
CONSTANTS
  Conns = {c1, c2}
  MaxSignals = 2
  Worlds <- AllWorlds
INVARIANTS
  AuxAfterSite
  DrainedMeansExported
  PanicWhileServing
  ServesAsDeclared
  MisconfigurationIsFatal
PROPERTIES
  ImplementsLifecycle
  ImplementsRun
  ImplementsTracer
  StartupSettles
  ShutdownEnds
CHECK_DEADLOCK FALSE
