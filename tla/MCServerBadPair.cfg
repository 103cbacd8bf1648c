\* The claim that a failed TLS startup surfaces through main.
SPECIFICATION FairSpec
CONSTANTS
  Conns = {}
  MaxSignals = 1
  Worlds <- BadPairWorlds
PROPERTY StartupFailureSurfaces
CHECK_DEADLOCK FALSE
