\* Every workspace over four ports, and every environment.
SPECIFICATION Spec
CONSTANTS
  Ports = {1, 2, 3, 4}
  DefaultHealth = 3
INVARIANTS
  RunsWhatItAccepts
  ProbeReaches
  OwnOrigin
CHECK_DEADLOCK FALSE
