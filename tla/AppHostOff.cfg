\* Plain http under the launch profile whose dashboard speaks https.
SPECIFICATION Spec
CONSTANTS
  Ports = {1, 2, 3}
  DefaultHealth = 3
INVARIANT OffServesPlain
CHECK_DEADLOCK FALSE
