\* Every base URL, a tab that asks for three documents.
SPECIFICATION Spec
CONSTANTS
  MaxLoads = 3
  Raws <- AllRaws
INVARIANTS
  NoDeadEnd
  ServedAsItIs
  PolicyAdmits
CHECK_DEADLOCK FALSE
