SPECIFICATION Spec
CONSTANTS
  A = A
  B = B
  Host = Host
  Aliases <- MCAliases
  MaxModes = 6
CHECK_DEADLOCK FALSE
CONSTANT Grammars <- MCGrammars
INVARIANTS
  OwnershipInside
  WayOut
PROPERTIES
  HandoffReturns
