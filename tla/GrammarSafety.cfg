SPECIFICATION Spec
CONSTANTS
  Packages <- LoweredPackages
  MaxDepth = 7
INVARIANTS
  NoReentryWithoutInput
  EveryLapConsumes
  LeftRecursionExact
  FirstArmOverlapTold
CHECK_DEADLOCK FALSE
