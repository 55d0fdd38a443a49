SPECIFICATION Spec
CONSTANTS
  s1 = s1
  s2 = s2
  f1 = f1
  f2 = f2
  None = None
  Sessions <- MCSessions
  Files <- MCFiles
  MaxCalls = 2
  TokenCount = 2
  Serial = FALSE
CHECK_DEADLOCK FALSE
INVARIANTS
  OwnTokens
