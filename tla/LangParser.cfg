SPECIFICATION Spec
CONSTANTS
  s1 = s1
  s2 = s2
  f1 = f1
  f2 = f2
  None = None
  Sessions <- MCSessions
  Files <- MCFiles
  MaxCalls = 3
  TokenCount = 2
  Serial = TRUE
CHECK_DEADLOCK FALSE
INVARIANTS
  OwnTokens
  GuardExact
PROPERTIES
  NoParseAfterFree
  CallsEnd
