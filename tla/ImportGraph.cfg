SPECIFICATION Spec
CONSTANTS
  r = r
  a = a
  b = b
  x = x
  y = y
  z = z
  NoModule = NoModule
  Root = r
  Modules <- MCModules
  Aliases <- MCAliases
  ImportBlocks <- MCImportBlocks
  Healths <- MCHealths
  WarningsAsErrors = {a}
INVARIANTS
  ResolvedAsDeclared
  DependenciesFirst
  LegalTreeAccepted
  ImportFailuresSurface
PROPERTIES
  Termination
