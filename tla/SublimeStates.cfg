SPECIFICATION Spec
CONSTANTS
  Main = "main"
  Prototype = "prototype"
  Order <- MCOrder
  Length <- MCLength
  Modes <- MCModes
  NoState = "nostate"
  NoMeta = "nometa"
  NoForeign <- MCNoForeign
  Lexemes <- MCLexemes
  Metas = {"m1", "m2"}
  Frames = {"plain", "pops", "invalid"}
  Foreigns <- MCForeigns
  Machines <- MCMachines
  Graphs <- MCGraphs
  InitialMode = "lex__INITIAL"
  Seen <- MCSeen
  NoPeek = ""
  NoPattern = "nopattern"
INVARIANTS
  MergedBehaveAlike
  NothingLeftToMerge
  ContextsSurvive
  EveryContextArrives
  ConsumingFirst
PROPERTIES
  EmissionEnds
