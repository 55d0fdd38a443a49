SPECIFICATION Spec
CONSTANTS
  c1 = c1
  c2 = c2
  word = word
  move = move
  re1 = re1
  re2 = re2
  NoContext = NoContext
  Contexts = {c1, c2}
  Modes <- MCModes
  Start = "INITIAL"
  Tokens = {word, move}
  Regexes = {re1, re2}
  MaxModes = 4
  Languages <- MCLanguages
INVARIANTS
  WalkIsComplete
  StacksMirrorTheLexer
  TokenSettled
PROPERTIES
  ReachTermination
