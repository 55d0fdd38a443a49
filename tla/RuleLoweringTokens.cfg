SPECIFICATION Spec
CONSTANTS
    Worlds <- MCWorlds
    PrefixLimit = 5
INVARIANT
    ExpectedTokensAreLexed
