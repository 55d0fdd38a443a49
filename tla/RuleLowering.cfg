SPECIFICATION Spec
CONSTANTS
    Worlds <- MCWorlds
    PrefixLimit = 5
INVARIANTS
    PanicsAreGaps
    TokensBelong
    UsedTextIsCovered
    ReferencesLeadHome
    WarnedRulesAreDead
    OnlyCyclesAreEndless
PROPERTY
    LoweringEnds
