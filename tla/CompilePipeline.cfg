SPECIFICATION Spec
CONSTANTS
  Stages <- MCStages
  Calls <- MCCalls
INVARIANTS
  ResultTellsTheStages
  FailureIsShown
PROPERTIES
  ImplementsContract
