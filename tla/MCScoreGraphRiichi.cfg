SPECIFICATION StatsSpec
CONSTANTS
  Kinds <- Some
  NumGroups = 1
  Inputs <- AllInputs
INVARIANT RiichiIsFinal
