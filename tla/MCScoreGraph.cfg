SPECIFICATION StatsSpec
CONSTANTS
  Kinds <- Some
  NumGroups = 1
  Inputs <- MCInputs
INVARIANTS
  TilesConserved
  NodesOwnTheirHands
  EdgesAreDraws
  GraphIsComplete
  AnswersAreChoices
  NoDataRace
  StatsAreTheRecursion
PROPERTY CalcReturns
