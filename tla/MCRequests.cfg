SPECIFICATION Spec
CONSTANTS
  Documents <- MCDocuments
  Lookups <- MCLookups
INVARIANTS
  NothingIsOverdrawn
  AnswerRepeatsInput
  CompleteIsRefused
  TilesMoveTheHand
  CalculatorsFindTheClosest
  SanmaTableIsComputed
CHECK_DEADLOCK FALSE
