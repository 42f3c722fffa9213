SPECIFICATION Spec
CONSTANTS
  Families <- MCFamilies
  Garbage <- MCGarbage
INVARIANTS
  PaidByTheRules
  SplitsTheHand
  BestReadingIsPaid
  SuitsAreAlike
  EveryDoraCounts
  CallingNeverPays
  UradoraIsAverage
