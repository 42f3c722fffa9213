SPECIFICATION Spec
CONSTANTS
  Families <- MCHighFu
  Garbage <- MCGarbage
INVARIANT PaidByTheRules
