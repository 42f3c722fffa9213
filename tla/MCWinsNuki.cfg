SPECIFICATION Spec
CONSTANTS
  Families <- MCNuki
  Garbage <- MCGarbage
INVARIANT UradoraIsAverage
