SPECIFICATION Spec
CONSTANTS
  Documents <- MCShortWalls
  Lookups <- MCShortLookups
INVARIANT TurnsFitTheWall
CHECK_DEADLOCK FALSE
