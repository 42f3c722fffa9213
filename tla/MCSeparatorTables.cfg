SPECIFICATION Spec
CONSTANTS
  Workers = {w1, w2}
  Listed <- MCListed
  Hands <- MCHands
INVARIANT NoTableRace
