CONSTANTS
  s1 = s1
  s2 = s2
  w1 = w1
  w2 = w2
  Sessions = {s1, s2}
  Workers = {w1, w2}
  MaxRequests = 2
  MaxWaiting = 1
  NoTask = NoTask
  Requests <- SomeRequests
SPECIFICATION Spec
SYMMETRY Symmetry
INVARIANTS
  OwnAnswer
  EveryTaskIsAwaited
  AbortOnlyInShutdown
