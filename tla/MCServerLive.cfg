CONSTANTS
  s1 = s1
  s2 = s2
  w1 = w1
  w2 = w2
  Sessions = {s1, s2}
  Workers = {w1, w2}
  MaxRequests = 1
  MaxWaiting = 1
  NoTask = NoTask
  Requests <- SomeBodies
SPECIFICATION FairSpec
PROPERTIES
  EveryRequestIsServed
  ShutdownEnds
