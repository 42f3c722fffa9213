CONSTANTS
  Workers = {w1, w2, w3}
  Calls = {c1, c2, c3}
  MaxWaiting = 2
  NoTask = NoTask
SPECIFICATION FairSpec
INVARIANTS
  TypeOK
  ActiveTasksExact
  ExactlyOnce
  NoLostWakeup
  NotWaitingIsTrue
  DrainedBeforeDestroyed
PROPERTIES
  DestructorReturns
  ImplementsTaskService
