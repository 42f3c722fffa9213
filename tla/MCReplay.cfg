SPECIFICATION Spec
CONSTANTS
  Setups <- AllSetups
  Ids <- AllIds
  Indicators <- Shown
  KansToAbort = 1
INVARIANTS
  DecodedAsMade
  RecordFollowsTable
  WinnerAgrees
  EventsReproduceLast
  PaoRecovered
  PointsAddUp
CHECK_DEADLOCK FALSE
