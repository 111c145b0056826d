SPECIFICATION FairSpec
CONSTANTS
  Turns = {t1}
  Blocks = {b1, b2}
  MaxGen = 1
  MaxMarkers = 1
  IdleTimeout = TRUE
CHECK_DEADLOCK FALSE
INVARIANTS PendingBatchIsLast
PROPERTIES ImplementsTurnService NothingWaitsForever
