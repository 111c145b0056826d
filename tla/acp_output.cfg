SPECIFICATION FairSpec
CONSTANTS
  MaxTurns = 2
  MaxUpdates = 2
CHECK_DEADLOCK FALSE
INVARIANTS FinishedIsWhole ShownInOrder
PROPERTIES TurnsEnd
