SPECIFICATION Spec
CONSTANTS
  MaxTurns = 1
  MaxUpdates = 1
CHECK_DEADLOCK FALSE
INVARIANTS FinishedEndsTurn
