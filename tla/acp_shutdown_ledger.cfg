SPECIFICATION Spec
CONSTANTS
  Turns = {t1}
  Blocks = {}
  MaxGen = 2
  MaxMarkers = 1
  IdleTimeout = TRUE
PROPERTY SuspendedForRestart
CHECK_DEADLOCK FALSE
