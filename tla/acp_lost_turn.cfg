SPECIFICATION Spec
CONSTANTS
  Turns = {t1}
  Blocks = {}
  MaxGen = 1
  MaxMarkers = 1
  IdleTimeout = TRUE
INVARIANT AcceptedTurnsAreServed
CHECK_DEADLOCK FALSE
