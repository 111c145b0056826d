SPECIFICATION FairSpec
CONSTANTS
  Turns = {t1, t2}
  MaxIters = 2
  MaxTurns = 1
  MaxLives = 2
  MaxFaults = 1
CHECK_DEADLOCK FALSE
INVARIANTS MemoryIsWhole TurnsShownWhole
PROPERTIES ImplementsTurnService EveryTurnIsAnswered
