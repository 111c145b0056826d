SPECIFICATION Spec
CONSTANTS
  Turns = {t1, t2}
  Blocks = {}
  MaxGen = 2
  MaxMarkers = 1
  IdleTimeout = TRUE
SYMMETRY AnyTurn
CHECK_DEADLOCK FALSE
INVARIANTS OneGenerationActs LedgerTracksWorker EveryInputAccounted NoOrphanAgent
PROPERTIES LossesHaveReasons ImplementsTurnService
