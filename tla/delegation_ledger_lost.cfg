SPECIFICATION Spec
CONSTANTS
  Workers = {"w1", "w2"}
  MaxDelegations = 2
  MaxTurns = 2
  Reports = {"done"}
  WorkerOf <- Spread
PROPERTIES LedgerSurvivesRestart
