SPECIFICATION FairSpec
CONSTANTS
  Workers = {"w1"}
  MaxDelegations = 2
  MaxTurns = 3
  Reports = {"done"}
  WorkerOf <- Shared
INVARIANTS LedgerFollowsWork ResultIsTold
PROPERTIES NothingTakenBack WorkersAreTurnServices RunningSettles
