SPECIFICATION Spec
CONSTANTS
  Workers = {"w1"}
  MaxDelegations = 2
  MaxTurns = 2
  Reports = {"done"}
  WorkerOf <- Shared
INVARIANTS NoneLeftHanging
