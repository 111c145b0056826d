SPECIFICATION FairJobs
CONSTANTS
  Sessions = {"s1"}
  MaxJobs = 2
INVARIANTS JobsAccounted ToldAsGiven
PROPERTIES JobsEnd
