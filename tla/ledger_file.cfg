SPECIFICATION Spec
CONSTANTS
  Keep = 1
  MaxChanges = 4
  MaxMishaps = 2
CHECK_DEADLOCK FALSE
INVARIANTS SavedSurvives IdsNeverReused
