SPECIFICATION FairCards
CONSTANTS
  Turns = {a, b}
  Brief = {}
  Pool = 2
  Room = 1
  MaxTexts = 1
  MaxFailures = 0
CHECK_DEADLOCK FALSE
PROPERTY PoolAlwaysDrains
