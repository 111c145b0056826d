SPECIFICATION FairCards
CONSTANTS
  Turns = {a, b}
  Brief = {b}
  Pool = 2
  Room = 2
  MaxTexts = 3
  MaxFailures = 1
CHECK_DEADLOCK FALSE
INVARIANTS LiveConsistent NoTextTwice OutputIsWhole
PROPERTIES PoolDrains
