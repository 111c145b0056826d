SPECIFICATION Spec
CONSTANTS
  Runs = {"r1"}
  Creates = {"c1", "c2", "c3"}
  Attaches = {"a1"}
  Old = {"s1"}
  MaxAgents = 2
  Project <- InProject
  Name <- Named
INVARIANTS SlotsAccounted CreationsOwned
