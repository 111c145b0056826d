SPECIFICATION Spec
CONSTANTS
  Runs = {}
  Creates = {}
  Attaches = {"a1", "a2"}
  Old = {}
  MaxAgents = 2
  Project <- InProject
  Name <- Named
INVARIANTS AttachedOnce
