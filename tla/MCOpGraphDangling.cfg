SPECIFICATION Spec
CONSTANTS
  Name = {"x"}
  MaxOps = 3
  MaxStack = 3
  MaxIds = 2
INVARIANTS
  DependencesLive
