SPECIFICATION Spec
CONSTANTS
  Ways = 2
  Sets = 2
  BlockBytes = 16
  Strides <- MCStrides
  Sizes <- MCSizes
  Iterations <- MCIterations
INVARIANTS
  TagsUnique
  StampsUnique
  MissesAreConflictMisses
PROPERTIES
  ImplementsLRU
