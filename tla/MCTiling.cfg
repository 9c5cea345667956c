SPECIFICATION FairSpec
CONSTANTS
  W = 2
  H = 4
  M = 4
  L = 2
  ElementType = "int"
  Unset = Unset
INVARIANTS
  InBuffers
  NoRace
  PartialSums
PROPERTIES
  ImplementsMatMul
  Terminates
