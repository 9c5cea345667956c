SPECIFICATION FairSpec2
CONSTANTS
  W = 4
  H = 2
  M = 4
  L = 2
  ElementType = "int"
  Unset = Unset
INVARIANTS
  InBuffers2
  NoRace2
  PartialSums2
PROPERTIES
  ImplementsMatMul2
  Terminates
