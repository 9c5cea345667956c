SPECIFICATION Spec
CONSTANTS
  DispatchSize = 2
  Null = Null
  Launches <- MCLaunches
INVARIANTS
  InBuffer
  InStep
  OwnRing
