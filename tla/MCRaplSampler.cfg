SPECIFICATION FairSpec
CONSTANTS
  N = 2
  Modulus = 3
  Delay = 2
  Duration = 3
  MaxPower = 1
  MaxSlack = 1
  Garbage <- AnyDouble
INVARIANTS
  DeltaWithinOneUnit
  IntervalBounded
PROPERTIES
  Terminates
