SPECIFICATION Spec
CONSTANTS
  Machines <- MCMachines
  Unset = Unset
INVARIANTS
  InBounds
  SlotsRight
  MapsRight
  AffinityKept
