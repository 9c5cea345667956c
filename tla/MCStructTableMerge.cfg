SPECIFICATION Spec
CONSTANTS
  Names = {1, 2, 3}
  Structs = {s}
  s = s
  MaxMembers = 3
  MaxVars = 0
  IDLists <- MCIDLists
INVARIANT ErrorsAreRight
CHECK_DEADLOCK FALSE
