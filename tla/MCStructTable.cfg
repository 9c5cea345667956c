SPECIFICATION Spec
CONSTANTS
  Names = {1, 2, 3}
  Structs = {s, t}
  s = s
  t = t
  MaxMembers = 5
  MaxVars = 1
  IDLists <- MCIDLists
INVARIANTS
  ListsSorted
  LookupsAgree
  NoneLostOneByOne
PROPERTIES
  FirstCounts
  MergeReturns
CHECK_DEADLOCK FALSE
