SPECIFICATION FairSpec
CONSTANTS
  Name = {1, 2, 3}
  Node = {n1, n2, n3}
  NULL = NULL
  Type = {int}
  MaxDepth = 3
  IdLists <- MCIdLists
INVARIANTS
  ListsSorted
  ScanInPlace
  NoEntryLost
PROPERTIES
  ImplementsScopes
  CallsReturn
