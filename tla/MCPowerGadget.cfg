SPECIFICATION Spec
CONSTANTS
  MaxNodes = 3
INVARIANTS
  NoUseAfterFree
  NoLeak
  FreesAreValid
