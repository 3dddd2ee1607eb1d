SPECIFICATION Spec
CONSTANTS
  Names = {"x", "g"}
  Globals = {"g"}
  Labels = {"l", "m"}
  MaxOpen = 4
  MaxTokens = 5
INVARIANTS
  NothingLeft
  SameVariable
  JumpsHaveLoops
  ReturnsLast
  SwitchIsMatch
CHECK_DEADLOCK FALSE
