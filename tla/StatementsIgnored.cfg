SPECIFICATION Spec
CONSTANTS
  Names = {"x", "g"}
  Globals = {"g"}
  Labels = {"l", "m"}
  MaxOpen = 3
  MaxTokens = 3
INVARIANTS
  UnreachableIgnored
CHECK_DEADLOCK FALSE
