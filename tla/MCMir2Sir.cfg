SPECIFICATION GenSpec
CONSTANTS
  MaxLabel = 24
  Labels <- MCLabels
  Params = 1
  Conds = {"load","and"}
  Inits = {"true"}
  Exits = {"break","continue"}
  MaxNodes = 2
  MaxArms = 2
INVARIANTS
  NothingAfterTerminator
  FinishedWellFormed
  GeneratedFlowIsSourceFlow
