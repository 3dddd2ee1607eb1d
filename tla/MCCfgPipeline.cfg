SPECIFICATION FairSpec
CONSTANTS
  MaxLabel = 22
  Labels <- MCLabels
  Params = 1
  Conds = {"true", "load", "or"}
  Inits = {"load"}
  Exits = {"break", "continue"}
  MaxNodes = 2
  MaxArms = 1
INVARIANTS
  EntryHasNoPreds
  CompiledFlowIsSourceFlow
PROPERTY Stops
