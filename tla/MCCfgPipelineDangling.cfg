SPECIFICATION Spec
CONSTANTS
  MaxLabel = 22
  Labels <- MCLabels
  Params = 1
  Conds = {"true", "cmp"}
  Inits = {"cmp"}
  Exits = {"break", "continue"}
  MaxNodes = 2
  MaxArms = 1
INVARIANT BranchesLead
