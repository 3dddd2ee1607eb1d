SPECIFICATION FairSpec
CONSTANTS
  MaxLabel = 22
  Labels <- MCLabels
  Params = 0
  Conds = {"true", "cmp"}
  Inits = {"cmp"}
  Exits = {"break", "continue"}
  MaxNodes = 2
  MaxArms = 1
PROPERTY Terminates
