SPECIFICATION MCSpec
CONSTANTS
  Blocks = 4
  Kinds = {"jump", "do", "test", "const", "switch", "ret"}
  Labels <- MCLabels
  Funcs <- MCFuncs
INVARIANTS
  TypeOK
  LockInv
  MergeBrReadsLive
  MergePredWritesLive
  NeverPanics
  BranchesLeadUnlessEmptyCycle
  FlowPreserved
