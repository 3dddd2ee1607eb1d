SPECIFICATION Spec
CHECK_DEADLOCK FALSE
CONSTANTS
  Ops = {"plain", "ret", "retexpr", "break", "continue", "cond", "loop", "defer"}
  MaxStmts = 5
  MaxInDefer = 5
  MaxDepth = 3
  Rounds = 2
INVARIANTS
  ScopesMirrorBlocks
  SameBehaviour
