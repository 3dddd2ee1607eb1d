SPECIFICATION Spec
CONSTANTS
  Structs = {"s"}
  Unions = {"u"}
  Enums = {"e"}
  Fields <- MCFields
  Members <- MCMembers
  Constants <- MCConstants
  Funcs <- MCFuncs
  Locals <- MCLocals
  Targets <- MCTargets
  Returns <- MCReturns
  Impl = "s"
  MaxStack = 2
  MaxPtr = 2
INVARIANTS
  ValueAsResolved
  PassesAgree
  
  
CHECK_DEADLOCK FALSE
