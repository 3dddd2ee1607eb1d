SPECIFICATION Spec
CHECK_DEADLOCK FALSE
CONSTANTS
  Structs <- MCStructs
  Primitives <- MCPrimitives
  Programs <- MCPrograms
  MaxDepth = 3
INVARIANTS
  InstancesComplete
  ConditionsStillTrue
PROPERTY
  Terminates
