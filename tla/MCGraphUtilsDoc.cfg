SPECIFICATION Spec
CONSTANTS
  Nodes = {a, b, c}
INVARIANT DepsExcludeNode
CHECK_DEADLOCK FALSE
