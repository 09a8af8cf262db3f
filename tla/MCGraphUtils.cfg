SPECIFICATION Spec
CONSTANTS
  Nodes = {a, b, c}
INVARIANTS TypeOK CyclesBroken DepsComplete
PROPERTY Terminates
CHECK_DEADLOCK FALSE
