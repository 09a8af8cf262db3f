SPECIFICATION Spec
CONSTANTS
  Items = {a, b, c}
  LoadErrors = TRUE
  EarlyCycles = FALSE
  MaxEarly = 1
  MaxDecs = 1
SYMMETRY Symmetry
INVARIANTS TypeOK ReadsOnlyValid RunsOnce ErrorsPropagate NeverStuck
CHECK_DEADLOCK FALSE
