SPECIFICATION FairSpec
CONSTANTS
  Items = {a, b}
  LoadErrors = TRUE
  EarlyCycles = FALSE
  MaxEarly = 0
  MaxDecs = 0
PROPERTY ResolutionSettles
CHECK_DEADLOCK FALSE
