SPECIFICATION FairSpec
CONSTANTS
  Runs = {r1}
  NoRecord = NoRecord
  MaxReloads = 2
INVARIANTS TypeOK LiveKept 
PROPERTY DeadIsEnded
CHECK_DEADLOCK FALSE
