SPECIFICATION FairSpec
CONSTANTS
  Procs = {p1, p2, p3}
  NoProc = NoProc
  NoDir = NoDir
  FailOpen = TRUE
  MaxFaults = 1
INVARIANTS TypeOK ExclusionUnlessRobbed UndisturbedExclusion 
PROPERTY OrphanReclaimed
