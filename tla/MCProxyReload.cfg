SPECIFICATION FairReloadSpec
CONSTANTS
  Commands = {q1, q2}
  ChildCommands = {q2}
  NoRequest = NoRequest
  Ticks = {t1, t2}
  MaxEdits = 1
  MaxKeys = 1
INVARIANTS ReloadTypeOK ReloadTakesHold
PROPERTY LatestRequestAnswered
CHECK_DEADLOCK FALSE
