SPECIFICATION Spec
CONSTANTS
  Daemons = {d1, d2, d3}
  NoDaemon = NoDaemon
  Inodes = {i1, i2, i3}
  NoInode = NoInode
  LockTries = 2
  Clients = {c1, c2}
  Builds = {b1, b2}
  MaxFaults = 1
SYMMETRY Symmetry
INVARIANTS TypeOK ServerKeepsSocket RecordedOrMissing StartKillsOnlyLeavers ColdStartKillsNone
PROPERTY ElectsOne
CHECK_DEADLOCK FALSE
