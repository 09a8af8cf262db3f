SPECIFICATION Spec
CONSTANTS
  Procs = {p1, p2}
  Keys = {k1, k2}
  NoProc = NoProc
  NoEntry = NoEntry
  Ttl = 1
  MaxTime = 2
  MaxId = 2
  MaxCrash = 1
SYMMETRY Symmetry
INVARIANTS TypeOK ProducesOnlyOnMiss
PROPERTIES AtomicUpdates LatestProductionWins
