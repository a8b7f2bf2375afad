SPECIFICATION Spec
CONSTANTS
  MaxPuts = 6
  PutsPerGet = 3
INVARIANTS TypeOK ConsistentRecord LatestRecord NothingMissed
