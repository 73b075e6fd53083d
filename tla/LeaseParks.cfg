\* Two parks of one actor, two calls at the store, a park log lost once.
SPECIFICATION Spec
CONSTANTS
  h1 = h1  h2 = h2  k1 = k1  k2 = k2
  Call = {h1, h2}  Key = {k1, k2}
  MaxGen = 2  MaxEpoch = 2
INVARIANTS TypeOK ParkedReadsWaiting
PROPERTIES FenceHolds NotAskedWhileParked NotReportedWhileParked
SYMMETRY Interchangeable
CHECK_DEADLOCK FALSE
