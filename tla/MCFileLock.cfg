CONSTANTS
  p1 = p1
  p2 = p2
  p3 = p3
  Procs = {p1, p2}
  MaxCalls = 3
  MaxDeaths = 1
  MaxFailures = 1
SPECIFICATION FairLockSpec
INVARIANTS
  UpdatesAreAtomic
PROPERTIES
  OrphanIsRemoved
