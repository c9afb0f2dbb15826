CONSTANTS
  p1 = p1
  p2 = p2
  p3 = p3
  Procs = {p1, p2, p3}
  MaxCalls = 1
  MaxDeaths = 1
  MaxFailures = 0
SPECIFICATION LockSpec
SYMMETRY ProcSymmetry
PROPERTIES
  FreshLockSurvivesCleanup
