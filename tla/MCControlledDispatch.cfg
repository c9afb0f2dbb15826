SPECIFICATION Spec
CONSTANTS
  k1 = k1
  k2 = k2
  k3 = k3
  f1 = f1
  f2 = f2
  f3 = f3
  Calls = {c1, c2}
  Permits = {k1, k2, k3}
  Paths = {f1, f2, f3}
  TargetsOf <- MCTargetsOf
  NoPermit = NoPermit
  MaxActs = 2
  MaxFaults = 1
  MaxCrashes = 1
SYMMETRY Symmetry
INVARIANTS
  PermitExecutesOnce
  NothingIsLeft
  ExecutionIsAccountable
PROPERTIES
  SeenEditsSurvive
