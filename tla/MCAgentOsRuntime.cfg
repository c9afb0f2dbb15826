SPECIFICATION Spec
CONSTANTS
  p1 = p1
  p2 = p2
  k1 = k1
  k2 = k2
  s1 = s1
  r1 = r1
  Runtimes = {p1, p2}
  Runs = {r1}
  NoRun = NoRun
  Scopes = {s1}
  Permits = {k1, k2}
  NoPermit = NoPermit
  MaxFaults = 1
  MaxRestarts = 1
SYMMETRY Symmetry
CHECK_DEADLOCK FALSE
INVARIANTS
  AnswerIsDurable
  LogIsFaithful
PROPERTIES
  PermitsDoNotExpand
