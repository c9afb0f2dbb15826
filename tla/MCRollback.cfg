SPECIFICATION Spec
CONSTANTS
  Processes = {p1, p2}
  Permits = {k1, k2}
  NoPermit = NoPermit
  Updates = {u}
  Creates = {c}
  Outside = {o}
  MaxEdits = 2
  MaxFaults = 1
  MaxCrashes = 1
SYMMETRY RollbackSymmetry
INVARIANTS
  LockIsExclusive
  LockIsReleased
  PermitRestoresOnce
  AnswersAreTrue
PROPERTIES
  OnlyApprovedChangeIsUndone
