CONSTANTS
  Runs = {r1, r2}
  AttemptLimits = {0, 1, 2}
  Durations = {0, 1, 2}
SPECIFICATION FairSpec
INVARIANTS
  ActiveLeaseIsCurrent
  CompletedByCurrentLease
  AttemptsAreLeases
PROPERTIES
  QueuedRunIsServed
