CONSTANTS
  r1 = r1
  s1 = s1
  s2 = s2
  Managers = {1}
  RunIds = {r1}
  StepIds = {s1, s2}
  RunOf <- OneRun
  DependsOn <- Chain
  NoStep = NoStep
  MaxRestarts = 1
  MaxCrashes = 1
SPECIFICATION RunSpec
INVARIANTS
  RecordIsConsistent
PROPERTIES
  MovesAreLegal
