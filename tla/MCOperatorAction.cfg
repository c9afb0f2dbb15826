SPECIFICATION Spec
CONSTANTS
  a1 = a1
  a2 = a2
  t1 = t1
  Processes = {p1, p2}
  Calls = {c1, c2}
  NoCall = NoCall
  Actions = {a1, a2}
  NoAction = NoAction
  Tasks = {t1}
  TaskOf <- OneTask
  Decisions = {"deferred", "consumed"}
  Lockdown = {a1}
  Dispatches = {x1}
  MaxFaults = 1
  MaxCrashes = 1
CONSTRAINT OneOddity
SYMMETRY Symmetry
CHECK_DEADLOCK FALSE
INVARIANTS
  StoreIsSound
  DispatchIsAccountable
PROPERTIES
  TornStoreStaysShut
  StaleLicenceIsRefused
