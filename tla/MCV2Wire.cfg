CONSTANTS
  h1 = h1
  h2 = h2
  t1 = t1
  t2 = t2
  i1 = i1
  i2 = i2
  n1 = n1
  s1 = s1
  n2 = n2
  Threads = {h1, h2}
  Turns = {t1, t2}
  Items = {i1}
  ThreadOf <- TurnThread
  TurnOf <- ItemTurn
  WireIds = {n1, s1}
  CanonicalId <- Canonical
  Contents = {a, b, c}
  RawForms = {f1}
  Heads = {g1, g2}
  Hashes = {x, y}
  Profiles <- SomeProfiles
  Offers <- SomeOffers
  Undefined = Undefined
  Empty = Empty
  MaxMessages = 5
  MaxTrackedSnapshots = 2
SPECIFICATION Spec
SYMMETRY WireSymmetry
CHECK_DEADLOCK FALSE
INVARIANTS
  AnswersAreSound
  EndsAreReportedTruly
  EventStreamIsWhole
PROPERTIES
  AcceptCoversLatest
