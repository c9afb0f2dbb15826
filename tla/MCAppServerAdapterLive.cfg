CONSTANTS
  i1 = i1
  i2 = i2
  q1 = q1
  q2 = q2
  t1 = t1
  Items = {i1}
  Requests = {q1}
  Turns = {t1}
  TurnOf <- OneTurn
  NoItem = NoItem
  NoRequest = NoRequest
  MaxEvents = 5
  MaxVersion = 1
  MaxSessions = 2
  Components = {"src", "a", "env", ".git", "*", "deny"}
  Star = "*"
  DenyName = "deny"
  SensitiveComponents = {"env"}
  UnsafeComponents = {".git", "*"}
  Proposals <- SomeProposals
  CapabilityCeiling <- BelowSrc
  Cases <- SomeCases
  Compared <- SomeCompared
  Worsened <- OneWorse
  ScopeCases <- SomeScopes
  GrantCases <- SomeGrantCases
SPECIFICATION FairSpec
INVARIANTS
  JournalHoldsApprovedVersion
  AutoAcceptIsContained
  DecisionIsMonotone
  CeilingIsRespected
PROPERTIES
  ReconciliationIsWritten
