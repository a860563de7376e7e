SPECIFICATION MCSpec
CONSTANTS
  Client = {c1, c2}
  Rate = 2
  Burst = 2
  Second = 3
  NoBucket = NoBucket
  MaxTime = 5
  Principal = {alice, bob}
  Action = {"Read", "Admin"}
  Resource <- MCResource
  Never = Never
  NoSummary = NoSummary
  MaxClock = 2
  Grantable <- MCGrantable
  MaxEntries = 2
  MaxRevoked = 1
  Service = {"api", "ops", "old"}
  Config <- MCConfig
  Identity = {alice}
  Leeway = 1
  Lifetimes = {0, 3}
  MaxMoment = 5
  MaxTokens = 3
  Request = {read, write}
  Rules <- MCRules
  MaxRules = 2
INVARIANTS
  AdmissionTypeOK
  WithinRate
  RefusalsAreFair
  RevokedIsDenied
  SummaryWithinWindow
  ResolvedOnce
PROPERTIES
  OnlyGrantsAllow
  RevokeIsLocal
  LapsedForGood
  EarlierRulesStand
CHECK_DEADLOCK FALSE
