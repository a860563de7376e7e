SPECIFICATION TemporalSpec
CONSTANTS
  LastInstant = 2
  MaxVersions = 2
INVARIANT
  FoundAreValid
CHECK_DEADLOCK FALSE
