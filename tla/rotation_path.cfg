SPECIFICATION RotationSpec
CONSTANTS
  Active = Active
  Closed = Closed
  MaxAppends = 4
  MaxRotates = 3
  MaxRestarts = 2
INVARIANTS
  WritesAtOriginalPath
CHECK_DEADLOCK FALSE
