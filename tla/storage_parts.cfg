SPECIFICATION MCSpec
CONSTANTS
  Op = {small, large}
  Oversized = {large}
  SyncOnWrite = TRUE
  MaxLog = 4
  Key <- MCKeys
  Entry = {row, Tombstone}
  Tombstone = Tombstone
  TableName <- MCTables
  RowId <- MCRowIds
  Absent = Absent
  EntrySize = 2
  MaxSize = 3
  Writer = {w1, w2}
  Idle = Idle
  MaxInserts = 4
  Active = Active
  Closed = Closed
  MaxAppends = 4
  MaxRotates = 3
  MaxRestarts = 2
  LastInstant = 2
  MaxVersions = 3
INVARIANTS
  NodeTypeOK
  AckedOnFile
  NextSeqIsFresh
  CleanLogReplays
  NewestIsKept
  CapacityLag
  OwnRowsComeFirst
  FilesAreContiguous
  NumbersFollowAppends
  BitemporalIsExact
PROPERTIES
  AckedSurvive
  PastIsFinal
SYMMETRY Symmetric
CHECK_DEADLOCK FALSE
