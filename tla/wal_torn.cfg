SPECIFICATION WalSpec
CONSTANTS
  Op = {small}
  Oversized = {}
  SyncOnWrite = TRUE
  MaxLog = 3
INVARIANT
  AckedAreReplayed
