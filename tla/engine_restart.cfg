SPECIFICATION Spec
CONSTANTS
  c1 = c1
  c2 = c2
  k1 = k1
  k2 = k2
  v1 = v1
  v2 = v2
  Client = {c1}
  Key = {k1}
  Value = {v1, v2}
  KeysOf <- SoleWriter
  Tombstone = Tombstone
  Missing = Missing
  None = None
  Ok = Ok
  Failed = Failed
  MaxLog = 3
  MaxCrashes = 1
INVARIANT
  MemoryMatchesLog
