SPECIFICATION PathSpec
CONSTANTS
  c1 = c1  b1 = b1  b2 = b2
  Concept <- MCConcept
  Batch <- MCBatch
  Size <- MCSize
  Call <- MCCall
  RetriesErrors <- MCRetriesErrors
  NoReference = NoReference
  Failed = Failed
  NoReply = NoReply
  Retries = 2
  MaxCalls = 2
  MaxMeans = 2
INVARIANT UpdatesAreCompared
