CONSTANTS
  Db = {d1, d2}
  Uri = {u1}
  Rpc = {p1, p2}
  OpId = {o1}
  MaxDatabases = 1
  MaxCopies = 1
  MaxSid = 1
  MaxBatch = 1
  MaxTxnId = 1
  SetBack = TRUE
  None = None
  Generated = Generated
SPECIFICATION FairSpec
PROPERTIES CopiesAreReleased
