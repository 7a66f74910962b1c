CONSTANTS
  Db = {d1, d2}
  Uri = {u1}
  Rpc = {p1, p2}
  OpId = {}
  MaxDatabases = 1
  MaxCopies = 1
  MaxSid = 2
  MaxBatch = 2
  MaxTxnId = 2
  SetBack = FALSE
  None = None
  Generated = Generated
SPECIFICATION Spec
SYMMETRY Symmetry
INVARIANTS NothingOutlivesDrop QuotaIsExact CopiesAreBounded SessionsAreReturned 
PROPERTIES SessionsAreKept
