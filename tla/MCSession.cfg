CONSTANTS
  Statements = {q1}
  Batches = {b1}
  Boosted = {}
  MaxSeqno = 2
  MaxAccepted = 3
  SchemaChanges = FALSE
  MayMultiplex = {FALSE, TRUE}
  None = None
  Rpc = {p1, p2}
  MaxTransactions = 2
  MaxId = 2
SPECIFICATION SessionSpec
SYMMETRY Symmetry
INVARIANTS PredecessorsAreClosed AcknowledgedDmlIsCommitted DmlRunsInOrder ReplaysAgree CommittedIsNotRetried
PROPERTIES ClosedNeverCommits
CHECK_DEADLOCK FALSE
