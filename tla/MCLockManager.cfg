CONSTANTS
  Txn = {t1, t2}
  Ddl = {}
  Key = {k1, k2}
  None = None
  Absent = Absent
  Original = Original
  Copied = {k1, k2}
  Touch = Touch
  Retentions = {1}
  MaxTime = 3
  SystemClockMayStepBack = FALSE
  ClockIsShared = FALSE
SPECIFICATION Spec
SYMMETRY Symmetry
INVARIANTS TypeOK CommitIsItsWrites
PROPERTIES ImplementsSerialDatabase SnapshotCoversCompletedCommits
