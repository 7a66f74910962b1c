CONSTANTS
  Txn = {t1, t2}
  Ddl = {d1}
  Key = {k1}
  None = None
  Absent = Absent
  Original = Original
  Copied = {k1}
  Touch = Touch
  Retentions = {1}
  MaxTime = 3
  SystemClockMayStepBack = FALSE
  ClockIsShared = TRUE
SPECIFICATION FairSpec
PROPERTIES SnapshotIsGranted CriticalSectionEnds ThePastIsFrozen
INVARIANTS SnapshotIsStable Serializable
