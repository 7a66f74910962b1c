CONSTANTS
  Txn = {t1}
  Ddl = {d1, d2}
  Key = {k1}
  None = None
  Absent = Absent
  Original = Original
  Copied = {k1}
  Touch = Touch
  Retentions = {1}
  InitialSchema = InitialSchema
  MaxTime = 3
  SystemClockMayStepBack = TRUE
  ClockIsShared = TRUE
SPECIFICATION RWSpec
SYMMETRY Symmetry
INVARIANTS CommitsOnItsSchema ReadsOnItsSchema RunsOnAnalyzedSchema
PROPERTIES ErrorsHoldNow UsesTheProtocol
