CONSTANTS
  Txn = {}
  Ddl = {d1, d2}
  Ro = {r1}
  Key = {}
  None = None
  Absent = Absent
  Original = Original
  Copied = {}
  Touch = Touch
  Retentions = {1}
  InitialSchema = InitialSchema
  MaxTime = 4
  SystemClockMayStepBack = FALSE
  ClockIsShared = TRUE
  Bounds = {"ExactTimestamp"}
  Sweeps = TRUE
SPECIFICATION ROSpec
SYMMETRY Symmetry
INVARIANTS SchemaIsInEffect SweptRangeIsGone
PROPERTIES CoveredSchemasAreKept
