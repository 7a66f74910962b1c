CONSTANTS
  Txn = {}
  Ddl = {d1}
  Ro = {r1}
  Key = {k1}
  None = None
  Absent = Absent
  Original = Original
  Copied = {k1}
  Touch = Touch
  Retentions = {1}
  InitialSchema = InitialSchema
  MaxTime = 4
  SystemClockMayStepBack = FALSE
  ClockIsShared = TRUE
  Bounds = {"StrongRead", "ExactTimestamp", "ExactStaleness", "MinTimestamp", "MaxStaleness"}
  Sweeps = TRUE
SPECIFICATION ROSpec
SYMMETRY Symmetry
INVARIANTS ReadsAreOfOneMoment BoundIsMet
