CONSTANTS
  kMaxPointKeys = 2
  Schemas <- AllSchemas
SPECIFICATION UpdateSpec
INVARIANTS WritesMeanWhatTheySay IndexesAgree ConstraintsHold RefusedOnlyWithCause
PROPERTIES ChangesStopAtTheFirstFailure EveryWriteLeavesAVersion StreamsReplay WritesEnd
