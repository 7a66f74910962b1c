CONSTANTS
  kMaxPointKeys = 2
  Schemas <- KeyReferences
SPECIFICATION Spec
INVARIANTS ConstraintsHold
