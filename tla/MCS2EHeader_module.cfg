SPECIFICATION Spec
CONSTANTS
  Pages = 2
  MaxSpan = 1
  IntMax = 3
  MaxLines = 2
  Names <- TwoNames
INVARIANTS
  ModuleSpecified
CHECK_DEADLOCK FALSE
