SPECIFICATION Spec
CONSTANTS
  Pages = 2
  MaxSpan = 2
  IntMax = 3
  MaxLines = 2
  Names <- TwoNames
INVARIANTS
  S2EFindsBuffers
CHECK_DEADLOCK FALSE
