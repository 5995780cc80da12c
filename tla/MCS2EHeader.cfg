SPECIFICATION Spec
CONSTANTS
  Pages = 3
  MaxSpan = 2
  IntMax = 3
  MaxLines = 2
  Names <- TwoNames
INVARIANTS
  TypeOK
  S2EFindsStrings
  RangeExact
  ModuleByPath
  HeaderInStep
CHECK_DEADLOCK FALSE
