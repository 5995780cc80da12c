SPECIFICATION Spec
CONSTANTS
  Programs <- FewPaths
  MaxFd = 6
  Garbage = {1, 4, 9}
INVARIANTS
  PathsInStep
  TestsInStep
PROPERTIES
  Explores
CHECK_DEADLOCK FALSE
