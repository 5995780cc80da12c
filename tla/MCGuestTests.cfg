SPECIFICATION Spec
CONSTANTS
  Programs <- AllPrograms
  MaxFd = 6
  Garbage = {1, 4, 9}
INVARIANTS
  TypeOK
  NothingLost
  OnLiveDescriptor
  DescriptorsReturned
  SymbolicReaches
  LeavesExplained
CHECK_DEADLOCK FALSE
