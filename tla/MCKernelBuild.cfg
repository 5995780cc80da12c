CONSTANTS
    Present <- AllDirs
    Offered <- AllScripts
    MaxFaults = 1
    MaxCalls = 2
SPECIFICATION Spec
INVARIANTS
    TypeOK
    LoopReturns
    HeaderMeansInserted
    InsertedOnce
    CompilesAtRest
    TestsInstrumented
    BuildInStep
