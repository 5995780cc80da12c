CONSTANTS
    Present <- AllDirs
    Offered <- OnlyCheckKernel
    MaxFaults = 0
    MaxCalls = 2
SPECIFICATION Spec
INVARIANTS TestsBzImage
