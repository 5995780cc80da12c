CONSTANTS
    Present <- AllDirs
    Offered <- AllScripts
    MaxFaults = 1
    MaxCalls = 2
SPECIFICATION Spec
INVARIANTS StartsRebuilt
