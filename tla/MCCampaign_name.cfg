CONSTANTS
    Tests = {t1, t2}
    HasAmp = {t1}
    HasHash = {t2}
    HasSpace = {}
    Second = 2
    PollMax = 3
    LaunchMax = 1
    RestartMin = 4
    WaitFor = 3
    Timers = {k1, k2}
    MaxCuts = 0
    BootMayFail = FALSE
    Shipped = Shipped
    Garbled = Garbled
    None = None
SPECIFICATION Spec
INVARIANTS AllTestedMeansBooted
