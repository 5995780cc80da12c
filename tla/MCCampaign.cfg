CONSTANTS
    Tests = {t1, t2, t3}
    HasAmp = {}
    HasHash = {}
    HasSpace = {}
    Second = 2
    PollMax = 3
    LaunchMax = 1
    RestartMin = 4
    WaitFor = 3
    Timers = {k1, k2}
    MaxCuts = 2
    BootMayFail = FALSE
    Shipped = Shipped
    Garbled = Garbled
    None = None
SPECIFICATION Spec
INVARIANTS TypeOK OwnTimerOnly Guarded TimeBound TimersInStep RoundInStep AtMostOnce AllTestedMeansBooted
PROPERTIES NoEarlyKill ImplementsQueue
