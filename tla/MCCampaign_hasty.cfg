CONSTANTS
    Tests = {t1, t2}
    HasAmp = {}
    HasHash = {}
    HasSpace = {}
    Second = 2
    PollMax = 3
    LaunchMax = 1
    RestartMin = 0
    WaitFor = 2
    Timers = {k1, k2, k3}
    MaxCuts = 1
    BootMayFail = TRUE
    Shipped = Shipped
    Garbled = Garbled
    None = None
SPECIFICATION FairSpec
INVARIANTS GuardInStep Guarded TimeBound AtMostOnce
PROPERTIES CampaignEnds TimersEnd
