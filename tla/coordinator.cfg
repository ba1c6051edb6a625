SPECIFICATION HFairSpec

CONSTANTS
    power = power
    k1 = k1
    NoKey = NoKey
    Category <- MCOne
    EnabledCategories <- MCOne
    MinSeverity <- MCGate
    AlertKey = {k1}
    Transports = {"v2"}
    Lookback = 1
    DedupWindow = 1
    Skew <- MCBehind
    AlarmSeverity = {1, 3}
    StoreFaults = TRUE
    MaxTime = 3
    MaxAlarms = 1
    MaxPushes = 1
    MaxSaves = 2
    MaxCrashes = 1

INVARIANTS
    TypeOK
    WatermarkCovered
    TimerIffAlerting
    AlertingMeetsMinimum
    WatermarkWithinSkew
    AcknowledgedStaysAcknowledged

PROPERTIES
    PollReconciles
    Settles
    EntitiesCatchUp
    OpenCountConverges
