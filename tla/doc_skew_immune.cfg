SPECIFICATION Spec
CONSTANTS
    power = power
    wan = wan
    k1 = k1
    NoKey = NoKey
    Category <- MCOne
    EnabledCategories <- MCOne
    MinSeverity <- MCNoGate
    AlertKey = {NoKey}
    Transports = {"v2", "legacy"}
    Lookback = 2
    DedupWindow = 1
    Skew <- MCBehind
    AlarmSeverity = {3}
    StoreFaults = FALSE
    MaxTime = 4
    MaxAlarms = 1
    MaxPushes = 0
    MaxSaves = 1
    MaxCrashes = 0
INVARIANT NotBornAcknowledged
