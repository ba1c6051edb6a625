SPECIFICATION Spec
CONSTANTS
    power = power
    wan = wan
    k1 = k1
    NoKey = NoKey
    Category <- MCBoth
    EnabledCategories <- MCBoth
    MinSeverity <- MCNoGate
    AlertKey = {NoKey}
    Transports = {"v2"}
    Lookback = 2
    DedupWindow = 1
    Skew = 0
    AlarmSeverity = {3}
    StoreFaults = FALSE
    MaxTime = 2
    MaxAlarms = 1
    MaxPushes = 0
    MaxSaves = 1
    MaxCrashes = 0
PROPERTIES RecentAlarmsReachable
