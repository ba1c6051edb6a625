SPECIFICATION CheckedSpec

CONSTANTS
    Paths = 2
    FailLimit = 2
    RetryAfter = 2
    Firmware <- MCFirmware
    Timeouts = TRUE
    MaxFaults = 4
    MaxUpgrades = 2

PROPERTIES
    ProbeNeverFailsPoll
