SPECIFICATION UpgradeSpec

CONSTANTS
    MaxSetups = 2
    MaxPushes = 2
    MaxRestarts = 1

INVARIANTS
    TypeOK
    WebhooksReachEntities
    EventPerPush
    ServicesWhileLoaded
    SetUpMigrated
    ChangedUrlsReported

PROPERTIES
    CallSeesReload
    IdentityStays

CHECK_DEADLOCK FALSE
