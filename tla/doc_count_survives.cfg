SPECIFICATION Spec

CONSTANTS
    MaxSetups = 2
    MaxPushes = 1
    MaxRestarts = 0

PROPERTIES
    CountSurvivesReload

CHECK_DEADLOCK FALSE
