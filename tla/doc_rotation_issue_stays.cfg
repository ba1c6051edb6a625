SPECIFICATION Spec

CONSTANTS
    Hosts = {h1, h2}
    Serials = {s1}
    Flows = {f1, f2}
    MaxEntries = 1
    MaxSecrets = 2

PROPERTIES
    RotationIssueStays

CHECK_DEADLOCK FALSE
