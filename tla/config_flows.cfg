SPECIFICATION Spec

CONSTANTS
    Hosts = {h1, h2}
    Serials = {s1}
    Flows = {f1, f2}
    MaxEntries = 2
    MaxSecrets = 2

INVARIANTS
    TypeOK
    UniqueIdFollowsUrl
    RepairCardWhileAsked

PROPERTIES
    SecretChangeReported

SYMMETRY MCSymmetry

CHECK_DEADLOCK FALSE
