SPECIFICATION Spec

CONSTANTS
    Raw <- MCRaw
    MaxBatch = 2
    MaxPolls = 3

INVARIANTS
    TablesAgree
    NothingUncounted
    WarnedOnce
