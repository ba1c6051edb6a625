SPECIFICATION Spec

CONSTANTS
    PageSize = 2
    MaxPages = 3
    Orders = {"oldest", "newest"}
    MaxEvents = 7

INVARIANTS
    TypeOK
    NothingSkipped
    OverCountBounded
