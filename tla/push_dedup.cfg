SPECIFICATION Spec
CONSTANTS
    p1 = p1
    p2 = p2
    p3 = p3
    Keyless = Keyless
    Pair <- MCPairs
    Window = 3
    MaxClock = 8
INVARIANTS TypeOK TableBounded
PROPERTY ImplementsWindow
