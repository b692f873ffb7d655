CONSTANTS
    Paths <- MCPaths
    Ids = {b1, b2, b3, b4}
    NoId = NoId
    NoPath = NoPath

SPECIFICATION Spec

INVARIANTS
    MapsAreInverse
