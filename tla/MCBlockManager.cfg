CONSTANTS
    Capacity = 2
    Hashes = {h1, h2}
    NoHash = NoHash
    Handles = {p1, p2}
    MaxGeneration = 2
    MaxTime = 1

SPECIFICATION Spec
SYMMETRY Symmetry

INVARIANTS
    TypeOK
    PoolMatchesStore
    RefcountIsHandleCount
PROPERTIES
    HandlePinsBlock
    GenerationNamesBlock
