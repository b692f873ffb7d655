CONSTANTS
    Capacity = 1
    Handles = {p1, p2}
    Paths <- TwoBlocks
    EvictionPolicy = "lru"
    Workload <- ThreeOfTwo

SPECIFICATION Spec

INVARIANTS
    FailedFetchIsForgotten
