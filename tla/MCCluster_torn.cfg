CONSTANTS
    Capacity = 3
    Handles = {p1, p2, p3}
    Paths <- Chain
    EvictionPolicy = "lru"
    Workload <- ChainTorn

SPECIFICATION Spec

INVARIANTS
    ResultIsContiguous
