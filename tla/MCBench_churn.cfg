CONSTANTS
    Capacity = 3
    Handles = {p1, p2, p3}
    Paths <- BenchPaths
    EvictionPolicy = "any"
    Workload <- BenchWorkload
    PrefixBlocks = 2
    FamilyPrefixBlocks = 1
    NumFamilies = 2
    ChurnBlocks = 3
    NumRequests = 3
    Workloads <- Churn

SPECIFICATION BenchSpec
SYMMETRY Symmetry

INVARIANTS
    LookupsReturnOwnBlocks
