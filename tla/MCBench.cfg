CONSTANTS
    Capacity = 4
    Handles = {p1, p2, p3}
    Paths <- BenchPaths
    EvictionPolicy = "any"
    Workload <- BenchWorkload
    PrefixBlocks = 2
    FamilyPrefixBlocks = 2
    NumFamilies = 2
    ChurnBlocks = 2
    NumRequests = 6
    Workloads <- Reusing

SPECIFICATION BenchSpec
SYMMETRY Symmetry

INVARIANTS
    BenchTypeOK
    HashRoutingStaysLocal
    HitsAreExact
    CountersAgree
PROPERTIES
    SharedPrefixStays
