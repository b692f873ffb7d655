CONSTANTS
    Capacity = 3
    Handles = {p1, p2, p3}
    MaxGeneration = 3
    MaxTime = 1
    Paths <- MCPaths
    WithTiers = TRUE
    TierCapacity <- OneAndTwo
    MaxPayloads = 3
    MetadataOnly = FALSE
    EvictionPolicy = "any"
    PinAncestors = TRUE

SPECIFICATION Spec

INVARIANTS
    LookupReturnsOwnBlock
    AdmittedChainIsWhole
    NothingLeftHalfDone
PROPERTIES
    CallReturns
