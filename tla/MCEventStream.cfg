CONSTANTS
    Capacity = 4
    Handles = {p1, p2, p3}
    MaxGeneration = 3
    MaxTime = 1
    Paths <- DeepPaths
    WithTiers = TRUE
    TierCapacity <- OneAndTwo
    MaxPayloads = 3
    MetadataOnly = FALSE
    EvictionPolicy = "lru"
    PinAncestors = TRUE

SPECIFICATION StreamSpec
SYMMETRY Symmetry

INVARIANTS
    StreamTypeOK
    IndexMatchesStore
    TiersMatchStore
    StreamTellsResidency
PROPERTIES
    UsesItsParts
    DecisionsExplainEvents
