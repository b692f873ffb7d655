CONSTANTS
    Blocks = {b1, b2, b3}
    TierCapacity <- MCTierCapacity
    MaxPayloads = 3
    MetadataOnly = FALSE
    BytesPerBlock = 2
    Inputs <- MCInputs
    Latency <- MCLatency

SPECIFICATION StorageSpec
SYMMETRY Symmetry

INVARIANTS
    StorageTypeOK
    TierOfRecordIsTierOfStore
    WithinCapacity
    PayloadHasOneOwner
    PayloadReadsBack
    MigrationIsBottleneck
