CONSTANTS
    Nodes = {n1, n2}
    BlockIds = {0}
    Hashes = {h1, h2}
    MaxGeneration = 2

SPECIFICATION Spec
SYMMETRY Symmetry

INVARIANTS
    TypeOK
    ReplicasAreDistinct
PROPERTIES
    DroppedEverywhere
    LeaveForgetsNode
