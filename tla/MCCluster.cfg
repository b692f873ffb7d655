CONSTANTS
    Capacity = 2
    Handles = {p1, p2}
    Paths <- Fork
    EvictionPolicy = "any"
    Workload <- ThreeOfFork

SPECIFICATION Spec

INVARIANTS
    ReferenceNamesItsBlock
    RemoteReuseIsComplete
PROPERTIES
    FetchedStateIsOwn
    RequestReturns
