CONSTANTS
    Contexts = {c1, c2}
    Tokens = {0, 1}
    BlockSize = 3
    Requests <- MCRequests
    Ids = {b1, b2, b3}
    NoId = NoId
    MaxNodes = 5

SPECIFICATION Spec
SYMMETRY Symmetry

INVARIANTS
    TypeOK
    TreeIsWellFormed
    LookupAgrees
    CountsAgree
PROPERTIES
    ImplementsPrefixMap
