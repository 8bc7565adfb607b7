SPECIFICATION Spec
CONSTANTS
    Node <- mcNode
    Hash = {0, 1, 2, 3, 4}
    HashOf <- mcHashOf
    CMAP_K = 2
    MAX_DEPTH = 4
    Basis <- mcBasis
    Rehashed <- mcRehashed
    NoNode = NoNode
INVARIANTS
    OneChainPerHash
PROPERTIES
    ImplementsHashMap
    CallsReturn
CHECK_DEADLOCK TRUE
