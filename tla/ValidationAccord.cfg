SPECIFICATION Spec
CONSTANTS
    Rule <- mcRule
    Dim = 2
    range <- mcRange
    priority <- mcPriority
    Packet <- mcPacket
    Top <- mcTop
    PointBits = 4
    hyperSplitLeaf = 1
    hyperCutsLeaf = 1
    spfac = 4
    threshold = 2
    MaxUpdates = 2
INVARIANTS
    InAccord
CHECK_DEADLOCK FALSE
