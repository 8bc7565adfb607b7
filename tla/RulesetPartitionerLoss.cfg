SPECIFICATION Spec
CONSTANTS
    Rule <- mcRule
    Dim = 2
    range <- mcRange
    priority <- mcPriority
    Packet <- mcPacket
    FieldSize <- mcFieldSize
    MatureThreshold = 10
    Method = {"Adaptive"}
    Threshold = {10}
    NoSelection = NoSelection
INVARIANTS
    ReconstructionKeepsRules
CHECK_DEADLOCK FALSE
