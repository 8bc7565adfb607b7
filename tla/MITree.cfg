SPECIFICATION Spec
CONSTANTS
    Rule <- mcRule
    Dim = 3
    range <- mcRange
    priority <- mcPriority
    Packet <- mcPacket
    FieldSize <- mcFieldSize
    MatureThreshold = 10
INVARIANTS
    ShapeForgetsHistory
    CanInsertIsExact
    QueriesAreExact
    SerializationIsComplete
CHECK_DEADLOCK TRUE
