SPECIFICATION Spec
CONSTANTS
    Rule <- mcRule
    Dim = 2
    range <- mcRange
    priority <- mcPriority
    Packet <- mcPacket
    FieldSize <- mcFieldSize
    MatureThreshold = 2
    Ptr = {p1, p2, p3, p4, p5}
    Freed = Freed
    NoPacket = NoPacket
SYMMETRY Addresses
INVARIANTS
    SortedByMaxPriority
    TreesAreOwned
    RulesAreIndexed
    BookkeepingIsExact
    TreesAreSortable
    AnswerIsBest
    QueriesAreNecessary
PROPERTIES
    RulesStayInTheirTree
    ImplementsBruteForce
CHECK_DEADLOCK TRUE
