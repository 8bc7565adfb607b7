SPECIFICATION Spec
CONSTANTS
    Rule <- mcPrefixRule
    Dim = 3
    range <- mcPrefixRange
    priority <- mcPriority
    Packet <- mcPacket
    AddressBits = 2
    Hash <- mcHash
    Ptr = {t1, t2, t3}
    Freed = Freed
    NoPacket = NoPacket
INVARIANTS
    TuplesAreOwned
    BookkeepingIsExact
PROPERTIES
    ImplementsBruteForce
CHECK_DEADLOCK TRUE
