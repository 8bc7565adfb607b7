SPECIFICATION Spec
CONSTANTS
    Rule <- mcRangeRule
    Dim = 3
    range <- mcRangeRange
    priority <- mcRangePriority
    Packet <- mcPacket
    AddressBits = 2
    Hash <- mcHash
    Ptr = {t1, t2, t3}
    Freed = Freed
    NoPacket = NoPacket
INVARIANTS
    AnswerIsBest
CHECK_DEADLOCK TRUE
