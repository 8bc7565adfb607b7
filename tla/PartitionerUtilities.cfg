SPECIFICATION UtilitiesSpec
CONSTANTS
    Rule <- mcRule
    Dim = 2
    range <- mcRange
    priority <- mcPriority
    Packet <- mcPacket
    Counted <- mcCounted
INVARIANTS
    ChosenAreIndependent
    ReturnsMWIS
    CountsBusiestPacket
CHECK_DEADLOCK FALSE
