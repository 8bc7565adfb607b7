SPECIFICATION Spec
CONSTANTS
    r1 = r1
    r2 = r2
    r3 = r3
    r4 = r4
    r5 = r5
    Rule <- mcRule
    Dim = 1
    range <- mcRange
    priority <- mcPriority
    Packet <- mcPacket
    packets <- mcPackets
    NumPacket = 1
    NumInsert = 3
    NumDelete = 3
    NumTrial = 2
    NoPacket = NoPacket
SYMMETRY AnyRule
INVARIANTS
    PoolsPartitionTheRules
    ClassifierHoldsRulesInUse
    NothingIsSkipped
PROPERTIES
    UsesTheInterface
CHECK_DEADLOCK FALSE
