SPECIFICATION FairSpec
CONSTANTS
    Box <- mcBox
    Point <- mcPoint
    None = None
    nil = nil
    root = root
INVARIANTS
    IsSearchTree
    IsRedBlackTree
    RepairKnowsItsPlace
PROPERTIES
    ImplementsIntervalSet
    CallsReturn
CHECK_DEADLOCK TRUE
