SPECIFICATION Spec
CONSTANTS
    Rule <- mcRule
    Dim = 2
    range <- mcRange
    priority <- mcPriority
    Packet <- mcPacket
    FieldSize <- mcFieldSize
    MatureThreshold = 10
    Method = {"GFS", "MISF", "Adaptive"}
    Threshold = {0, 10}
    NoSelection = NoSelection
INVARIANTS
    BucketsAreSortable
    AdmissionTestsAgree
    EveryRuleInOneBucket
    OnlineSelectionNeverApproves
PROPERTIES
    EveryStepIsProgress
CHECK_DEADLOCK TRUE
