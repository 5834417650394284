SPECIFICATION FairSpec
CONSTANTS
    a = a
    b = b
    s1 = s1
    s2 = s2
    Calls <- OneCall
    Gated = {}
    Steers = {s1}
    TurnControls = {"suspended", "terminated", "stopped"}
    ModelLimit = 6
    FailureLimit = 1
    HeadConflictRetries = 1
    AppendRetries = 1
    ExhaustKinds = {"call"}
    Faults = {}
    FaultLimit = 0
INVARIANTS NoSteerIsDropped
PROPERTIES ImplementsLifecycle
CHECK_DEADLOCK FALSE
