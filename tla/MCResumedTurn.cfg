SPECIFICATION Spec
CONSTANTS
    a = a
    b = b
    s1 = s1
    s2 = s2
    Calls <- OneCall
    Gated = {}
    Steers = {s1}
    TurnControls = {"suspended"}
    ModelLimit = 6
    FailureLimit = 1
    HeadConflictRetries = 1
    AppendRetries = 1
    ExhaustKinds = {}
    Faults = {"crash"}
    FaultLimit = 1
INVARIANTS ResumedTurnHasPath
CHECK_DEADLOCK FALSE
