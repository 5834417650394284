SPECIFICATION FairSpec
CONSTANTS
    a = a
    b = b
    s1 = s1
    s2 = s2
    Calls <- OneCall
    Gated = {a}
    Steers = {}
    TurnControls = {"suspended", "terminated", "stopped"}
    ModelLimit = 6
    FailureLimit = 1
    HeadConflictRetries = 1
    AppendRetries = 1
    ExhaustKinds = {"call", "form"}
    Faults = {"crash", "foreign"}
    FaultLimit = 1
INVARIANTS TypeOK FoldIsPrefix OpenTurnHasPath OutboxIsDerived
PROPERTIES TurnCloses ImplementsLifecycle
CHECK_DEADLOCK FALSE
