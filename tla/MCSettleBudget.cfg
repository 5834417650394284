SPECIFICATION Spec
CONSTANTS
    read1 = read1
    write = write
    read2 = read2
    prompt = prompt
    t1 = t1
    none = none
    NoTurn = none
    Effects <- LaneEffects
    Kind <- LaneKind
    Turn <- LaneTurn
    Position <- LanePosition
    Parallel <- LaneParallel
    Workers = {1}
    DeferredEval = {}
    Settle = {write}
    ClaimLimit = 2
    AttemptCap = 3
    Gated = {}
    Rerouted = {}
    GenerationLimit = 2
    ClockLimit = 2
PROPERTY RunsWithinBudget
CHECK_DEADLOCK FALSE
